---------------------------- MODULE ServerProofs ----------------------------
(***************************************************************************)
(* The hand-over of accepted connections and the sharing of the parser, for *)
(* any number of connections and statements.  The properties of Server are *)
(* not inductive; ServerInv adds what the two mutexes protect: who may be   *)
(* inside sockfd_mutex, what sockfd and parse_tree hold meanwhile, and that *)
(* a client waits for its answer.                                           *)
(***************************************************************************)
EXTENDS Server, TLAPS

\* The places of a thread that still holds sockfd_mutex, and of one that has
\* taken its connection.
Handing == {"start", "unlock"}
Serving == {"unlock", "read", "lock", "parse", "analyze", "release",
            "execute", "reply", "done"}

ThreadsOwnConns ==
    \A t \in Threads :
        /\ pc[t] \in Serving => fd[t] \in Conns
        /\ pc[t] \notin Serving => fd[t] = NoConn
        /\ fd[t] \in Conns => conn[fd[t]] \in {"open", "gone"}

Received ==
    /\ \A c \in Conns : inbox[c] \in Statements => inbox[c] = <<c, sent[c]>>
    /\ \A t \in Threads :
          pc[t] \in {"lock", "parse"} => sent[fd[t]] \in 1 .. MaxStatements

OneHandoff ==
    /\ main \in {"accept", "create"} => sockfd_mutex
    /\ \A t \in Threads : pc[t] \in Handing =>
          /\ sockfd_mutex
          /\ main \notin {"accept", "create"}
          /\ \A u \in Threads : pc[u] \in Handing => u = t

SockfdFresh ==
    (main = "create" \/ \E t \in Threads : pc[t] = "start") =>
        /\ sockfd \in Conns
        /\ conn[sockfd] \in {"open", "gone"}
        /\ \A u \in Threads : fd[u] # sockfd

DistinctConns ==
    \A t, u \in Threads : (t # u /\ fd[t] # NoConn) => fd[t] # fd[u]

Served ==
    \A c \in Conns :
        (conn[c] = "open" /\ main \in {"lock", "accept", "create"}) =>
            \/ main = "create" /\ sockfd = c
            \/ \E t \in Threads : fd[t] = c \/ (pc[t] = "start" /\ sockfd = c)

TreeOfHolder ==
    \A t \in Threads :
        pc[t] = "analyze" => parse_tree = <<fd[t], sent[fd[t]]>>

ServerInv ==
    /\ TypeOK /\ ThreadsOwnConns /\ Received
    /\ OneHandoff /\ SockfdFresh /\ DistinctConns /\ Served
    /\ LockedByParser /\ TreeOfHolder /\ OwnStatement

-----------------------------------------------------------------------------
\* The words a client may send are not statements, and a statement is a
\* connection and a number from 1 on.
LEMMA Requests ==
  /\ Nothing \notin Statements /\ Exit \notin Statements /\ Crash \notin Statements
  /\ Exit # Nothing /\ Crash # Nothing
  /\ \A c \in Conns : \A n :
        <<c, n>> \in Statements <=> n \in 1 .. MaxStatements
BY DEF Statements, Nothing, Exit, Crash

\* Before the first accept() no thread runs and no connection is served.
LEMMA ServerInit == Init => ServerInv
<1> SUFFICES ASSUME Init PROVE ServerInv
  BY Zenon
<1>1. TypeOK
  <2>1. 0 \in 0 .. MaxStatements
    BY ServerAssumption
  <2> QED BY Zenon, <2>1 DEF Init, TypeOK
<1>2. ThreadsOwnConns /\ Received
  BY Zenon, ServerAssumption, Requests DEF Init, ThreadsOwnConns, Received,
     Serving
<1>3. OneHandoff /\ SockfdFresh /\ DistinctConns /\ Served
  BY Zenon DEF Init, OneHandoff, Handing, SockfdFresh, DistinctConns, Served
<1>4. LockedByParser /\ TreeOfHolder /\ OwnStatement
  BY DEF Init, LockedByParser, TreeOfHolder, OwnStatement, Threads, NoThread
<1> QED BY Zenon, <1>1, <1>2, <1>3, <1>4 DEF ServerInv

\* Every step keeps the types: what the parser leaves in parse_tree is a
\* statement that its thread has received.
LEMMA TypeStep ==
  ASSUME ServerInv, [Next]_vars
  PROVE  TypeOK'
<1> USE ServerAssumption DEF ServerInv, TypeOK, At, Goto, vars, loopVars,
      parserVars, threadVars, clientVars
<1>1. CASE Accept
  BY Zenon, <1>1 DEF Accept
<1>2. CASE CreateThread
  BY Zenon, <1>2 DEF CreateThread
<1>3. CASE LockSockfd \/ AcceptError \/ CreateThreadFails \/ Interrupt \/ Cleanup
           \/ Return
  BY Zenon, <1>3 DEF LockSockfd, AcceptError, CreateThreadFails, Interrupt,
     Cleanup,
      Return
<1>4. ASSUME NEW t \in Threads, ReadSockfd(t)
      PROVE  TypeOK'
  BY Zenon, <1>4 DEF ReadSockfd
<1>5. ASSUME NEW t \in Threads, Read(t)
      PROVE  TypeOK'
  BY Zenon, <1>5 DEF Read, ThreadsOwnConns, Serving
<1>6. ASSUME NEW t \in Threads, LockBuffer(t)
      PROVE  TypeOK'
  BY Zenon, <1>6 DEF LockBuffer
<1>7. ASSUME NEW t \in Threads, Parse(t)
      PROVE  TypeOK'
  <2>1. fd[t] \in Conns /\ sent[fd[t]] \in 1 .. MaxStatements
    BY Zenon, <1>7 DEF Parse, Received, ThreadsOwnConns, Serving
  <2>2. <<fd[t], sent[fd[t]]>> \in Statements
    BY Zenon, <2>1, Requests
  <2>3. parse_tree' \in Statements \union {NoTree}
    BY Zenon, <1>7, <2>2 DEF Parse
  <2> QED BY Zenon, <1>7, <2>3 DEF Parse
<1>8. ASSUME NEW t \in Threads, Analyze(t)
      PROVE  TypeOK'
  BY <1>8 DEF Analyze
<1>9. ASSUME NEW t \in Threads, Execute(t)
      PROVE  TypeOK'
  BY Zenon, <1>9 DEF Execute
<1>10. ASSUME NEW t \in Threads, Reply(t)
      PROVE  TypeOK'
  BY Zenon, <1>10 DEF Reply
<1>11. ASSUME NEW t \in Threads, UnlockSockfd(t) \/ ReleaseBuffer(t)
      PROVE  TypeOK'
  BY Zenon, <1>11 DEF UnlockSockfd, ReleaseBuffer
<1>12. ASSUME NEW c \in Conns, Send(c)
      PROVE  TypeOK'
  <2>1. sent[c] + 1 \in 1 .. MaxStatements /\ sent[c] + 1 \in 0 .. MaxStatements
    BY <1>12 DEF Send
  <2>2. <<c, sent[c] + 1>> \in Statements
    BY Zenon, <2>1, Requests
  <2> QED BY Zenon, <1>12, <2>1, <2>2 DEF Send
<1>13. ASSUME NEW c \in Conns, SendWord(c)
      PROVE  TypeOK'
  BY Zenon, <1>13 DEF SendWord
<1>14. ASSUME NEW c \in Conns, Connect(c) \/ Hangup(c)
      PROVE  TypeOK'
  BY Zenon, <1>14 DEF Connect, Hangup
<1>15. CASE UNCHANGED vars
  BY Zenon, <1>15
<1> QED BY Zenon, <1>1, <1>2, <1>3, <1>4, <1>5, <1>6, <1>7, <1>8, <1>9, <1>10,
      <1>11, <1>12, <1>13, <1>14, <1>15
      DEF Next, MainStep, ThreadStep, ClientStep

\* A thread gets its connection in ReadSockfd, where sockfd is an open one,
\* and keeps it.
LEMMA OwnStep ==
  ASSUME ServerInv, [Next]_vars
  PROVE  ThreadsOwnConns'
<1> USE ServerAssumption DEF ServerInv, TypeOK, ThreadsOwnConns, Serving,
      At, Goto, vars, loopVars, parserVars, threadVars, clientVars
<1>1. CASE Accept
  BY <1>1 DEF Accept
<1>2. CASE LockSockfd \/ AcceptError \/ CreateThread \/ CreateThreadFails \/
           Interrupt \/ Cleanup \/ Return
  BY <1>2 DEF LockSockfd, AcceptError, CreateThread, CreateThreadFails,
      Interrupt, Cleanup, Return
<1>3. ASSUME NEW t \in Threads, ReadSockfd(t)
      PROVE  ThreadsOwnConns'
  BY Zenon, <1>3 DEF ReadSockfd, SockfdFresh
<1>4. ASSUME NEW t \in Threads, Read(t)
      PROVE  ThreadsOwnConns'
  BY <1>4 DEF Read
<1>5. ASSUME NEW t \in Threads, UnlockSockfd(t) \/ LockBuffer(t) \/ Parse(t)
             \/ Analyze(t) \/ ReleaseBuffer(t) \/ Execute(t) \/ Reply(t)
      PROVE  ThreadsOwnConns'
  BY <1>5 DEF UnlockSockfd, LockBuffer, Parse, Analyze, ReleaseBuffer, Execute,
      Reply
<1>6. ASSUME NEW c \in Conns, Hangup(c)
      PROVE  ThreadsOwnConns'
  BY <1>6 DEF Hangup
<1>7. ASSUME NEW c \in Conns, Connect(c) \/ Send(c) \/ SendWord(c)
      PROVE  ThreadsOwnConns'
  BY <1>7 DEF Connect, Send, SendWord
<1>8. CASE UNCHANGED vars
  BY Zenon, <1>8
<1> QED BY Zenon, <1>1, <1>2, <1>3, <1>4, <1>5, <1>6, <1>7, <1>8
      DEF Next, MainStep, ThreadStep, ClientStep

\* What a connection holds unread is the last statement sent over it, and a
\* thread that has read one works for a client that sent one.
LEMMA ReceivedStep ==
  ASSUME ServerInv, [Next]_vars
  PROVE  Received'
<1> USE ServerAssumption DEF ServerInv, TypeOK, Received, ThreadsOwnConns,
      Serving, At, Goto, vars, loopVars, parserVars, threadVars, clientVars
<1>1. CASE LockSockfd \/ Accept \/ AcceptError \/ CreateThread \/
           CreateThreadFails \/ Interrupt \/ Cleanup \/ Return
  BY <1>1 DEF LockSockfd, Accept, AcceptError, CreateThread, CreateThreadFails,
      Interrupt, Cleanup, Return
<1>2. ASSUME NEW t \in Threads, ReadSockfd(t)
      PROVE  Received'
  BY Zenon, <1>2 DEF ReadSockfd
<1>3. ASSUME NEW t \in Threads, Read(t)
      PROVE  Received'
  <2>1. fd[t] \in Conns
    BY Zenon, <1>3 DEF Read
  <2>2. ASSUME inbox[fd[t]] \notin {Nothing, Exit, Crash}
        PROVE  sent[fd[t]] \in 1 .. MaxStatements
    <3>1. inbox[fd[t]] \in Statements
      BY Zenon, <2>1, <2>2
    <3>2. <<fd[t], sent[fd[t]]>> \in Statements
      BY Zenon, <2>1, <3>1
    <3> QED BY Zenon, <3>2, <2>1, Requests
  <2>3. \A c \in Conns : inbox'[c] \in Statements => inbox'[c] = <<c, sent'[c]>>
    BY Zenon, <1>3, <2>1, Requests DEF Read
  <2>4. \A u \in Threads : pc'[u] \in {"lock", "parse"} =>
            sent'[fd'[u]] \in 1 .. MaxStatements
    BY <1>3, <2>2 DEF Read
  <2> QED BY Zenon, <2>3, <2>4
<1>4. ASSUME NEW t \in Threads, Analyze(t)
      PROVE  Received'
  <2>1. \A u \in Threads : pc'[u] \in {"lock", "parse"} => pc[u] = pc'[u]
    BY <1>4 DEF Analyze
  <2> QED BY Zenon, <1>4, <2>1 DEF Analyze
<1>5. ASSUME NEW t \in Threads, Reply(t)
      PROVE  Received'
  <2>1. \A u \in Threads : pc'[u] \in {"lock", "parse"} => pc[u] = pc'[u]
    BY <1>5 DEF Reply
  <2> QED BY Zenon, <1>5, <2>1 DEF Reply
<1>6. ASSUME NEW t \in Threads, UnlockSockfd(t) \/ LockBuffer(t) \/ Parse(t)
             \/ ReleaseBuffer(t) \/ Execute(t)
      PROVE  Received'
  BY <1>6 DEF UnlockSockfd, LockBuffer, Parse, ReleaseBuffer, Execute
<1>7. ASSUME NEW c \in Conns, Send(c)
      PROVE  Received'
  <2>1. \A d \in Conns : inbox'[d] \in Statements => inbox'[d] = <<d, sent'[d]>>
    BY Zenon, <1>7 DEF Send
  <2>2. ASSUME NEW t \in Threads, pc'[t] \in {"lock", "parse"}
        PROVE  sent'[fd'[t]] \in 1 .. MaxStatements
    <3>1. fd[t] \in Conns /\ fd[t] # c
      BY Zenon, <1>7, <2>2 DEF Send, Waiting
    <3> QED BY <1>7, <2>2, <3>1 DEF Send
  <2> QED BY Zenon, <2>1, <2>2
<1>8. ASSUME NEW c \in Conns, SendWord(c)
      PROVE  Received'
  BY SMTT(30), <1>8, Requests DEF SendWord
<1>9. ASSUME NEW c \in Conns, Connect(c) \/ Hangup(c)
      PROVE  Received'
  BY Zenon, <1>9 DEF Connect, Hangup
<1>10. CASE UNCHANGED vars
  BY Zenon, <1>10
<1> QED BY Zenon, <1>1, <1>2, <1>3, <1>4, <1>5, <1>6, <1>7, <1>8, <1>9, <1>10
      DEF Next, MainStep, ThreadStep, ClientStep

\* sockfd_mutex spans the hand-over: from the lock in the accept loop to the
\* unlock in the new thread at most one of the two is inside.
LEMMA HandoffStep ==
  ASSUME ServerInv, [Next]_vars
  PROVE  OneHandoff'
<1> USE ServerAssumption DEF ServerInv, TypeOK, OneHandoff, Handing, At,
      Goto, vars, loopVars, parserVars, threadVars, clientVars
<1>1. CASE LockSockfd
  BY Zenon, <1>1 DEF LockSockfd
<1>2. CASE CreateThread
  BY Zenon, <1>2 DEF CreateThread
<1>3. CASE Accept \/ AcceptError \/ CreateThreadFails \/ Interrupt \/ Cleanup \/
           Return
  BY Zenon, <1>3 DEF Accept, AcceptError, CreateThreadFails, Interrupt, Cleanup,
      Return
<1>4. ASSUME NEW t \in Threads, ReadSockfd(t)
      PROVE  OneHandoff'
  BY Zenon, <1>4 DEF ReadSockfd
<1>5. ASSUME NEW t \in Threads, UnlockSockfd(t)
      PROVE  OneHandoff'
  BY Zenon, <1>5 DEF UnlockSockfd
<1>6. ASSUME NEW t \in Threads, Read(t) \/ LockBuffer(t) \/ Parse(t) \/
             Analyze(t) \/ ReleaseBuffer(t) \/ Execute(t) \/ Reply(t)
      PROVE  OneHandoff'
  BY <1>6 DEF Read, LockBuffer, Parse, Analyze, ReleaseBuffer, Execute, Reply
<1>7. ASSUME NEW c \in Conns, Connect(c) \/ Send(c) \/ SendWord(c) \/
             Hangup(c)
      PROVE  OneHandoff'
  BY Zenon, <1>7 DEF Connect, Send, SendWord, Hangup
<1>8. CASE UNCHANGED vars
  BY Zenon, <1>8
<1> QED BY Zenon, <1>1, <1>2, <1>3, <1>4, <1>5, <1>6, <1>7, <1>8
      DEF Next, MainStep, ThreadStep, ClientStep

\* While the new thread has still to read sockfd, nothing overwrites it, and
\* no thread has the connection it names.
LEMMA FreshStep ==
  ASSUME ServerInv, [Next]_vars
  PROVE  SockfdFresh'
<1> USE ServerAssumption DEF ServerInv, TypeOK, SockfdFresh, OneHandoff,
      Handing, ThreadsOwnConns, Serving, At, Goto, vars, loopVars,
      parserVars, threadVars, clientVars
<1>1. CASE Accept
  BY <1>1 DEF Accept
<1>2. CASE AcceptError
  BY Zenon, <1>2 DEF AcceptError
<1>3. CASE CreateThread
  BY Zenon, <1>3 DEF CreateThread
<1>4. CASE LockSockfd \/ CreateThreadFails \/ Interrupt \/ Cleanup \/ Return
  BY Zenon, <1>4 DEF LockSockfd, CreateThreadFails, Interrupt, Cleanup, Return
<1>5. ASSUME NEW t \in Threads, ReadSockfd(t)
      PROVE  SockfdFresh'
  BY SMTT(30), <1>5 DEF ReadSockfd
<1>6. ASSUME NEW t \in Threads, UnlockSockfd(t) \/ Read(t) \/ LockBuffer(t) \/
             Parse(t) \/ Analyze(t) \/ ReleaseBuffer(t) \/ Execute(t) \/
             Reply(t)
      PROVE  SockfdFresh'
  BY <1>6 DEF UnlockSockfd, Read, LockBuffer, Parse, Analyze, ReleaseBuffer,
      Execute, Reply
<1>7. ASSUME NEW c \in Conns, Hangup(c)
      PROVE  SockfdFresh'
  BY Zenon, <1>7 DEF Hangup
<1>8. ASSUME NEW c \in Conns, Connect(c) \/ Send(c) \/ SendWord(c)
      PROVE  SockfdFresh'
  BY <1>8 DEF Connect, Send, SendWord
<1>9. CASE UNCHANGED vars
  BY Zenon, <1>9
<1> QED BY Zenon, <1>1, <1>2, <1>3, <1>4, <1>5, <1>6, <1>7, <1>8, <1>9
      DEF Next, MainStep, ThreadStep, ClientStep

\* Two threads never get the same connection.
LEMMA DistinctStep ==
  ASSUME ServerInv, [Next]_vars
  PROVE  DistinctConns'
<1> USE ServerAssumption DEF ServerInv, TypeOK, DistinctConns, At, Goto,
      vars, loopVars, parserVars, threadVars, clientVars
<1>1. CASE LockSockfd \/ Accept \/ AcceptError \/ CreateThread \/
           CreateThreadFails \/ Interrupt \/ Cleanup \/ Return
  BY Zenon, <1>1 DEF LockSockfd, Accept, AcceptError, CreateThread,
     CreateThreadFails,
      Interrupt, Cleanup, Return
<1>2. ASSUME NEW t \in Threads, ReadSockfd(t)
      PROVE  DistinctConns'
  BY Zenon, <1>2 DEF ReadSockfd, SockfdFresh
<1>3. ASSUME NEW t \in Threads, UnlockSockfd(t) \/ Read(t) \/ LockBuffer(t) \/
             Parse(t) \/ Analyze(t) \/ ReleaseBuffer(t) \/ Execute(t) \/
             Reply(t)
      PROVE  DistinctConns'
  BY Zenon, <1>3 DEF UnlockSockfd, Read, LockBuffer, Parse, Analyze,
     ReleaseBuffer,
      Execute, Reply
<1>4. ASSUME NEW c \in Conns, Connect(c) \/ Send(c) \/ SendWord(c) \/
             Hangup(c)
      PROVE  DistinctConns'
  BY Zenon, <1>4 DEF Connect, Send, SendWord, Hangup
<1>5. CASE UNCHANGED vars
  BY Zenon, <1>5
<1> QED BY Zenon, <1>1, <1>2, <1>3, <1>4, <1>5
      DEF Next, MainStep, ThreadStep, ClientStep

\* A connection that was accepted stays with its thread, or in sockfd until
\* the thread has read it.
LEMMA ServedStep ==
  ASSUME ServerInv, [Next]_vars
  PROVE  Served'
<1> USE ServerAssumption DEF ServerInv, TypeOK, Served, At, Goto, vars,
      loopVars, parserVars, threadVars, clientVars
<1>1. CASE LockSockfd
  BY Zenon, <1>1 DEF LockSockfd
<1>2. CASE Accept
  BY <1>2 DEF Accept, OneHandoff, Handing, ThreadsOwnConns, Serving
<1>3. CASE AcceptError
  BY Zenon, <1>3 DEF AcceptError, OneHandoff, Handing, ThreadsOwnConns, Serving
<1>4. CASE CreateThread
  BY <1>4 DEF CreateThread, OneHandoff, Handing, ThreadsOwnConns, Serving
<1>5. CASE CreateThreadFails \/ Interrupt \/ Cleanup \/ Return
  BY Zenon, <1>5 DEF CreateThreadFails, Interrupt, Cleanup, Return
<1>6. ASSUME NEW t \in Threads, ReadSockfd(t)
      PROVE  Served'
  BY <1>6 DEF ReadSockfd, OneHandoff, Handing, ThreadsOwnConns, Serving
<1>7. ASSUME NEW t \in Threads, UnlockSockfd(t) \/ Read(t) \/ LockBuffer(t) \/
             Parse(t) \/ Analyze(t) \/ ReleaseBuffer(t) \/ Execute(t) \/
             Reply(t)
      PROVE  Served'
  BY <1>7 DEF UnlockSockfd, Read, LockBuffer, Parse, Analyze, ReleaseBuffer,
      Execute, Reply
<1>8. ASSUME NEW c \in Conns, Hangup(c)
      PROVE  Served'
  BY Zenon, <1>8 DEF Hangup
<1>9. ASSUME NEW c \in Conns, Connect(c) \/ Send(c) \/ SendWord(c)
      PROVE  Served'
  BY <1>9 DEF Connect, Send, SendWord
<1>10. CASE UNCHANGED vars
  BY Zenon, <1>10
<1> QED BY Zenon, <1>1, <1>2, <1>3, <1>4, <1>5, <1>6, <1>7, <1>8, <1>9, <1>10
      DEF Next, MainStep, ThreadStep, ClientStep

\* buffer_mutex is held exactly by the thread between its lock and the unlock
\* of the path it takes.
LEMMA LockStep ==
  ASSUME ServerInv, [Next]_vars
  PROVE  LockedByParser'
<1> USE ServerAssumption DEF ServerInv, TypeOK, LockedByParser, Threads,
      NoThread, At, Goto, vars, loopVars, parserVars, threadVars, clientVars
<1>1. CASE CreateThread
  BY Zenon, <1>1 DEF CreateThread
<1>2. CASE LockSockfd \/ Accept \/ AcceptError \/ CreateThreadFails \/ Interrupt
           \/ Cleanup \/ Return
  BY Zenon, <1>2 DEF LockSockfd, Accept, AcceptError, CreateThreadFails,
     Interrupt,
      Cleanup, Return
<1>3. ASSUME NEW t \in Threads, LockBuffer(t)
      PROVE  LockedByParser'
  BY <1>3 DEF LockBuffer
<1>4. ASSUME NEW t \in Threads, Parse(t)
      PROVE  LockedByParser'
  BY Zenon, <1>4 DEF Parse
<1>5. ASSUME NEW t \in Threads, Analyze(t)
      PROVE  LockedByParser'
  <2>1. CASE buffer_mutex' = NoThread /\ Goto(t, "execute")
    BY <1>5, <2>1 DEF Analyze
  <2>2. CASE UNCHANGED buffer_mutex /\ Goto(t, "release")
    BY Zenon, <1>5, <2>2 DEF Analyze
  <2> QED BY Zenon, <1>5, <2>1, <2>2 DEF Analyze
<1>6. ASSUME NEW t \in Threads, ReleaseBuffer(t)
      PROVE  LockedByParser'
  BY <1>6 DEF ReleaseBuffer
<1>7. ASSUME NEW t \in Threads, ReadSockfd(t) \/ UnlockSockfd(t) \/ Read(t) \/
             Execute(t) \/ Reply(t)
      PROVE  LockedByParser'
  BY ZenonT(30), <1>7 DEF ReadSockfd, UnlockSockfd, Read, Execute, Reply
<1>8. ASSUME NEW c \in Conns, Connect(c) \/ Send(c) \/ SendWord(c) \/
             Hangup(c)
      PROVE  LockedByParser'
  BY Zenon, <1>8 DEF Connect, Send, SendWord, Hangup
<1>9. CASE UNCHANGED vars
  BY Zenon, <1>9
<1> QED BY Zenon, <1>1, <1>2, <1>3, <1>4, <1>5, <1>6, <1>7, <1>8, <1>9
      DEF Next, MainStep, ThreadStep, ClientStep

\* No other thread writes parse_tree while a thread analyses its own tree, and
\* its client does not send before it has the answer.
LEMMA TreeStep ==
  ASSUME ServerInv, [Next]_vars
  PROVE  TreeOfHolder'
<1> USE ServerAssumption DEF ServerInv, TypeOK, TreeOfHolder,
      ThreadsOwnConns, Serving, At, Goto, vars, loopVars, parserVars,
      threadVars, clientVars
<1>1. CASE LockSockfd \/ Accept \/ AcceptError \/ CreateThread \/
           CreateThreadFails \/ Interrupt \/ Cleanup \/ Return
  BY <1>1 DEF LockSockfd, Accept, AcceptError, CreateThread, CreateThreadFails,
      Interrupt, Cleanup, Return
<1>2. ASSUME NEW t \in Threads, ReadSockfd(t)
      PROVE  TreeOfHolder'
  BY <1>2 DEF ReadSockfd
<1>3. ASSUME NEW t \in Threads, Parse(t)
      PROVE  TreeOfHolder'
  BY <1>3 DEF Parse, LockedByParser
<1>4. ASSUME NEW t \in Threads, Analyze(t)
      PROVE  TreeOfHolder'
  BY <1>4 DEF Analyze
<1>5. ASSUME NEW t \in Threads, UnlockSockfd(t) \/ Read(t) \/ LockBuffer(t) \/
             ReleaseBuffer(t) \/ Execute(t) \/ Reply(t)
      PROVE  TreeOfHolder'
  BY <1>5 DEF UnlockSockfd, Read, LockBuffer, ReleaseBuffer, Execute, Reply
<1>6. ASSUME NEW c \in Conns, Send(c)
      PROVE  TreeOfHolder'
  BY Zenon, <1>6 DEF Send, Waiting
<1>7. ASSUME NEW c \in Conns, Connect(c) \/ SendWord(c) \/ Hangup(c)
      PROVE  TreeOfHolder'
  BY Zenon, <1>7 DEF Connect, SendWord, Hangup
<1>8. CASE UNCHANGED vars
  BY Zenon, <1>8
<1> QED BY Zenon, <1>1, <1>2, <1>3, <1>4, <1>5, <1>6, <1>7, <1>8
      DEF Next, MainStep, ThreadStep, ClientStep

\* The query a thread takes out of the parser is its own client's.
LEMMA StatementStep ==
  ASSUME ServerInv, [Next]_vars
  PROVE  OwnStatement'
<1> USE ServerAssumption DEF ServerInv, TypeOK, OwnStatement,
      ThreadsOwnConns, Serving, At, Goto, vars, loopVars, parserVars,
      threadVars, clientVars
<1>1. CASE LockSockfd \/ Accept \/ AcceptError \/ CreateThread \/
           CreateThreadFails \/ Interrupt \/ Cleanup \/ Return
  BY <1>1 DEF LockSockfd, Accept, AcceptError, CreateThread, CreateThreadFails,
      Interrupt, Cleanup, Return
<1>2. ASSUME NEW t \in Threads, ReadSockfd(t)
      PROVE  OwnStatement'
  BY <1>2 DEF ReadSockfd
<1>3. ASSUME NEW t \in Threads, Analyze(t)
      PROVE  OwnStatement'
  BY <1>3 DEF Analyze, TreeOfHolder
<1>4. ASSUME NEW t \in Threads, Execute(t)
      PROVE  OwnStatement'
  BY <1>4 DEF Execute
<1>5. ASSUME NEW t \in Threads, UnlockSockfd(t) \/ Read(t) \/ LockBuffer(t) \/
             Parse(t) \/ ReleaseBuffer(t) \/ Reply(t)
      PROVE  OwnStatement'
  BY <1>5 DEF UnlockSockfd, Read, LockBuffer, Parse, ReleaseBuffer, Reply
<1>6. ASSUME NEW c \in Conns, Send(c)
      PROVE  OwnStatement'
  BY Zenon, <1>6 DEF Send, Waiting
<1>7. ASSUME NEW c \in Conns, Connect(c) \/ SendWord(c) \/ Hangup(c)
      PROVE  OwnStatement'
  BY Zenon, <1>7 DEF Connect, SendWord, Hangup
<1>8. CASE UNCHANGED vars
  BY Zenon, <1>8
<1> QED BY Zenon, <1>1, <1>2, <1>3, <1>4, <1>5, <1>6, <1>7, <1>8
      DEF Next, MainStep, ThreadStep, ClientStep

-----------------------------------------------------------------------------
\* ServerInv holds throughout: every step of start_server, of a
\* client_handler and of a client preserves it.
THEOREM ServerInductive == Spec => []ServerInv
<1>1. ServerInv /\ [Next]_vars => ServerInv'
  <2> SUFFICES ASSUME ServerInv, [Next]_vars PROVE ServerInv'
    BY Zenon
  <2>1. (TypeOK /\ ThreadsOwnConns /\ Received)'
    BY Zenon, TypeStep, OwnStep, ReceivedStep
  <2>2. (OneHandoff /\ SockfdFresh /\ DistinctConns /\ Served)'
    BY Zenon, HandoffStep, FreshStep, DistinctStep, ServedStep
  <2>3. (LockedByParser /\ TreeOfHolder /\ OwnStatement)'
    BY Zenon, LockStep, TreeStep, StatementStep
  <2> QED BY Zenon, <2>1, <2>2, <2>3 DEF ServerInv
<1> QED BY <1>1, ServerInit, PTL DEF Spec

\* Handing a connection over by the address of a local variable is safe: the
\* mutex locked by one thread and unlocked by another covers the hand-over.
THEOREM HandoffIsExact == Spec => []HandoffExact
<1>1. ServerInv => HandoffExact
  BY Zenon DEF ServerInv, DistinctConns, Served, HandoffExact
<1> QED BY <1>1, ServerInductive, PTL

\* Whatever the interleaving, a thread executes what its own client sent last.
THEOREM ExecutesOwnStatement == Spec => []OwnStatement
<1>1. ServerInv => OwnStatement
  BY Zenon DEF ServerInv
<1> QED BY <1>1, ServerInductive, PTL

\* Every path through the parser and the analyser unlocks buffer_mutex once.
THEOREM ParserLockBalanced == Spec => []LockedByParser
<1>1. ServerInv => LockedByParser
  BY Zenon DEF ServerInv
<1> QED BY <1>1, ServerInductive, PTL
=============================================================================
