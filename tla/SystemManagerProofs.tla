------------------------ MODULE SystemManagerProofs -------------------------
(***************************************************************************)
(* The catalogue under any interleaving of statements, failures and        *)
(* crashes, for every set of tables, descriptors, clients and columns: the *)
(* descriptor maps stay inverse to each other, and every header that a     *)
(* handle or a file carries gives each slot its place in the page.  As     *)
(* long as no two statements overlap, catalogue, db.meta and table files   *)
(* agree as well, and a crash leaves a database that can be opened.        *)
(***************************************************************************)
EXTENDS SystemManager, NaturalsInduction, WellFoundedInduction, TLAPS

(* The arithmetic of a page, for every page size, header sizes and record  *)
(* size that satisfy LayoutAssumption.                                     *)

LEMMA DivMul ==
  ASSUME NEW x \in Nat, NEW d \in Nat \ {0}
  PROVE  x \div d \in Nat /\ (x \div d) * d <= x
  BY Z3

LEMMA Distribute ==
  ASSUME NEW n \in Nat, NEW r \in Nat
  PROVE  n * (1 + r * 8) = n + 8 * (n * r) /\ n * r \in Nat
  BY Z3

LEMMA RoundUp ==
  ASSUME NEW n \in Nat
  PROVE  (n + 7) \div 8 \in Nat /\ 8 * ((n + 7) \div 8) <= n + 7
  BY Z3

LEMMA BucketBelow ==
  ASSUME NEW n \in Nat, NEW i \in Nat, i < n
  PROVE  i \div 8 \in Nat /\ i \div 8 < (n + 7) \div 8
  BY Z3

LEMMA SlotEnd ==
  ASSUME NEW n \in Nat, NEW i \in Nat, NEW r \in Nat, i < n
  PROVE  i * r \in Nat /\ i * r + r <= n * r
  BY Z3

(* The inequality of the comment in create_file: header, bitmap and slots  *)
(* together fit a page.                                                    *)
LEMMA LayoutFits ==
  ASSUME NEW r \in Nat \ {0}
  PROVE  LET n == num_records(r) IN
         /\ n \in Nat
         /\ SIZEOF_FILE_HDR + (n + 7) \div 8 + n * r <= PAGE_SIZE
<1> DEFINE X == 8 * (PAGE_SIZE - 1 - SIZEOF_FILE_HDR) + 1
           n == num_records(r)
<1>1. X \in Nat /\ 1 + r * 8 \in Nat \ {0}
  BY LayoutAssumption
<1>2. n = X \div (1 + r * 8)
  BY Zenon DEF num_records, BITMAP_WIDTH
<1> HIDE DEF X, n
<1>3. n \in Nat /\ n * (1 + r * 8) <= X
  BY Zenon, <1>1, <1>2, DivMul
<1>4. n * r \in Nat /\ n + 8 * (n * r) <= X
  BY Zenon, <1>3, Distribute
<1>5. (n + 7) \div 8 \in Nat /\ 8 * ((n + 7) \div 8) <= n + 7
  BY Zenon, <1>3, RoundUp
<1>6. 8 * ((n + 7) \div 8 + n * r) <= X + 7
  BY <1>1, <1>3, <1>4, <1>5
<1>7. (n + 7) \div 8 + n * r <= PAGE_SIZE - SIZEOF_FILE_HDR
  BY <1>4, <1>5, <1>6, LayoutAssumption DEF X
<1> QED
  BY <1>3, <1>4, <1>5, <1>7, LayoutAssumption DEF n

(* Every slot of a page whose file has the header that create_file made    *)
(* from an acceptable record size has its place in the page.               *)
LEMMA HeaderFits ==
  ASSUME NEW r \in RecordSizes,
         NEW i \in 0..(FileHdr(r).num_records_per_page - 1)
  PROVE  SlotFits(FileHdr(r), i)
<1> DEFINE n == num_records(r)
           b == (n + 7) \div 8
           h == FileHdr(r)
<1>1. r \in Nat \ {0}
  BY LayoutAssumption DEF RecordSizes
<1>2. n \in Nat /\ SIZEOF_FILE_HDR + b + n * r <= PAGE_SIZE
  BY Zenon, <1>1, LayoutFits
<1>3. h.record_size = r /\ h.num_records_per_page = n
  BY Zenon DEF FileHdr
<1>4. h.bitmap_size = b
  <2>1. n + 8 - 1 = n + 7
    BY <1>2
  <2> QED
    BY Zenon, <2>1 DEF FileHdr, BITMAP_WIDTH
<1>5. i \in Nat /\ i < n
  BY <1>2, <1>3
<1>6. i * r \in Nat /\ i * r + r <= n * r
  BY Zenon, <1>1, <1>2, <1>5, SlotEnd
<1>7. i \div 8 \in Nat /\ i \div 8 < b
  BY Zenon, <1>2, <1>5, BucketBelow
<1>8. b \in Nat /\ n * r \in Nat
  BY Zenon, <1>1, <1>2, RoundUp, Distribute
<1>9. 0 * r = 0
  BY <1>1
<1> HIDE DEF n, b, h
<1>10. SlotStart(h, i) + h.record_size <= PAGE_SIZE
  BY <1>1, <1>2, <1>3, <1>4, <1>6, <1>8, LayoutAssumption
  DEF SlotStart, BitmapStart
<1>11. get_bucket(i) < SlotStart(h, 0)
  BY <1>3, <1>4, <1>7, <1>8, <1>9, LayoutAssumption
  DEF get_bucket, SlotStart, BitmapStart, BITMAP_WIDTH
<1> QED
  BY Zenon, <1>10, <1>11 DEF SlotFits, h

-----------------------------------------------------------------------------
(* The statements.                                                         *)

Hdrs == {NoHdr} \union {FileHdr(r) : r \in RecordSizes}
Cols == {<<>>} \union {ColMetas(t, defs) : t \in Tables, defs \in Schemas}
Kinds == {"none", "create", "drop", "close", "init"}
Steps == {"idle", "create", "header", "insert", "open", "emplace", "close",
          "forget", "destroy", "erase", "truncate", "format", "write", "finish"}
Ops == [kind : Kinds, tab : Tables \union {NoTable}, cols : Cols,
        fd : Fds \union {NoFd}, hdr : Hdrs, step : Steps]
Files == [state : {"absent", "blank", "ready"}, hdr : Hdrs]

(* What the statements in progress hold: a table and a descriptor wherever *)
(* the next step will use one.                                             *)
Creating == {"create", "header", "insert", "open"}
OpsTyped ==
    /\ op \in [Threads -> Ops]
    /\ \A c \in Threads : op[c].step \in {"emplace", "close"} => op[c].fd \in Fds
    /\ \A c \in Threads : op[c].step \in Creating => op[c].tab \in Tables

(* Every header comes from create_file.  A handle has a descriptor.        *)
HeadersMade ==
    /\ file \in [Tables -> Files]
    /\ fhs_ \in [Tables -> {NoHandle} \union [fd : Fds, hdr : Hdrs]]

MapsTyped ==
    /\ DOMAIN path2fd_ = Tables
    /\ DOMAIN fd2path_ = Fds

CatalogueInv == OpsTyped /\ HeadersMade /\ MapsTyped /\ FileMapsInverse

LEMMA IdleTyped == Idle \in Ops /\ Idle.step = "idle"
<1>1. NoHdr \in Hdrs
  BY Zenon DEF Hdrs
<1>2. <<>> \in Cols
  BY DEF Cols
<1> QED
  BY Zenon, <1>1, <1>2 DEF Idle, Ops, Kinds, Steps

(* A step that only moves thread c on, or ends its statement.              *)
LEMMA GotoTyped ==
  ASSUME OpsTyped, NEW c \in Threads, NEW s \in Steps,
         s \notin {"emplace", "close"},
         s \in Creating => op[c].step \in Creating,
         Goto(c, s)
  PROVE  OpsTyped'
  BY Zenon DEF OpsTyped, Goto, Ops

LEMMA DoneTyped ==
  ASSUME OpsTyped, NEW c \in Threads, Done(c)
  PROVE  OpsTyped'
  BY Zenon, IdleTyped DEF OpsTyped, Done, Creating

LEMMA MemoryLostInv ==
  ASSUME CatalogueInv, MemoryLost, UNCHANGED diskVars
  PROVE  CatalogueInv'
<1>1. OpsTyped'
  BY Zenon, IdleTyped DEF MemoryLost, OpsTyped, Creating
<1>2. HeadersMade'
  BY Zenon DEF CatalogueInv, HeadersMade, MemoryLost, diskVars
<1>3. MapsTyped' /\ FileMapsInverse'
  BY Zenon, CatalogueAssumption DEF MemoryLost, MapsTyped, FileMapsInverse
<1> QED
  BY Zenon, <1>1, <1>2, <1>3 DEF CatalogueInv

(* What close_file does with a descriptor d that is open.                  *)
LEMMA CloseInv ==
  ASSUME MapsTyped, FileMapsInverse, NEW d \in Fds, fd2path_[d] # NoPath,
         path2fd_' = [path2fd_ EXCEPT ![fd2path_[d]] = NoFd],
         fd2path_' = [fd2path_ EXCEPT ![d] = NoPath]
  PROVE  MapsTyped' /\ FileMapsInverse'
  BY CatalogueAssumption DEF MapsTyped, FileMapsInverse

LEMMA OpenDbInv ==
  ASSUME CatalogueInv, OpenDb
  PROVE  CatalogueInv'
<1> DEFINE db == ReadDb(meta.text)
<1>1. PICK f \in [DOMAIN db -> Fds] :
          /\ IsInjective(f)
          /\ fhs_' = [t \in Tables |-> IF t \in DOMAIN db
                                       THEN [fd |-> f[t], hdr |-> file[t].hdr]
                                       ELSE NoHandle]
          /\ path2fd_' = [t \in Tables |-> fhs_'[t].fd]
          /\ fd2path_' = [d \in Fds |-> PathOf(f, d)]
  BY Zenon DEF OpenDb
<1>2. UNCHANGED file /\ op' = [op EXCEPT ![Main] = Idle]
  BY Zenon DEF OpenDb, diskVars
<1> HIDE DEF db
<1>3. OpsTyped'
  BY Zenon, <1>2, IdleTyped DEF CatalogueInv, OpsTyped, Creating
<1>4. HeadersMade'
  BY Zenon, <1>1, <1>2 DEF CatalogueInv, HeadersMade, Files
<1>5. MapsTyped'
  BY Zenon, <1>1 DEF MapsTyped
<1>6. ASSUME NEW t \in Tables, NEW d \in Fds
      PROVE  (path2fd_'[t] = d) <=> (fd2path_'[d] = t)
  <2>1. path2fd_'[t] = d <=> t \in DOMAIN db /\ f[t] = d
    BY Zenon, <1>1, CatalogueAssumption DEF NoHandle
  <2>2. ASSUME t \in DOMAIN db, f[t] = d PROVE PathOf(f, d) = t
    BY Zenon, <1>1, <2>2 DEF PathOf, IsInjective, Range
  <2>3. ASSUME PathOf(f, d) = t PROVE t \in DOMAIN db /\ f[t] = d
    BY Zenon, <1>1, <2>3, CatalogueAssumption DEF PathOf, Range
  <2> QED
    BY Zenon, <1>1, <2>1, <2>2, <2>3
<1> QED
  BY Zenon, <1>3, <1>4, <1>5, <1>6 DEF CatalogueInv, FileMapsInverse

(* The statements' own steps.                                              *)
LEMMA CreateTableInv ==
  ASSUME CatalogueInv, NEW c \in Clients, NEW t \in Tables, NEW defs \in Schemas,
         CreateTable(c, t, defs)
  PROVE  CatalogueInv'
<1>1. ColMetas(t, defs) \in Cols /\ FileHdr(record_size(defs)) \in Hdrs
  BY DEF CreateTable, Cols, Hdrs
<1>2. OpsTyped'
  <2> DEFINE o == [kind |-> "create", tab |-> t, cols |-> ColMetas(t, defs),
                   fd |-> NoFd, hdr |-> FileHdr(record_size(defs)),
                   step |-> "create"]
  <2>1. o \in Ops /\ o.step = "create" /\ o.tab = t
    BY Zenon, <1>1 DEF Ops, Kinds, Steps
  <2>2. op' = [op EXCEPT ![c] = o]
    BY Zenon DEF CreateTable
  <2> HIDE DEF o
  <2> QED
    BY Zenon, <2>1, <2>2 DEF CatalogueInv, OpsTyped
<1> QED
  BY <1>2 DEF CatalogueInv, HeadersMade, MapsTyped, FileMapsInverse,
     CreateTable,
              diskVars, mapVars

LEMMA DropTableInv ==
  ASSUME CatalogueInv, NEW c \in Clients, NEW t \in Tables, DropTable(c, t)
  PROVE  CatalogueInv'
<1>1. OpsTyped'
  <2> DEFINE o == [kind |-> "drop", tab |-> t, cols |-> <<>>, fd |-> fhs_[t].fd,
                   hdr |-> fhs_[t].hdr,
                   step |-> IF fhs_[t] # NoHandle THEN "close" ELSE "destroy"]
  <2>1. /\ fhs_[t].fd \in Fds \union {NoFd} /\ fhs_[t].hdr \in Hdrs
        /\ fhs_[t] # NoHandle => fhs_[t].fd \in Fds
    <3>1. NoHandle.fd = NoFd /\ NoHandle.hdr \in Hdrs
      BY Zenon DEF NoHandle, Hdrs
    <3>2. fhs_[t] = NoHandle \/ fhs_[t] \in [fd : Fds, hdr : Hdrs]
      BY Zenon DEF CatalogueInv, HeadersMade
    <3> QED
      BY Zenon, <3>1, <3>2
  <2>2. <<>> \in Cols
    BY DEF Cols
  <2>3. /\ o \in Ops /\ o.step \in {"close", "destroy"}
        /\ o.step = "close" => o.fd \in Fds
    BY Zenon, <2>1, <2>2 DEF Ops, Kinds, Steps
  <2>4. op' = [op EXCEPT ![c] = o]
    BY Zenon DEF DropTable
  <2> HIDE DEF o
  <2> QED
    BY Zenon, <2>3, <2>4 DEF CatalogueInv, OpsTyped, Creating
<1> QED
  BY Zenon, <1>1 DEF CatalogueInv, HeadersMade, MapsTyped, FileMapsInverse,
     DropTable,
              diskVars, mapVars

LEMMA MainInv ==
  ASSUME CatalogueInv, CreateDb \/ BeginCloseDb
  PROVE  CatalogueInv'
<1>1. OpsTyped'
  BY DEF CatalogueInv, OpsTyped, Ops, Kinds, Steps, Creating, CreateDb,
     BeginCloseDb
<1> QED
  BY <1>1 DEF CatalogueInv, HeadersMade, MapsTyped, FileMapsInverse, CreateDb,
              BeginCloseDb, diskVars, mapVars

LEMMA CloseHandleInv ==
  ASSUME CatalogueInv, NEW t \in Tables, CloseHandle(t)
  PROVE  CatalogueInv'
<1> DEFINE d == fhs_[t].fd
<1>1. d \in Fds /\ fhs_[t].hdr \in Hdrs
  BY DEF CatalogueInv, HeadersMade, CloseHandle, NoHandle
<1>2. HeadersMade'
  BY Zenon, <1>1 DEF CatalogueInv, HeadersMade, CloseHandle, HeaderSaved,
     Ready, Files
<1>3. MapsTyped' /\ FileMapsInverse'
  BY Zenon, <1>1, CloseInv DEF CatalogueInv, CloseHandle
<1>4. OpsTyped'
  BY Zenon DEF CatalogueInv, OpsTyped, CloseHandle
<1> QED
  BY Zenon, <1>2, <1>3, <1>4 DEF CatalogueInv

LEMMA StepInv ==
  ASSUME CatalogueInv, NEW c \in Threads, Step(c)
  PROVE  CatalogueInv'
<1> USE DEF CatalogueInv
<1>1. CASE TruncateMeta(c) \/ FormatMeta(c) \/ InsertTable(c) \/ EraseTable(c)
  <2>1. OpsTyped'
    BY Zenon, <1>1, GotoTyped DEF Steps, Creating, At, TruncateMeta, FormatMeta,
       InsertTable, EraseTable
  <2> QED
    BY <1>1, <2>1 DEF TruncateMeta, FormatMeta, InsertTable, EraseTable,
       HeadersMade, MapsTyped, FileMapsInverse, diskVars, mapVars
<1>2. CASE WriteMeta(c)
  <2>1. OpsTyped'
    BY Zenon, <1>2, GotoTyped, DoneTyped DEF Steps, Creating, WriteMeta
  <2> QED
    BY Zenon, <1>2, <2>1 DEF WriteMeta, HeadersMade, MapsTyped,
       FileMapsInverse, mapVars
<1>3. CASE CreateFile(c) \/ WriteHeader(c) \/ DestroyFile(c)
  <2>1. OpsTyped'
    BY Zenon, <1>3, GotoTyped, DoneTyped DEF Steps, Creating, At, CreateFile,
       WriteHeader, DestroyFile
  <2>2. HeadersMade'
    <3>1. NoHdr \in Hdrs
      BY Zenon DEF Hdrs
    <3>2. op[c].hdr \in Hdrs
      BY Zenon DEF OpsTyped, Ops
    <3> QED
      BY <1>3, <3>1, <3>2 DEF CreateFile, WriteHeader, DestroyFile, HeadersMade,
         Absent, Blank, Ready, Files
  <2> QED
    BY <1>3, <2>1, <2>2 DEF CreateFile, WriteHeader, DestroyFile, MapsTyped,
       FileMapsInverse, mapVars
<1>4. CASE OpenFile(c)
  <2> DEFINE t == op[c].tab
  <2>1. HeadersMade'
    BY Zenon, <1>4 DEF OpenFile, HeadersMade, diskVars
  <2>2. CASE UNCHANGED mapVars /\ Done(c)
    BY Zenon, <2>1, <2>2, DoneTyped DEF MapsTyped, FileMapsInverse, mapVars
  <2>3. CASE ~ (UNCHANGED mapVars /\ Done(c))
    <3>1. PICK d \in Fds :
            /\ fd2path_[d] = NoPath
            /\ path2fd_' = [path2fd_ EXCEPT ![t] = d]
            /\ fd2path_' = [fd2path_ EXCEPT ![d] = t]
            /\ IF file[t] = Blank THEN Done(c)
               ELSE op' = [op EXCEPT ![c].fd = d, ![c].hdr = file[t].hdr,
                                     ![c].step = "emplace"]
      BY Zenon, <1>4, <2>3 DEF OpenFile
    <3>2. path2fd_[t] = NoFd /\ file[t] # Absent
      BY Zenon, <1>4, <2>3 DEF OpenFile, Closed
    <3>3. MapsTyped' /\ FileMapsInverse'
      BY <3>1, <3>2, CatalogueAssumption DEF MapsTyped, FileMapsInverse
    <3>4. OpsTyped'
      <4>1. CASE Done(c)
        BY Zenon, <4>1, DoneTyped
      <4>2. CASE op' = [op EXCEPT ![c].fd = d, ![c].hdr = file[t].hdr,
                                  ![c].step = "emplace"]
        <5> DEFINE o == [op[c] EXCEPT !.fd = d, !.hdr = file[t].hdr,
                                      !.step = "emplace"]
        <5>1. t \in Tables
          BY Zenon, <1>4 DEF OpenFile, At, OpsTyped, Creating
        <5>2. file[t].hdr \in Hdrs
          BY Zenon, <5>1 DEF HeadersMade, Files
        <5>3. o \in Ops /\ o.step = "emplace" /\ o.fd = d
          BY Zenon, <5>2 DEF OpsTyped, Ops, Steps
        <5>4. op' = [op EXCEPT ![c] = o]
          BY Zenon, <4>2
        <5> HIDE DEF o
        <5> QED
          BY Zenon, <5>3, <5>4 DEF OpsTyped, Creating
      <4> QED
        BY Zenon, <3>1, <4>1, <4>2
    <3> QED
      BY Zenon, <2>1, <3>3, <3>4
  <2> QED
    BY Zenon, <2>2, <2>3
<1>5. CASE EmplaceHandle(c)
  <2>1. OpsTyped'
    BY Zenon, <1>5, GotoTyped DEF Steps, Creating, EmplaceHandle
  <2>2. op[c].fd \in Fds /\ op[c].hdr \in Hdrs
    BY Zenon, <1>5 DEF EmplaceHandle, At, OpsTyped, Ops
  <2> QED
    BY Zenon, <1>5, <2>1, <2>2 DEF EmplaceHandle, HeadersMade, MapsTyped,
       FileMapsInverse, diskVars, mapVars
<1>6. CASE CloseFile(c)
  <2> DEFINE d == op[c].fd
  <2>1. OpsTyped'
    BY Zenon, <1>6, GotoTyped, DoneTyped DEF Steps, Creating, CloseFile
  <2>2. d \in Fds /\ op[c].hdr \in Hdrs
    BY Zenon, <1>6 DEF CloseFile, At, OpsTyped, Ops
  <2>3. CASE fd2path_[d] = NoPath
    BY <1>6, <2>1, <2>3 DEF CloseFile, HeadersMade, MapsTyped, FileMapsInverse,
       mapVars
  <2>4. CASE fd2path_[d] # NoPath
    <3>1. HeadersMade'
      BY <1>6, <2>2, <2>4 DEF CloseFile, HeadersMade, HeaderSaved, Ready, Files
    <3>2. MapsTyped' /\ FileMapsInverse'
      BY Zenon, <1>6, <2>2, <2>4, CloseInv DEF CloseFile
    <3> QED
      BY Zenon, <2>1, <3>1, <3>2
  <2> QED
    BY Zenon, <2>3, <2>4
<1>7. CASE ForgetHandle(c)
  <2>1. OpsTyped'
    BY Zenon, <1>7, GotoTyped DEF Steps, Creating, ForgetHandle
  <2> QED
    BY Zenon, <1>7, <2>1 DEF ForgetHandle, HeadersMade, MapsTyped,
       FileMapsInverse,
       diskVars, mapVars
<1> QED
  BY Zenon, <1>1, <1>2, <1>3, <1>4, <1>5, <1>6, <1>7 DEF Step

LEMMA CatalogueInductive == Spec => []CatalogueInv
<1>1. Init => CatalogueInv
  <2> SUFFICES ASSUME Init PROVE CatalogueInv
    BY Zenon
  <2>1. OpsTyped
    BY Zenon, IdleTyped DEF Init, OpsTyped, Creating
  <2>2. HeadersMade
    <3>1. Absent \in Files
      BY Zenon DEF Absent, Hdrs, Files
    <3> QED
      BY Zenon, <3>1 DEF Init, HeadersMade
  <2> QED
    BY Zenon, <2>1, <2>2, CatalogueAssumption
    DEF Init, CatalogueInv, MapsTyped, FileMapsInverse
<1>2. CatalogueInv /\ [Next]_vars => CatalogueInv'
  <2> SUFFICES ASSUME CatalogueInv, [Next]_vars PROVE CatalogueInv'
    BY Zenon
  <2>1. CASE Crash \/ FinishCloseDb
    BY Zenon, <2>1, MemoryLostInv DEF Crash, FinishCloseDb
  <2>2. CASE UNCHANGED vars
    BY Zenon, <2>2 DEF vars, diskVars, mapVars, CatalogueInv, OpsTyped,
       HeadersMade,
       MapsTyped, FileMapsInverse
  <2> QED
    BY Zenon, <2>1, <2>2, OpenDbInv, MainInv, CloseHandleInv, CreateTableInv,
       DropTableInv, StepInv DEF Next
<1> QED
  BY <1>1, <1>2, PTL DEF Spec


LEMMA LeastNumber ==
  ASSUME NEW T, T \subseteq Nat, T # {}
  PROVE  \E m \in T : \A k \in T : m <= k
<1> DEFINE R == OpToRel(<, Nat)
<1>1. \A x, y \in Nat : <<x, y>> \in R <=> x < y
  BY Zenon DEF OpToRel
<1>2. IsWellFoundedOn(R, Nat)
  BY Zenon, NatLessThanWellFounded
<1> HIDE DEF R
<1>3. PICK m \in T : \A y \in T : ~ (<<y, m>> \in R)
  BY Zenon, <1>2, WFMin
<1>4. \A y \in T : ~ (y < m)
  BY Zenon, <1>1, <1>3
<1> QED BY <1>4

(* The running sum of create_table exists: otherwise there is a shortest   *)
(* list of columns without one, which is not empty, and the sum over the   *)
(* list without its last column can be extended.                           *)
RunningSum(f, lens, n) ==
    f = [i \in 0..n |-> IF i = 0 THEN 0 ELSE f[i - 1] + lens[i].len]

LEMMA RunningSumExists ==
  ASSUME NEW lens, NEW n \in Nat
  PROVE  \E f : RunningSum(f, lens, n)
<1> DEFINE T == {k \in Nat : ~ \E f : RunningSum(f, lens, k)}
<1> SUFFICES ASSUME T # {} PROVE FALSE
  BY Zenon
<1>1. PICK m \in T : \A k \in T : m <= k
  <2>1. T \subseteq Nat
    BY Zenon
  <2> HIDE DEF T
  <2> QED
    BY Zenon, <2>1, LeastNumber
<1>2. m # 0
  <2>1. RunningSum([i \in 0..0 |-> 0], lens, 0)
    BY DEF RunningSum
  <2> QED
    BY Zenon, <2>1
<1>3. m - 1 \in Nat /\ m - 1 \notin T
  BY <1>1, <1>2
<1>4. PICK f : RunningSum(f, lens, m - 1)
  BY Zenon, <1>3
<1> DEFINE g == [i \in 0..m |-> IF i = m THEN f[m - 1] + lens[m].len ELSE f[i]]
<1>5. ASSUME NEW i \in 0..m
      PROVE  g[i] = IF i = 0 THEN 0 ELSE g[i - 1] + lens[i].len
  <2>1. CASE i = m
    BY <1>2, <2>1
  <2>2. CASE i # m
    <3>0. i \in 0..(m - 1)
      BY <1>3, <2>2
    <3>1. f[i] = IF i = 0 THEN 0 ELSE f[i - 1] + lens[i].len
      <4> HIDE DEF T, g
      <4> QED
        BY Zenon, <1>4, <3>0 DEF RunningSum
    <3>2. g[i] = f[i] /\ (i # 0 => g[i - 1] = f[i - 1])
      BY <2>2
    <3> QED
      BY Zenon, <3>1, <3>2
  <2> QED
    BY Zenon, <2>1, <2>2
<1>6. RunningSum(g, lens, m)
  BY Zenon, <1>5 DEF RunningSum
<1> QED
  BY Zenon, <1>6

LEMMA Offsets ==
  ASSUME NEW defs \in Schemas
  PROVE  /\ Len(defs) \in Nat /\ DOMAIN defs = 1..Len(defs)
         /\ curr_offset(defs)[0] = 0
         /\ \A i \in 1..Len(defs) :
               curr_offset(defs)[i] = curr_offset(defs)[i - 1] + defs[i].len
<1>1. Len(defs) \in Nat /\ DOMAIN defs = 1..Len(defs)
  BY CatalogueAssumption
<1>2. PICK f : RunningSum(f, defs, Len(defs))
  BY Zenon, <1>1, RunningSumExists
<1>3. RunningSum(curr_offset(defs), defs, Len(defs))
  BY Zenon, <1>2 DEF RunningSum, curr_offset
<1> QED
  BY <1>1, <1>3 DEF RunningSum

(* A text begins with the table and the number of its columns.             *)
LEMMA Words ==
  ASSUME NEW a, NEW n \in Nat, NEW F, F = [k \in 1..n |-> F[k]], NEW b
  PROVE  LET s == <<a, b>> \o F \o <<0>>
         IN  /\ s[1] = a /\ s[2] = b
             /\ \A k \in 1..n : s[k + 2] = F[k]
<1> DEFINE S == {F[k] : k \in 1..n} \union {a, b, 0}
<1>1. F \in Seq(S) /\ Len(F) = n
  OBVIOUS
<1>2. <<a, b>> \in Seq(S) /\ <<0>> \in Seq(S)
  OBVIOUS
<1> DEFINE p == <<a, b>> \o F
<1>3. /\ p \in Seq(S) /\ Len(p) = n + 2
      /\ p[1] = a /\ p[2] = b /\ \A k \in 1..n : p[k + 2] = F[k]
  BY <1>1, <1>2
<1> HIDE DEF p, S
<1>4. \A i \in 1..(n + 2) : (p \o <<0>>)[i] = p[i]
  BY <1>2, <1>3
<1>5. (p \o <<0>>)[1] = a /\ (p \o <<0>>)[2] = b
  BY <1>3, <1>4
<1>6. ASSUME NEW k \in 1..n PROVE (p \o <<0>>)[k + 2] = F[k]
  <2>1. k + 2 \in 1..(n + 2)
    OBVIOUS
  <2> QED
    BY Zenon, <1>3, <1>4, <2>1
<1> QED
  BY Zenon, <1>5, <1>6 DEF p

LEMMA SixWords ==
  ASSUME NEW i \in Nat, NEW j \in 1..6
  PROVE  LET k == (6 * i - 6) + j IN (k + 5) \div 6 = i /\ ((k + 5) % 6) + 1 = j
  BY Z3

(* operator>> reads back the columns that operator<< wrote.                *)
Columns(cols) ==
    /\ Len(cols) \in Nat
    /\ cols = [i \in 1..Len(cols) |->
          [tab_name |-> cols[i].tab_name, name |-> cols[i].name, type |-> cols[i].type,
           len |-> cols[i].len, offset |-> cols[i].offset, index |-> cols[i].index]]

LEMMA ColsReadBack ==
  ASSUME NEW t, NEW cols, Columns(cols)
  PROVE  TabText(t, cols)[1] = t /\ ReadCols(TabText(t, cols)) = cols
<1> DEFINE n == Len(cols)
           F == [k \in 1..(6 * n) |-> ColText(cols[(k + 5) \div 6])[((k + 5) % 6) + 1]]
           s == TabText(t, cols)
<1>1. s[1] = t /\ s[2] = n /\ \A k \in 1..(6 * n) : s[k + 2] = F[k]
  <2>1. n \in Nat /\ 6 * n \in Nat /\ F = [k \in 1..(6 * n) |-> F[k]]
    BY DEF Columns
  <2>2. s = <<t, n>> \o F \o <<0>>
    BY Zenon DEF TabText
  <2> HIDE DEF F, n, s
  <2> QED
    BY SMTT(30), <2>1, <2>2, Words
<1>2. ASSUME NEW i \in 1..n, NEW j \in 1..6
      PROVE  s[(6 * i - 4) + j] = ColText(cols[i])[j]
  <2> DEFINE k == (6 * i - 6) + j
  <2>1. k \in 1..(6 * n) /\ k + 2 = (6 * i - 4) + j
    BY SMTT(30) DEF Columns
  <2>2. (k + 5) \div 6 = i /\ ((k + 5) % 6) + 1 = j
    <3>1. i \in Nat
      BY DEF Columns
    <3> HIDE DEF n, F, s
    <3> QED
      BY Zenon, <3>1, SixWords
  <2>3. F[k] = ColText(cols[i])[j]
    BY Zenon, <2>1, <2>2
  <2> HIDE DEF F, s, k
  <2> QED
    BY Zenon, <1>1, <2>1, <2>3
<1> HIDE DEF s, F
<1>3. ASSUME NEW i \in 1..n PROVE ReadCol(s, 6 * i - 4) = cols[i]
  <2>1. \A j \in 1..6 : s[(6 * i - 4) + j] = ColText(cols[i])[j]
    BY Zenon, <1>2
  <2>2. /\ s[(6 * i - 4) + 1] = cols[i].tab_name /\ s[(6 * i - 4) + 2] = cols[i].name
        /\ s[(6 * i - 4) + 3] = cols[i].type /\ s[(6 * i - 4) + 4] = cols[i].len
        /\ s[(6 * i - 4) + 5] = cols[i].offset /\ s[(6 * i - 4) + 6] = cols[i].index
    BY <2>1 DEF ColText
  <2> QED
    BY Zenon, <2>2 DEF ReadCol, Columns
<1>4. ReadCols(s) = [i \in 1..n |-> cols[i]]
  BY Zenon, <1>1, <1>3 DEF ReadCols
<1>5. cols = [i \in 1..n |-> cols[i]]
  BY Zenon DEF Columns
<1> QED
  BY Zenon, <1>1, <1>4, <1>5 DEF s

LEMMA DbReadBack ==
  ASSUME NEW tabs, tabs = [t \in DOMAIN tabs |-> tabs[t]],
         \A t \in DOMAIN tabs : Columns(tabs[t])
  PROVE  /\ ReadDb(DbText(tabs)) = tabs
         /\ \A s \in DbText(tabs) : s[1] \in DOMAIN tabs
<1> DEFINE X == DbText(tabs)
<1>1. \A t \in DOMAIN tabs : TabText(t, tabs[t])[1] = t
                             /\ ReadCols(TabText(t, tabs[t])) = tabs[t]
  BY Zenon, ColsReadBack
<1>2. \A s \in X : s[1] \in DOMAIN tabs /\ s = TabText(s[1], tabs[s[1]])
  BY Zenon, <1>1 DEF DbText
<1>3. \A t \in DOMAIN tabs : TabText(t, tabs[t]) \in X
  BY Zenon DEF DbText
<1>4. {s[1] : s \in X} = DOMAIN tabs
  BY <1>1, <1>2, <1>3
<1>5. ASSUME NEW t \in DOMAIN tabs
      PROVE  (CHOOSE s \in X : s[1] = t) = TabText(t, tabs[t])
  <2> HIDE DEF X
  <2> QED
    BY Zenon, <1>1, <1>2, <1>3
<1>6. \A t \in DOMAIN tabs : ReadCols(CHOOSE s \in X : s[1] = t) = tabs[t]
  BY Zenon, <1>1, <1>5
<1> HIDE DEF X
<1>7. ReadDb(X) = [t \in DOMAIN tabs |-> tabs[t]]
  BY Zenon, <1>4, <1>6 DEF ReadDb
<1> QED
  BY Zenon, <1>2, <1>7 DEF X

LEMMA NothingReadBack == DbText(NoTables) = {} /\ ReadDb({}) = NoTables
<1>1. DbText(NoTables) = {}
  BY Zenon DEF DbText, NoTables
<1>2. {s[1] : s \in {}} = {}
  BY Zenon
<1> QED
  BY Zenon, <1>1, <1>2 DEF ReadDb, NoTables

-----------------------------------------------------------------------------
(* Statements that run one at a time.  As long as no two overlap, at most  *)
(* one thread is at work, and what it has done so far says what the files, *)
(* the handles, the catalogue and db.meta may lack.                        *)

Solo == \A c, d \in Threads : op[c] # Idle /\ op[d] # Idle => c = d

(* The statement in progress.                                              *)
Now == IF \E c \in Threads : op[c] # Idle
       THEN op[CHOOSE c \in Threads : op[c] # Idle]
       ELSE Idle

Flushing == {"truncate", "format", "write"}

(* Which steps a thread can be at while the process is in which state.     *)
Stages ==
    /\ \A c \in Threads : op[c].step = "idle" => op[c] = Idle
    /\ \A c \in Clients : op[c] # Idle =>
          /\ proc = "up" /\ op[c].tab \in Tables
          /\ \/ /\ op[c].kind = "create"
                /\ op[c].step \in Creating \union {"emplace"} \union Flushing
             \/ /\ op[c].kind = "drop"
                /\ op[c].step \in {"close", "forget", "destroy", "erase"}
                                  \union Flushing
    /\ proc \in {"down", "creating", "up", "closing"}
    /\ proc \in {"down", "up"} => op[Main] = Idle
    /\ proc = "creating" => op[Main].kind = "init"
    /\ proc = "closing" => op[Main].kind = "close"
    /\ proc \in {"creating", "closing"} =>
          op[Main].step \in Flushing \union {"finish"}
    /\ proc # "down" => dir

(* A process that is not up has nothing in memory.                         *)
Forgotten ==
    proc \in {"down", "creating"} =>
        /\ tabs_ = NoTables
        /\ fhs_ = [t \in Tables |-> NoHandle]
        /\ path2fd_ = [t \in Tables |-> NoFd]

(* cols are the columns of some CREATE TABLE t, and a header that f has is *)
(* the one that statement made.                                            *)
Fits(t, cols, f) ==
    \E defs \in Schemas :
        /\ record_size(defs) \in RecordSizes
        /\ cols = ColMetas(t, defs)
        /\ f.state = "ready" => f.hdr = FileHdr(record_size(defs))
MadeBy(tabs, f) ==
    /\ DOMAIN tabs \subseteq Tables
    /\ tabs = [t \in DOMAIN tabs |-> tabs[t]]
    /\ \A t \in DOMAIN tabs : Fits(t, tabs[t], f[t])

Catalogued == MadeBy(tabs_, file)

(* db.meta is a catalogue, of tables that are listed until EraseTable.     *)
Stored == ReadDb(meta.text)
Doing(t, kind, step) == Now.kind = kind /\ Now.tab = t /\ Now.step = step
StoredMade ==
    /\ meta = [state |-> meta.state, text |-> meta.text]
    /\ meta.state # "whole" => meta.text = {}
    /\ meta.text = DbText(Stored) /\ MadeBy(Stored, file)
    /\ ~ dir \/ proc = "creating" => meta.text = {}
    /\ proc = "up" =>
          \A t \in DOMAIN Stored : t \in Listed \/ Doing(t, "drop", "truncate")

(* A handle is that of a listed table, whose file has the same header, and *)
(* knows the descriptor of the file.                                       *)
Handles ==
    \A t \in Tables :
        /\ fhs_[t] # NoHandle => t \in Listed /\ file[t] = Ready(fhs_[t].hdr)
        /\ \/ path2fd_[t] = fhs_[t].fd
           \/ Doing(t, "create", "emplace")
           \/ Doing(t, "drop", "forget")

(* What the statement in progress has found or done by its next step.      *)
Progress ==
    LET t == Now.tab IN
    /\ Now.step \in {"create", "header", "insert"} =>
          /\ t \notin Listed /\ t \notin DOMAIN Stored
          /\ Fits(t, Now.cols, Ready(Now.hdr))
    /\ Now.step = "header" => file[t] = Blank
    /\ Now.step = "insert" => file[t] = Ready(Now.hdr)
    /\ Now.step \in {"open", "emplace"} => t \in Listed /\ fhs_[t] = NoHandle
    /\ Now.step = "emplace" => file[t] = Ready(Now.hdr) /\ path2fd_[t] = Now.fd
    /\ Now.step = "close" =>
          t \in Listed /\ fhs_[t] # NoHandle /\ Now.fd = fhs_[t].fd /\ Now.hdr = fhs_[t].hdr
    /\ Now.step = "forget" => t \in Listed /\ path2fd_[t] = NoFd
    /\ Now.step = "destroy" => t \in Listed /\ fhs_[t] = NoHandle
    /\ Now.step = "erase" => file[t] = Absent /\ fhs_[t] = NoHandle
    /\ Now.kind = "drop" /\ Now.step = "truncate" => t \notin Listed
    /\ Now.step \in {"format", "write"} => meta.text = {}
    /\ Now.step = "finish" => meta = [state |-> "whole", text |-> DbText(tabs_)]
Formatted ==
    /\ DOMAIN buffered = Threads
    /\ \A c \in Threads : op[c].step = "write" => buffered[c] = DbText(tabs_)

(* The files of the listed tables, until DestroyFile.                      *)
Complete ==
    \A t \in Listed : file[t].state = "ready" \/ Doing(t, "drop", "erase")

(* How far the history has been free of trouble.                           *)
Unharmed == trouble = {}
FilesOpened == trouble \subseteq {"crash"}
NotFragile == trouble \subseteq {"crash", "open()"}

(* What the disk is like whenever a crash would not be fragile.            *)
Exposed ==
    \/ Now.step \in {"format", "write"}
    \/ Now.kind = "drop" /\ Now.step \in {"erase", "truncate"}
    \/ Now.kind = "init" /\ Now.step = "truncate"
Restartable ==
    (dir /\ NotFragile /\ ~ Exposed) =>
        /\ meta.state = "whole"
        /\ \A t \in DOMAIN Stored : file[t].state = "ready"

(* What a statement that is not interrupted leaves behind.                 *)
HandlesKept ==
    (FilesOpened /\ proc = "up") =>
        \A t \in Listed : \/ fhs_[t] # NoHandle
                          \/ Doing(t, "create", "open") \/ Doing(t, "create", "emplace")
                          \/ Doing(t, "drop", "destroy") \/ Doing(t, "drop", "erase")
MetaCurrent ==
    (FilesOpened /\ proc = "up" /\ Now.step \notin {"open", "emplace"} \union Flushing) =>
        meta = [state |-> "whole", text |-> DbText(tabs_)]
NoOrphans ==
    Unharmed =>
        \A t \in Tables :
            \/ file[t] = Absent
            \/ proc \in {"down", "creating"} /\ t \in DOMAIN Stored
            \/ proc \in {"up", "closing"} /\ t \in Listed
            \/ Doing(t, "create", "header") \/ Doing(t, "create", "insert")

Serial == /\ Solo /\ Stages /\ Forgotten /\ Catalogued /\ StoredMade /\ Handles
          /\ Progress /\ Formatted /\ Complete /\ Restartable /\ HandlesKept /\ MetaCurrent
          /\ NoOrphans
SerialInv == "overlap" \notin trouble => Serial

(* The history only grows worse.                                           *)
Worsens == /\ FilesOpened' => FilesOpened
           /\ NotFragile' => NotFragile
           /\ Unharmed' => Unharmed /\ FilesOpened'

LEMMA IdleIs == Idle.kind = "none" /\ Idle.step = "idle" /\ ~ (Idle.step \in Creating)
  BY Zenon DEF Idle, Creating

LEMMA HandleIs == NoHandle.fd = NoFd
  BY Zenon DEF NoHandle

(* At most one thread is at work before and after a step of thread c.      *)
LEMMA Alone ==
  ASSUME Solo, Solo', NEW c \in Threads, op[c] # Idle \/ op'[c] # Idle,
         \A d \in Threads \ {c} : op'[d] = op[d]
  PROVE  \A d \in Threads \ {c} : op[d] = Idle /\ op'[d] = Idle
  BY Zenon DEF Solo

LEMMA NowIs ==
  ASSUME NEW c \in Threads
  PROVE  /\ Solo /\ op[c] # Idle => Now = op[c]
         /\ Solo' /\ op'[c] # Idle => Now' = op'[c]
  BY Zenon DEF Solo, Now

LEMMA NowIdle == /\ (\A c \in Threads : op[c] = Idle) => Now = Idle
                 /\ (\A c \in Threads : op'[c] = Idle) => Now' = Idle
  BY Zenon DEF Now

LEMMA MovesOn ==
  ASSUME OpsTyped, Solo, Solo', NEW c \in Threads, op[c].step # "idle",
         NEW s, s # "idle", Goto(c, s)
  PROVE  /\ \A e \in Threads \ {c} : op[e] = Idle /\ op'[e] = Idle
         /\ Now = op[c] /\ Now' = op'[c]
         /\ Now'.step = s /\ Now'.kind = Now.kind /\ Now'.tab = Now.tab
         /\ Now'.cols = Now.cols /\ Now'.fd = Now.fd /\ Now'.hdr = Now.hdr
<1>1. \A e \in Threads \ {c} : op'[e] = op[e]
  BY Zenon DEF OpsTyped, Goto
<1>2. op'[c] = [op[c] EXCEPT !.step = s] /\ op[c] \in Ops
  BY Zenon DEF OpsTyped, Goto
<1>3. /\ op'[c].step = s /\ op'[c].kind = op[c].kind /\ op'[c].tab = op[c].tab
      /\ op'[c].cols = op[c].cols /\ op'[c].fd = op[c].fd /\ op'[c].hdr = op[c].hdr
  BY Zenon, <1>2 DEF Ops
<1>4. op[c] # Idle /\ op'[c] # Idle
  BY Zenon, <1>3, IdleIs
<1> QED
  BY Zenon, <1>1, <1>3, <1>4, Alone, NowIs

LEMMA GivesUp ==
  ASSUME OpsTyped, Solo, Solo', NEW c \in Threads, op[c].step # "idle", Done(c)
  PROVE  /\ \A e \in Threads : op'[e] = Idle
         /\ Now = op[c] /\ Now' = Idle
<1>1. \A e \in Threads \ {c} : op'[e] = op[e]
  BY Zenon DEF OpsTyped, Done
<1>2. op[c] # Idle
  BY Zenon, IdleIs
<1>3. op'[c] = Idle
  BY Zenon DEF OpsTyped, Done
<1>4. \A e \in Threads : op'[e] = Idle
  BY Zenon, <1>1, <1>2, <1>3, Alone
<1> QED
  BY Zenon, <1>2, <1>4, NowIs, NowIdle

(* create_table's columns are written and read back.                       *)
LEMMA FitsColumns ==
  ASSUME NEW t, NEW cols, NEW f, Fits(t, cols, f)
  PROVE  Columns(cols)
<1>1. PICK defs \in Schemas : cols = ColMetas(t, defs)
  BY Zenon DEF Fits
<1>2. Len(defs) \in Nat /\ DOMAIN defs = 1..Len(defs)
  BY Zenon, Offsets
<1>3. Len(cols) = Len(defs) /\ \A i \in 1..Len(defs) : cols[i] =
        [tab_name |-> t, name |-> defs[i].name, type |-> defs[i].type,
         len |-> defs[i].len, offset |-> curr_offset(defs)[i - 1], index |-> FALSE]
  BY <1>1, <1>2 DEF ColMetas
<1>4. cols = [i \in 1..Len(cols) |-> cols[i]]
  BY Zenon, <1>1, <1>2, <1>3 DEF ColMetas
<1>5. ASSUME NEW i \in 1..Len(cols)
      PROVE  cols[i] =
          [tab_name |-> cols[i].tab_name, name |-> cols[i].name, type |-> cols[i].type,
           len |-> cols[i].len, offset |-> cols[i].offset, index |-> cols[i].index]
  <2>1. cols[i] =
        [tab_name |-> t, name |-> defs[i].name, type |-> defs[i].type,
         len |-> defs[i].len, offset |-> curr_offset(defs)[i - 1], index |-> FALSE]
    BY Zenon, <1>3
  <2> QED
    BY Zenon, <2>1
<1> QED
  BY Zenon, <1>2, <1>3, <1>4, <1>5 DEF Columns

LEMMA MadeReadBack ==
  ASSUME NEW tabs, NEW f, MadeBy(tabs, f)
  PROVE  ReadDb(DbText(tabs)) = tabs
  BY Zenon, DbReadBack, FitsColumns DEF MadeBy

LEMMA NothingMade ==
  ASSUME NEW f
  PROVE  MadeBy(NoTables, f) /\ DOMAIN NoTables = {}
  BY Zenon DEF MadeBy, NoTables

(* A catalogue outlives a file that loses its header or gets it back.      *)
LEMMA FitsUnready ==
  ASSUME NEW t, NEW cols, NEW f, NEW g, Fits(t, cols, f), g.state # "ready"
  PROVE  Fits(t, cols, g)
  BY Zenon DEF Fits

LEMMA MadeStays ==
  ASSUME NEW tabs, NEW f, NEW g, MadeBy(tabs, f),
         \A t \in DOMAIN tabs : g[t] = f[t] \/ g[t].state # "ready"
  PROVE  MadeBy(tabs, g)
  BY Zenon, FitsUnready DEF MadeBy

LEMMA StatesAre == /\ Absent.state = "absent" /\ Blank.state = "blank"
                   /\ \A h : Ready(h).state = "ready" /\ Ready(h).hdr = h
                   /\ \A h : Absent # Ready(h) /\ Blank # Ready(h)
                   /\ Absent # Blank
  BY Zenon DEF Absent, Blank, Ready

(* The steps of CREATE TABLE and DROP TABLE before they flush db.meta.      *)
LEMMA ClientStep ==
  ASSUME Stages, NEW c \in Threads,
         op[c].step \notin Flushing \union {"idle", "finish"}
  PROVE  /\ c \in Clients /\ c # Main /\ proc = "up" /\ dir /\ op[c].tab \in Tables
         /\ op[c].step \in Creating \union {"emplace"} => op[c].kind = "create"
         /\ op[c].step \in {"close", "forget", "destroy", "erase"} =>
               op[c].kind = "drop"
  BY Zenon, CatalogueAssumption, IdleIs DEF Stages, Threads, Flushing, Creating

LEMMA ClientStages ==
  ASSUME Stages, NEW c \in Threads, c # Main, proc = "up", UNCHANGED <<dir, proc>>,
         \A e \in Threads \ {c} : op'[e] = Idle,
         \/ op'[c] = Idle
         \/ /\ op'[c].tab \in Tables
            /\ \/ /\ op'[c].kind = "create"
                  /\ op'[c].step \in Creating \union {"emplace"} \union Flushing
               \/ /\ op'[c].kind = "drop"
                  /\ op'[c].step \in {"close", "forget", "destroy", "erase"}
                                     \union Flushing
  PROVE  Stages'
<1>1. op'[Main] = Idle
  BY Zenon DEF Threads
<1>2. \A e \in Threads : op'[e].step = "idle" => op'[e] = Idle
  BY Zenon, IdleIs DEF Creating, Flushing
<1>3. proc' = "up" /\ dir'
  BY Zenon DEF Stages
<1> QED
  BY Zenon, <1>1, <1>2, <1>3 DEF Stages, Threads

LEMMA CreateMoves ==
  ASSUME CatalogueInv, Serial, Solo', NEW c \in Threads,
         op[c].step \in Creating \union {"emplace"},
         NEW s \in Creating \union {"emplace", "truncate"}, Goto(c, s)
  PROVE  /\ \A e \in Threads : op'[e].step # "write"
         /\ op[c] = Now /\ proc = "up" /\ dir
         /\ Now.kind = "create" /\ Now.tab \in Tables
         /\ Now'.step = s /\ Now'.kind = "create" /\ Now'.tab = Now.tab
         /\ Now'.cols = Now.cols /\ Now'.fd = Now.fd /\ Now'.hdr = Now.hdr
         /\ UNCHANGED <<dir, proc>> => Stages'
<1>1. op[c].step \notin Flushing \union {"idle", "finish"} /\ s \notin {"idle", "write"}
  BY Zenon DEF Creating, Flushing
<1>2. /\ \A e \in Threads \ {c} : op'[e] = Idle
      /\ op[c] = Now /\ op'[c] = Now'
      /\ Now'.step = s /\ Now'.kind = Now.kind /\ Now'.tab = Now.tab
      /\ Now'.cols = Now.cols /\ Now'.fd = Now.fd /\ Now'.hdr = Now.hdr
  BY Zenon, <1>1, MovesOn DEF CatalogueInv, Serial, Flushing
<1>3. /\ c # Main /\ proc = "up" /\ dir /\ op[c].tab \in Tables
      /\ op[c].kind = "create"
  BY Zenon, <1>1, ClientStep DEF Serial
<1>4. UNCHANGED <<dir, proc>> => Stages'
  BY Zenon, <1>2, <1>3, ClientStages DEF Serial, Flushing
<1> QED
  BY Zenon, <1>1, <1>2, <1>3, <1>4, IdleIs

LEMMA DropMoves ==
  ASSUME CatalogueInv, Serial, Solo', NEW c \in Threads,
         op[c].step \in {"close", "forget", "destroy", "erase"},
         NEW s \in {"forget", "destroy", "erase", "truncate"}, Goto(c, s)
  PROVE  /\ \A e \in Threads : op'[e].step # "write"
         /\ op[c] = Now /\ proc = "up" /\ dir
         /\ Now.kind = "drop" /\ Now.tab \in Tables
         /\ Now'.step = s /\ Now'.kind = "drop" /\ Now'.tab = Now.tab
         /\ UNCHANGED <<dir, proc>> => Stages'
<1>1. op[c].step \notin Flushing \union {"idle", "finish"} /\ s \notin {"idle", "write"}
  BY Zenon DEF Flushing
<1>2. /\ \A e \in Threads \ {c} : op'[e] = Idle
      /\ op[c] = Now /\ op'[c] = Now'
      /\ Now'.step = s /\ Now'.kind = Now.kind /\ Now'.tab = Now.tab
  BY Zenon, <1>1, MovesOn DEF CatalogueInv, Serial, Flushing
<1>3. /\ c # Main /\ proc = "up" /\ dir /\ op[c].tab \in Tables
      /\ op[c].kind = "drop"
  BY Zenon, <1>1, ClientStep DEF Serial
<1>4. UNCHANGED <<dir, proc>> => Stages'
  BY Zenon, <1>2, <1>3, ClientStages DEF Serial, Flushing
<1> QED
  BY Zenon, <1>1, <1>2, <1>3, <1>4, IdleIs

LEMMA TablesOnly ==
  ASSUME Serial
  PROVE  Listed \subseteq Tables /\ DOMAIN Stored \subseteq Tables
  BY Zenon DEF Serial, Catalogued, StoredMade, MadeBy, Listed

LEMMA ReadyIs ==
  ASSUME CatalogueInv, NEW t \in Tables
  PROVE  /\ file[t].state = "ready" => file[t] = Ready(file[t].hdr)
         /\ fhs_[t] # NoHandle => fhs_[t].fd \in Fds /\ fhs_[t].fd # NoFd
  BY CatalogueAssumption DEF CatalogueInv, HeadersMade, Files, Ready

(* flush_meta, in a statement or in create_db and close_db.                *)
LEMMA FlushAt ==
  ASSUME Serial, NEW c \in Threads, op[c].step \in Flushing
  PROVE  /\ proc # "down" /\ dir
         /\ proc = "creating" => /\ Stored = NoTables /\ tabs_ = NoTables
                                 /\ DOMAIN NoTables = {} /\ DbText(tabs_) = {}
<1>1. op[c] # Idle
  BY Zenon, IdleIs DEF Flushing
<1>2. proc # "down" /\ dir
  BY Zenon, <1>1 DEF Serial, Stages, Threads
<1>3. proc = "creating" => meta.text = {} /\ tabs_ = NoTables
  BY Zenon DEF Serial, StoredMade, Forgotten
<1> QED
  BY Zenon, <1>2, <1>3, NothingReadBack, NothingMade DEF Stored

LEMMA FlushMoves ==
  ASSUME CatalogueInv, Serial, Solo', NEW c \in Threads, op[c].step \in Flushing,
         NEW s \in {"format", "write", "finish"}, s = "finish" => c = Main,
         Goto(c, s), UNCHANGED <<dir, proc>>
  PROVE  /\ \A e \in Threads \ {c} : op'[e] = Idle
         /\ op[c] = Now /\ op'[c] = Now' /\ Stages'
         /\ Now'.step = s /\ Now'.kind = Now.kind /\ Now'.tab = Now.tab
<1>1. op[c].step # "idle" /\ s # "idle" /\ op[c] # Idle
  BY Zenon, IdleIs DEF Flushing
<1>2. /\ \A e \in Threads \ {c} : op[e] = Idle /\ op'[e] = Idle
      /\ op[c] = Now /\ op'[c] = Now'
      /\ Now'.step = s /\ Now'.kind = Now.kind /\ Now'.tab = Now.tab
  BY Zenon, <1>1, MovesOn DEF CatalogueInv, Serial
<1>3. CASE c = Main
  <2>1. proc \in {"creating", "closing"}
    BY Zenon, <1>1, <1>3 DEF Serial, Stages
  <2>2. \A e \in Clients : op'[e] = Idle
    BY Zenon, <1>2, <1>3, CatalogueAssumption DEF Threads
  <2>3. op'[Main].kind = op[Main].kind /\ op'[Main].step \in Flushing \union {"finish"}
    BY Zenon, <1>2, <1>3 DEF Flushing
  <2>4. \A e \in Threads : op'[e].step = "idle" => op'[e] = Idle
    BY Zenon, <1>1, <1>2
  <2> QED
    BY Zenon, <1>2, <2>1, <2>2, <2>3, <2>4 DEF Serial, Stages
<1>4. CASE c # Main
  <2>1. /\ op'[c].tab \in Tables
        /\ \/ op'[c].kind = "create" /\ op'[c].step \in Flushing
           \/ op'[c].kind = "drop" /\ op'[c].step \in Flushing
    BY Zenon, <1>1, <1>2, <1>4 DEF Serial, Stages, Threads, Flushing
  <2>2. proc = "up"
    BY Zenon, <1>1, <1>4 DEF Serial, Stages, Threads
  <2> QED
    BY Zenon, <1>2, <1>4, <2>1, <2>2, ClientStages DEF Serial
<1> QED
  BY Zenon, <1>2, <1>3, <1>4

(* A statement begins when all threads are idle.                           *)
LEMMA Begins ==
  ASSUME Solo, Solo', NEW c \in Threads, op[c] = Idle, op'[c] # Idle,
         \A d \in Threads \ {c} : op'[d] = op[d]
  PROVE  /\ \A d \in Threads \ {c} : op'[d] = Idle
         /\ Now = Idle /\ Now' = op'[c]
  BY Zenon, Alone, NowIs, NowIdle

(* What an idle process or one about to finish open_db or close_db is not. *)
LEMMA ExposedFragile ==
  ASSUME Exposed
  PROVE  \E c \in Threads : Fragile(c)
<1>1. Now # Idle
  BY Zenon, IdleIs DEF Exposed, Idle
<1> QED
  BY Zenon, <1>1 DEF Now, Exposed, Fragile

LEMMA CreateFileSerial ==
  ASSUME CatalogueInv, Serial, Solo', Worsens, NEW c \in Threads,
         CreateFile(c), file[op[c].tab] = Absent
  PROVE  Serial'
<1>0. /\ op[c] = Now /\ \A e \in Threads : op'[e].step # "write"
      /\ UNCHANGED <<dir, proc>> => Stages'
  BY Zenon, CreateMoves DEF CreateFile, At, Creating
<1>1. /\ proc = "up" /\ dir /\ Now.tab \in Tables
      /\ Now.kind = "create" /\ Now.step = "create"
      /\ Now'.kind = "create" /\ Now'.step = "header" /\ Now'.tab = Now.tab
      /\ Now'.cols = Now.cols /\ Now'.fd = Now.fd /\ Now'.hdr = Now.hdr
  BY Zenon, <1>0, CreateMoves DEF CreateFile, At, Creating
<1>2. /\ UNCHANGED <<dir, meta, proc, tabs_, fhs_, path2fd_, buffered>>
      /\ Listed' = Listed /\ Stored' = Stored
  BY Zenon DEF CreateFile, diskVars, mapVars, Listed, Stored
<1>3. /\ Now.tab \notin Listed /\ Now.tab \notin DOMAIN Stored
      /\ Fits(Now.tab, Now.cols, Ready(Now.hdr))
  BY Zenon, <1>1 DEF Serial, Progress
<1>4. /\ \A u \in Tables \ {Now.tab} : file'[u] = file[u]
      /\ file'[Now.tab] = Blank
  BY Zenon, <1>0, <1>1 DEF CreateFile, CatalogueInv, HeadersMade
<1>5. MadeBy(tabs_, file') /\ MadeBy(Stored, file')
  <2>1. MadeBy(tabs_, file) /\ MadeBy(Stored, file)
    BY Zenon DEF Serial, Catalogued, StoredMade
  <2>2. /\ \A u \in Listed : file'[u] = file[u] \/ file'[u].state # "ready"
        /\ \A u \in DOMAIN Stored : file'[u] = file[u] \/ file'[u].state # "ready"
    BY Zenon, <1>3, <1>4, TablesOnly, StatesAre
  <2> QED
    BY Zenon, <2>1, <2>2, MadeStays DEF Listed
<1> USE <1>0, <1>1, <1>2, <1>3, <1>4, <1>5
<1>21. Stages' /\ Formatted'
  BY Zenon DEF Serial, Formatted
<1>22. Forgotten' /\ Catalogued' /\ StoredMade'
  BY Zenon DEF Forgotten, Catalogued, Serial, StoredMade, Doing
<1>23. HandlesKept'
  BY Zenon DEF Serial, HandlesKept, Doing, Worsens
<1>24. Handles'
  <2>1. fhs_[Now.tab] = NoHandle
    BY Zenon DEF Serial, Handles
  <2> QED
    BY Zenon, <2>1 DEF Serial, Handles, Doing
<1>25. Progress' /\ MetaCurrent'
  BY Zenon DEF Progress, Serial, MetaCurrent, Flushing, Worsens
<1>26. Complete'
  BY TablesOnly, StatesAre DEF Serial, Complete, Doing
<1>27. Restartable'
  BY Zenon, TablesOnly DEF Serial, Restartable, Exposed, Worsens
<1>28. NoOrphans'
  BY Zenon DEF Serial, NoOrphans, Doing, Worsens
<1> QED
  BY Zenon, <1>21, <1>22, <1>23, <1>24, <1>25, <1>26, <1>27, <1>28 DEF Serial

LEMMA WriteHeaderSerial ==
  ASSUME CatalogueInv, Serial, Solo', Worsens, NEW c \in Threads,
         WriteHeader(c), Goto(c, "insert"),
         file' = [file EXCEPT ![op[c].tab] = Ready(op[c].hdr)]
  PROVE  Serial'
<1>0. /\ op[c] = Now /\ \A e \in Threads : op'[e].step # "write"
      /\ UNCHANGED <<dir, proc>> => Stages'
  BY Zenon, CreateMoves DEF WriteHeader, At, Creating
<1>1. /\ proc = "up" /\ dir /\ Now.tab \in Tables
      /\ Now.kind = "create" /\ Now.step = "header"
      /\ Now'.kind = "create" /\ Now'.step = "insert" /\ Now'.tab = Now.tab
      /\ Now'.cols = Now.cols /\ Now'.fd = Now.fd /\ Now'.hdr = Now.hdr
  BY Zenon, <1>0, CreateMoves DEF WriteHeader, At, Creating
<1>2. /\ UNCHANGED <<dir, meta, proc, tabs_, fhs_, path2fd_, buffered>>
      /\ Listed' = Listed /\ Stored' = Stored
  BY Zenon DEF WriteHeader, diskVars, mapVars, Listed, Stored
<1>3. /\ Now.tab \notin Listed /\ Now.tab \notin DOMAIN Stored
      /\ Fits(Now.tab, Now.cols, Ready(Now.hdr))
  BY Zenon, <1>1 DEF Serial, Progress
<1>4. /\ \A u \in Tables \ {Now.tab} : file'[u] = file[u]
      /\ file'[Now.tab] = Ready(Now.hdr)
  BY Zenon, <1>0, <1>1 DEF CatalogueInv, CatalogueInv, HeadersMade
<1>5. MadeBy(tabs_, file') /\ MadeBy(Stored, file')
  <2>1. MadeBy(tabs_, file) /\ MadeBy(Stored, file)
    BY Zenon DEF Serial, Catalogued, StoredMade
  <2>2. /\ \A u \in Listed : file'[u] = file[u] \/ file'[u].state # "ready"
        /\ \A u \in DOMAIN Stored : file'[u] = file[u] \/ file'[u].state # "ready"
    BY Zenon, <1>3, <1>4, TablesOnly, StatesAre
  <2> QED
    BY Zenon, <2>1, <2>2, MadeStays DEF Listed
<1> USE <1>0, <1>1, <1>2, <1>3, <1>4, <1>5
<1>21. Stages' /\ Formatted'
  BY Zenon DEF Serial, Formatted
<1>22. Forgotten' /\ Catalogued' /\ StoredMade'
  BY Zenon DEF Forgotten, Catalogued, Serial, StoredMade, Doing
<1>23. HandlesKept'
  BY Zenon DEF Serial, HandlesKept, Doing, Worsens
<1>24. Handles'
  <2>1. fhs_[Now.tab] = NoHandle
    BY Zenon DEF Serial, Handles
  <2> QED
    BY Zenon, <2>1 DEF Serial, Handles, Doing
<1>25. Progress' /\ MetaCurrent'
  BY Zenon DEF Progress, Serial, MetaCurrent, Flushing, Worsens
<1>26. Complete'
  BY Zenon, TablesOnly, StatesAre DEF Serial, Complete, Doing
<1>27. Restartable'
  BY Zenon, TablesOnly DEF Serial, Restartable, Exposed, Worsens
<1>28. NoOrphans'
  BY Zenon DEF Serial, NoOrphans, Doing, Worsens
<1> QED
  BY Zenon, <1>21, <1>22, <1>23, <1>24, <1>25, <1>26, <1>27, <1>28 DEF Serial

LEMMA InsertTableSerial ==
  ASSUME CatalogueInv, Serial, Solo', Worsens, NEW c \in Threads,
         InsertTable(c)
  PROVE  Serial'
<1>0. /\ op[c] = Now /\ \A e \in Threads : op'[e].step # "write"
      /\ UNCHANGED <<dir, proc>> => Stages'
  BY Zenon, CreateMoves DEF InsertTable, At, Creating
<1>1. /\ proc = "up" /\ dir /\ Now.tab \in Tables
      /\ Now.kind = "create" /\ Now.step = "insert"
      /\ Now'.kind = "create" /\ Now'.step = "open" /\ Now'.tab = Now.tab
      /\ Now'.cols = Now.cols /\ Now'.fd = Now.fd /\ Now'.hdr = Now.hdr
  BY Zenon, <1>0, CreateMoves DEF InsertTable, At, Creating
<1>2. /\ UNCHANGED <<dir, meta, file, proc, fhs_, path2fd_, buffered>>
      /\ Stored' = Stored
  BY Zenon DEF InsertTable, diskVars, mapVars, Stored
<1>3. /\ Now.tab \notin Listed /\ Now.tab \notin DOMAIN Stored
      /\ Fits(Now.tab, Now.cols, Ready(Now.hdr)) /\ file[Now.tab] = Ready(Now.hdr)
  BY Zenon, <1>1 DEF Serial, Progress
<1>4. /\ Listed' = Listed \union {Now.tab} /\ tabs_' = [u \in Listed' |-> tabs_'[u]]
      /\ tabs_'[Now.tab] = Now.cols /\ \A u \in Listed : u # Now.tab => tabs_'[u] = tabs_[u]
  BY Zenon, <1>0 DEF InsertTable, Listed
<1>5. MadeBy(tabs_', file)
  <2>1. MadeBy(tabs_, file)
    BY Zenon DEF Serial, Catalogued
  <2>2. Listed' \subseteq Tables
    BY Zenon, <1>1, <1>4, TablesOnly
  <2>3. \A u \in Listed' : Fits(u, tabs_'[u], file[u])
    BY Zenon, <1>3, <1>4, <2>1 DEF MadeBy, Listed
  <2> QED
    BY Zenon, <1>4, <2>2, <2>3 DEF MadeBy, Listed
<1>6. fhs_[Now.tab] = NoHandle
  BY Zenon, <1>1, <1>3 DEF Serial, Handles
<1> USE <1>0, <1>1, <1>2, <1>3, <1>4, <1>5, <1>6
<1>21. Stages' /\ Formatted'
  BY Zenon DEF Serial, Formatted
<1>22. Forgotten' /\ Catalogued' /\ StoredMade'
  BY Zenon DEF Forgotten, Catalogued, Serial, StoredMade, Doing
<1>23. Handles' /\ HandlesKept'
  BY Zenon DEF Serial, Handles, Doing, HandlesKept, Worsens
<1>24. Progress' /\ MetaCurrent'
  BY Zenon DEF Progress, Serial, MetaCurrent, Flushing, Worsens
<1>25. Complete'
  BY StatesAre DEF Serial, Complete, Doing
<1>26. Restartable'
  BY Zenon DEF Serial, Restartable, Exposed, Worsens
<1>27. NoOrphans'
  BY Zenon DEF Serial, NoOrphans, Doing, Worsens
<1> QED
  BY Zenon, <1>21, <1>22, <1>23, <1>24, <1>25, <1>26, <1>27 DEF Serial

LEMMA EmplaceHandleSerial ==
  ASSUME CatalogueInv, Serial, Solo', Worsens, NEW c \in Threads,
         EmplaceHandle(c)
  PROVE  Serial'
<1>0. /\ op[c] = Now /\ \A e \in Threads : op'[e].step # "write"
      /\ UNCHANGED <<dir, proc>> => Stages'
  BY Zenon, CreateMoves DEF EmplaceHandle, At, Creating
<1>1. /\ proc = "up" /\ dir /\ Now.tab \in Tables
      /\ Now.kind = "create" /\ Now.step = "emplace"
      /\ Now'.kind = "create" /\ Now'.step = "truncate" /\ Now'.tab = Now.tab
      /\ Now'.cols = Now.cols /\ Now'.fd = Now.fd /\ Now'.hdr = Now.hdr
  BY Zenon, <1>0, CreateMoves DEF EmplaceHandle, At, Creating
<1>2. /\ UNCHANGED <<dir, meta, file, proc, tabs_, path2fd_, buffered>>
      /\ Listed' = Listed /\ Stored' = Stored
  BY Zenon DEF EmplaceHandle, diskVars, mapVars, Listed, Stored
<1>3. /\ Now.tab \in Listed /\ fhs_[Now.tab] = NoHandle
      /\ file[Now.tab] = Ready(Now.hdr) /\ path2fd_[Now.tab] = Now.fd
  BY Zenon, <1>1 DEF Serial, Progress
<1>4. /\ \A u \in Tables \ {Now.tab} : fhs_'[u] = fhs_[u]
      /\ fhs_'[Now.tab] = [fd |-> Now.fd, hdr |-> Now.hdr]
  BY Zenon, <1>0, <1>1, <1>3 DEF EmplaceHandle, CatalogueInv, HeadersMade
<1>5. fhs_'[Now.tab] # NoHandle
  <2>1. Now.fd \in Fds
    BY Zenon, <1>0, <1>1 DEF CatalogueInv, OpsTyped
  <2> QED
    BY <1>4, <2>1, CatalogueAssumption DEF NoHandle
<1> USE <1>0, <1>1, <1>2, <1>3, <1>4, <1>5
<1>21. Stages' /\ Formatted'
  BY Zenon DEF Serial, Formatted
<1>22. Forgotten' /\ Catalogued' /\ StoredMade'
  BY Zenon DEF Forgotten, Serial, Catalogued, StoredMade, Doing
<1>23. Handles'
  BY DEF Serial, Handles, Doing
<1>24. HandlesKept'
  BY Zenon, TablesOnly DEF Serial, HandlesKept, Doing, Worsens
<1>25. Progress' /\ MetaCurrent'
  BY Zenon DEF Serial, Progress, MetaCurrent, Flushing, Worsens
<1>26. Complete' /\ Restartable' /\ NoOrphans'
  BY Zenon DEF Serial, Complete, Doing, Restartable, Exposed, Worsens, NoOrphans
<1> QED
  BY Zenon, <1>21, <1>22, <1>23, <1>24, <1>25, <1>26 DEF Serial

LEMMA ForgetHandleSerial ==
  ASSUME CatalogueInv, Serial, Solo', Worsens, NEW c \in Threads,
         ForgetHandle(c)
  PROVE  Serial'
<1>0. /\ op[c] = Now /\ \A e \in Threads : op'[e].step # "write"
      /\ UNCHANGED <<dir, proc>> => Stages'
  BY Zenon, DropMoves DEF ForgetHandle, At, Creating
<1>1. /\ proc = "up" /\ dir /\ Now.tab \in Tables
      /\ Now.kind = "drop" /\ Now.step = "forget"
      /\ Now'.kind = "drop" /\ Now'.step = "destroy" /\ Now'.tab = Now.tab
  BY Zenon, <1>0, DropMoves DEF ForgetHandle, At, Creating
<1>2. /\ UNCHANGED <<dir, meta, file, proc, tabs_, path2fd_, buffered>>
      /\ Listed' = Listed /\ Stored' = Stored
  BY Zenon DEF ForgetHandle, diskVars, mapVars, Listed, Stored
<1>3. Now.tab \in Listed /\ path2fd_[Now.tab] = NoFd
  BY Zenon, <1>1 DEF Serial, Progress
<1>4. /\ \A u \in Tables \ {Now.tab} : fhs_'[u] = fhs_[u]
      /\ fhs_'[Now.tab] = NoHandle
  BY Zenon, <1>0, <1>1 DEF ForgetHandle, CatalogueInv, HeadersMade
<1> USE <1>0, <1>1, <1>2, <1>3, <1>4
<1>21. Stages' /\ Formatted'
  BY Zenon DEF Serial, Formatted
<1>22. Forgotten' /\ Catalogued' /\ StoredMade'
  BY Zenon DEF Forgotten, Serial, Catalogued, StoredMade, Doing
<1>23. Handles' /\ HandlesKept'
  BY HandleIs, TablesOnly DEF Serial, Handles, Doing, HandlesKept, Worsens
<1>24. Progress' /\ MetaCurrent'
  BY Zenon DEF Progress, Serial, MetaCurrent, Flushing, Worsens
<1>25. Complete' /\ Restartable' /\ NoOrphans'
  BY Zenon DEF Serial, Complete, Doing, Restartable, Exposed, Worsens, NoOrphans
<1> QED
  BY Zenon, <1>21, <1>22, <1>23, <1>24, <1>25 DEF Serial

LEMMA DestroyFileSerial ==
  ASSUME CatalogueInv, Serial, Solo', Worsens, NEW c \in Threads,
         DestroyFile(c), Closed(op[c].tab)
  PROVE  Serial'
<1>0. /\ op[c] = Now /\ \A e \in Threads : op'[e].step # "write"
      /\ UNCHANGED <<dir, proc>> => Stages'
  BY Zenon, DropMoves DEF DestroyFile, At, Creating
<1>1. /\ proc = "up" /\ dir /\ Now.tab \in Tables
      /\ Now.kind = "drop" /\ Now.step = "destroy"
      /\ Now'.kind = "drop" /\ Now'.step = "erase" /\ Now'.tab = Now.tab
  BY Zenon, <1>0, DropMoves DEF DestroyFile, At, Creating
<1>2. /\ UNCHANGED <<dir, meta, proc, tabs_, fhs_, path2fd_, buffered>>
      /\ Listed' = Listed /\ Stored' = Stored
  BY Zenon DEF DestroyFile, diskVars, mapVars, Listed, Stored
<1>3. Now.tab \in Listed /\ fhs_[Now.tab] = NoHandle
  BY Zenon, <1>1 DEF Serial, Progress
<1>4. /\ \A u \in Tables \ {Now.tab} : file'[u] = file[u]
      /\ file'[Now.tab] = Absent
  BY Zenon, <1>0, <1>1 DEF DestroyFile, CatalogueInv, HeadersMade
<1>5. MadeBy(tabs_, file') /\ MadeBy(Stored, file')
  <2>1. MadeBy(tabs_, file) /\ MadeBy(Stored, file)
    BY Zenon DEF Serial, Catalogued, StoredMade
  <2>2. /\ \A u \in Listed : file'[u] = file[u] \/ file'[u].state # "ready"
        /\ \A u \in DOMAIN Stored : file'[u] = file[u] \/ file'[u].state # "ready"
    BY Zenon, <1>3, <1>4, TablesOnly, StatesAre
  <2> QED
    BY Zenon, <2>1, <2>2, MadeStays DEF Listed
<1> USE <1>0, <1>1, <1>2, <1>3, <1>4, <1>5
<1>21. Stages' /\ Formatted'
  BY Zenon DEF Serial, Formatted
<1>22. Forgotten' /\ Catalogued' /\ StoredMade'
  BY Zenon DEF Forgotten, Catalogued, Serial, StoredMade, Doing
<1>23. Handles' /\ HandlesKept'
  BY Zenon DEF Serial, Handles, Doing, HandlesKept, Worsens
<1>24. Progress' /\ MetaCurrent'
  BY Zenon DEF Progress, Serial, MetaCurrent, Flushing, Worsens
<1>25. Complete'
  BY Zenon, TablesOnly, StatesAre DEF Serial, Complete, Doing
<1>26. Restartable'
  BY Zenon DEF Restartable, Exposed
<1>27. NoOrphans'
  BY Zenon DEF Serial, NoOrphans, Doing, Worsens
<1> QED
  BY Zenon, <1>21, <1>22, <1>23, <1>24, <1>25, <1>26, <1>27 DEF Serial

LEMMA EraseTableSerial ==
  ASSUME CatalogueInv, Serial, Solo', Worsens, NEW c \in Threads,
         EraseTable(c)
  PROVE  Serial'
<1>0. /\ op[c] = Now /\ \A e \in Threads : op'[e].step # "write"
      /\ UNCHANGED <<dir, proc>> => Stages'
  BY Zenon, DropMoves DEF EraseTable, At, Creating
<1>1. /\ proc = "up" /\ dir /\ Now.tab \in Tables
      /\ Now.kind = "drop" /\ Now.step = "erase"
      /\ Now'.kind = "drop" /\ Now'.step = "truncate" /\ Now'.tab = Now.tab
  BY Zenon, <1>0, DropMoves DEF EraseTable, At, Creating
<1>2. /\ UNCHANGED <<dir, meta, file, proc, fhs_, path2fd_, buffered>>
      /\ Stored' = Stored
  BY Zenon DEF EraseTable, diskVars, mapVars, Stored
<1>3. file[Now.tab] = Absent /\ fhs_[Now.tab] = NoHandle
  BY Zenon, <1>1 DEF Serial, Progress
<1>4. /\ Listed' = Listed \ {Now.tab} /\ tabs_' = [u \in Listed' |-> tabs_'[u]]
      /\ \A u \in Listed' : tabs_'[u] = tabs_[u]
  BY Zenon, <1>0 DEF EraseTable, Restrict, Listed
<1>5. MadeBy(tabs_', file)
  <2>1. MadeBy(tabs_, file)
    BY Zenon DEF Serial, Catalogued
  <2>2. Listed' \subseteq Tables
    BY Zenon, <1>4, TablesOnly
  <2>3. \A u \in Listed' : Fits(u, tabs_'[u], file[u])
    BY Zenon, <1>4, <2>1 DEF MadeBy, Listed
  <2> QED
    BY Zenon, <1>4, <2>2, <2>3 DEF MadeBy, Listed
<1> USE <1>0, <1>1, <1>2, <1>3, <1>4, <1>5
<1>21. Stages' /\ Formatted'
  BY Zenon DEF Serial, Formatted
<1>22. Forgotten' /\ Catalogued' /\ StoredMade'
  BY Zenon DEF Forgotten, Catalogued, Serial, StoredMade, Doing
<1>23. Handles' /\ HandlesKept'
  BY Zenon DEF Serial, Handles, Doing, HandlesKept, Worsens
<1>24. Progress' /\ MetaCurrent'
  BY Zenon DEF Progress, Serial, MetaCurrent, Flushing, Worsens
<1>25. Complete' /\ Restartable' /\ NoOrphans'
  BY Zenon DEF Serial, Complete, Doing, Restartable, Exposed, NoOrphans, Worsens
<1> QED
  BY Zenon, <1>21, <1>22, <1>23, <1>24, <1>25 DEF Serial

(* flush_meta.                                                             *)
LEMMA TruncateMetaSerial ==
  ASSUME CatalogueInv, Serial, Solo', Worsens, NEW c \in Threads,
         TruncateMeta(c)
  PROVE  Serial'
<1>0. c \in Threads /\ op[c].step = "truncate"
  BY Zenon DEF TruncateMeta, At, Threads
<1>1. /\ \A e \in Threads \ {c} : op'[e] = Idle
      /\ op[c] = Now /\ op'[c] = Now' /\ Stages'
      /\ Now.step = "truncate" /\ Now'.step = "format"
      /\ Now'.kind = Now.kind /\ Now'.tab = Now.tab
  BY <1>0, FlushMoves DEF TruncateMeta, Flushing
<1>2. /\ UNCHANGED <<dir, file, proc, tabs_, fhs_, path2fd_, buffered>>
      /\ Listed' = Listed
  BY Zenon DEF TruncateMeta, diskVars, mapVars, Listed
<1>3. /\ proc # "down" /\ dir
      /\ proc = "creating" => /\ Stored = NoTables /\ tabs_ = NoTables
                              /\ DOMAIN NoTables = {} /\ DbText(tabs_) = {}
  BY Zenon, <1>0, FlushAt DEF Flushing
<1>4. /\ meta' = [state |-> "empty", text |-> {}] /\ Stored' = NoTables
      /\ DbText(NoTables) = {} /\ MadeBy(NoTables, file) /\ DOMAIN NoTables = {}
  <2>1. meta' = [state |-> "empty", text |-> {}]
    BY Zenon DEF TruncateMeta
  <2> QED
    BY Zenon, <2>1, NothingReadBack, NothingMade DEF Stored
<1> USE <1>0, <1>1, <1>2, <1>3, <1>4
<1>21. Stages' /\ Formatted'
  BY Zenon, IdleIs DEF Serial, Formatted
<1>22. Forgotten' /\ Catalogued' /\ StoredMade'
  BY Zenon DEF Serial, Forgotten, Catalogued, StoredMade
<1>23. Handles' /\ HandlesKept'
  BY Zenon DEF Serial, Handles, Doing, HandlesKept, Worsens
<1>24. Progress' /\ MetaCurrent'
  BY Zenon DEF Progress, MetaCurrent, Flushing
<1>25. Complete' /\ Restartable' /\ NoOrphans'
  BY Zenon DEF Serial, Complete, Doing, Restartable, Exposed, NoOrphans, Worsens
<1> QED
  BY Zenon, <1>21, <1>22, <1>23, <1>24, <1>25 DEF Serial

LEMMA FormatMetaSerial ==
  ASSUME CatalogueInv, Serial, Solo', Worsens, NEW c \in Threads,
         FormatMeta(c)
  PROVE  Serial'
<1>0. c \in Threads /\ op[c].step = "format"
  BY Zenon DEF FormatMeta, At, Threads
<1>1. /\ \A e \in Threads \ {c} : op'[e] = Idle
      /\ op[c] = Now /\ op'[c] = Now' /\ Stages'
      /\ Now.step = "format" /\ Now'.step = "write"
      /\ Now'.kind = Now.kind /\ Now'.tab = Now.tab
  BY <1>0, FlushMoves DEF FormatMeta, Flushing, diskVars
<1>2. /\ UNCHANGED <<dir, meta, file, proc, tabs_, fhs_, path2fd_>>
      /\ Listed' = Listed /\ Stored' = Stored
  BY Zenon DEF FormatMeta, diskVars, mapVars, Listed, Stored
<1>3. DOMAIN buffered' = Threads /\ buffered'[c] = DbText(tabs_)
  BY Zenon DEF FormatMeta, Serial, Formatted
<1> USE <1>0, <1>1, <1>2, <1>3
<1>21. Stages' /\ Formatted'
  BY Zenon, IdleIs DEF Formatted
<1>22. Forgotten' /\ Catalogued' /\ StoredMade'
  BY Zenon DEF Serial, Forgotten, Catalogued, StoredMade, Doing
<1>23. Handles' /\ HandlesKept'
  BY Zenon DEF Serial, Handles, Doing, HandlesKept, Worsens
<1>24. Progress' /\ MetaCurrent'
  BY Zenon DEF Serial, Progress, MetaCurrent, Flushing
<1>25. Complete' /\ Restartable' /\ NoOrphans'
  BY Zenon DEF Serial, Complete, Doing, Restartable, Exposed, NoOrphans, Worsens
<1> QED
  BY Zenon, <1>21, <1>22, <1>23, <1>24, <1>25 DEF Serial

LEMMA WriteMetaMainSerial ==
  ASSUME CatalogueInv, Serial, Solo', Worsens, WriteMeta(Main)
  PROVE  Serial'
<1>0. Main \in Threads /\ op[Main].step = "write"
  BY Zenon DEF WriteMeta, At, Threads
<1>1. /\ \A e \in Threads \ {Main} : op'[e] = Idle
      /\ op[Main] = Now /\ op'[Main] = Now' /\ Stages'
      /\ Now.step = "write" /\ Now'.step = "finish"
      /\ Now'.kind = Now.kind /\ Now'.tab = Now.tab
  BY <1>0, FlushMoves DEF WriteMeta, Flushing
<1>2. /\ UNCHANGED <<dir, file, proc, tabs_, fhs_, path2fd_>>
      /\ Listed' = Listed
  BY Zenon DEF WriteMeta, diskVars, mapVars, Listed
<1>3. /\ proc # "down" /\ dir
      /\ proc = "creating" => /\ Stored = NoTables /\ tabs_ = NoTables
                              /\ DOMAIN NoTables = {} /\ DbText(tabs_) = {}
  BY Zenon, <1>0, FlushAt DEF Flushing
<1>4. /\ meta' = [state |-> "whole", text |-> DbText(tabs_)]
      /\ DOMAIN buffered' = Threads
  BY Zenon, <1>0 DEF WriteMeta, Serial, Formatted
<1>5. Stored' = tabs_
  <2>1. meta'.text = DbText(tabs_)
    BY Zenon, <1>4
  <2> QED
    BY Zenon, <2>1, MadeReadBack DEF Stored, Serial, Catalogued
<1>6. \A t \in Listed : file[t].state = "ready"
  BY Zenon, <1>1 DEF Serial, Complete, Doing
<1>7. proc # "up"
  BY Zenon, <1>0, IdleIs DEF Serial, Stages
<1> USE <1>0, <1>1, <1>2, <1>3, <1>4, <1>5, <1>6, <1>7
<1>21. Stages' /\ Formatted'
  BY Zenon, IdleIs DEF Formatted
<1>22. Forgotten' /\ Catalogued' /\ StoredMade'
  BY Zenon DEF Serial, Forgotten, Catalogued, StoredMade
<1>23. Handles' /\ HandlesKept'
  BY Zenon DEF Serial, Handles, Doing, HandlesKept
<1>24. Progress' /\ MetaCurrent'
  BY Zenon DEF Progress, MetaCurrent
<1>25. Complete' /\ Restartable' /\ NoOrphans'
  BY Zenon DEF Complete, Restartable, Listed, Serial, NoOrphans, Doing, Worsens
<1> QED
  BY Zenon, <1>21, <1>22, <1>23, <1>24, <1>25 DEF Serial

LEMMA WriteMetaClientSerial ==
  ASSUME CatalogueInv, Serial, Solo', Worsens, NEW c \in Clients,
         WriteMeta(c)
  PROVE  Serial'
<1>0. /\ c \in Threads /\ c # Main /\ op[c].step = "write" /\ proc = "up"
  BY Zenon, CatalogueAssumption, IdleIs DEF WriteMeta, At, Threads, Serial,
     Stages
<1>1. /\ \A e \in Threads : op'[e] = Idle
      /\ op[c] = Now /\ Now' = Idle /\ Now.step = "write"
  BY Zenon, <1>0, GivesUp DEF WriteMeta, CatalogueInv, Serial
<1>2. /\ UNCHANGED <<dir, file, proc, tabs_, fhs_, path2fd_>>
      /\ Listed' = Listed
  BY Zenon DEF WriteMeta, diskVars, mapVars, Listed
<1>4. /\ meta' = [state |-> "whole", text |-> DbText(tabs_)]
      /\ DOMAIN buffered' = Threads
  BY Zenon, <1>0 DEF WriteMeta, Serial, Formatted
<1>5. Stored' = tabs_
  <2>1. meta'.text = DbText(tabs_)
    BY Zenon, <1>4
  <2> QED
    BY Zenon, <2>1, MadeReadBack DEF Stored, Serial, Catalogued
<1>6. \A t \in Listed : file[t].state = "ready"
  BY Zenon, <1>1 DEF Serial, Complete, Doing
<1> USE <1>0, <1>1, <1>2, <1>4, <1>5, <1>6
<1>21. Formatted'
  BY Zenon, IdleIs DEF Formatted
<1>22. Stages'
  <2>1. c # Main /\ proc = "up"
    BY Zenon
  <2> QED
    BY Zenon, <2>1, ClientStages DEF Serial
<1>23. Forgotten' /\ Catalogued' /\ StoredMade'
  BY Zenon, FlushAt DEF Forgotten, Serial, Catalogued, StoredMade, Listed,
     Flushing
<1>24. Handles' /\ HandlesKept'
  BY Zenon DEF Serial, Handles, Doing, HandlesKept, Worsens
<1>25. Progress' /\ MetaCurrent'
  BY Zenon, IdleIs DEF Progress, MetaCurrent
<1>26. Complete' /\ Restartable' /\ NoOrphans'
  BY Zenon DEF Complete, Restartable, Listed, Serial, NoOrphans, Doing, Worsens
<1> QED
  BY Zenon, <1>21, <1>22, <1>23, <1>24, <1>25, <1>26 DEF Serial

(* A statement that throws before it has changed anything, or because      *)
(* open() failed.                                                          *)
LEMMA QuitSerial ==
  ASSUME CatalogueInv, Serial, Solo', Worsens, NEW c \in Threads,
         op[c].step \in {"create", "header", "open"},
         op[c].step # "create" => ~ FilesOpened', Done(c),
         UNCHANGED <<diskVars, proc, tabs_, fhs_, mapVars, buffered>>
  PROVE  Serial'
<1>0. /\ c # Main /\ proc = "up" /\ op[c].kind = "create" /\ op[c].step # "idle"
  BY Zenon, ClientStep DEF Serial, Creating, Flushing
<1>1. /\ \A e \in Threads : op'[e] = Idle
      /\ op[c] = Now /\ Now' = Idle /\ Now.kind = "create"
      /\ Now.step \in {"create", "header", "open"}
      /\ FilesOpened' => Now.step = "create"
  BY Zenon, <1>0, GivesUp DEF CatalogueInv, Serial
<1>2. /\ UNCHANGED <<dir, meta, file, proc, tabs_, fhs_, path2fd_, buffered>>
      /\ Listed' = Listed /\ Stored' = Stored
  BY Zenon DEF diskVars, mapVars, Listed, Stored
<1> USE <1>0, <1>1, <1>2
<1>21. Formatted'
  BY Zenon, IdleIs DEF Serial, Formatted
<1>22. Stages'
  <2>1. c # Main /\ proc = "up"
    BY Zenon
  <2> QED
    BY Zenon, <2>1, ClientStages DEF Serial
<1>23. Forgotten' /\ Catalogued' /\ StoredMade'
  BY Zenon DEF Forgotten, Serial, Catalogued, StoredMade, Doing
<1>24. Handles' /\ HandlesKept'
  BY Zenon DEF Serial, Handles, Doing, HandlesKept, Worsens
<1>25. Progress' /\ MetaCurrent'
  BY Zenon, IdleIs DEF Progress, Serial, MetaCurrent, Flushing, Worsens
<1>26. Complete' /\ Restartable' /\ NoOrphans'
  BY Zenon DEF Serial, Complete, Doing, Restartable, Exposed, Worsens, NoOrphans
<1> QED
  BY Zenon, <1>21, <1>22, <1>23, <1>24, <1>25, <1>26 DEF Serial

LEMMA OpenFileSerial ==
  ASSUME CatalogueInv, Serial, Solo', Worsens, NEW c \in Threads,
         NEW d \in Fds, At(c, "open"),
         path2fd_' = [path2fd_ EXCEPT ![op[c].tab] = d],
         op' = [op EXCEPT ![c].fd = d, ![c].hdr = file[op[c].tab].hdr,
                           ![c].step = "emplace"],
         UNCHANGED <<diskVars, proc, tabs_, fhs_, buffered>>
  PROVE  Serial'
<1>0. /\ c # Main /\ proc = "up" /\ dir /\ op[c].kind = "create"
      /\ op[c].step = "open" /\ op[c].tab \in Tables
  BY Zenon, ClientStep DEF Serial, Creating, Flushing, At
<1>1. /\ \A e \in Threads \ {c} : op'[e] = Idle
      /\ op[c] = Now /\ op'[c] = Now'
      /\ Now.step = "open" /\ Now.kind = "create" /\ Now.tab \in Tables
      /\ Now'.step = "emplace" /\ Now'.kind = "create" /\ Now'.tab = Now.tab
      /\ Now'.fd = d /\ Now'.hdr = file[Now.tab].hdr
  <2>1. /\ op'[c].step = "emplace" /\ op'[c].kind = "create" /\ op'[c].tab = op[c].tab
        /\ op'[c].fd = d /\ op'[c].hdr = file[op[c].tab].hdr
    BY Zenon, <1>0 DEF CatalogueInv, OpsTyped, Ops
  <2>2. \A e \in Threads \ {c} : op'[e] = op[e]
    BY Zenon DEF CatalogueInv, OpsTyped
  <2>3. op[c] # Idle /\ op'[c] # Idle
    BY Zenon, <1>0, <2>1, IdleIs
  <2>4. \A e \in Threads \ {c} : op'[e] = Idle
    BY Zenon, <2>2, <2>3, Alone DEF Serial
  <2>5. op[c] = Now /\ op'[c] = Now'
    BY Zenon, <2>3, NowIs DEF Serial
  <2> QED
    BY Zenon, <1>0, <2>1, <2>4, <2>5
<1>2. /\ UNCHANGED <<dir, meta, file, proc, tabs_, fhs_, buffered>>
      /\ Listed' = Listed /\ Stored' = Stored
  BY Zenon DEF diskVars, Listed, Stored
<1>3. Now.tab \in Listed /\ fhs_[Now.tab] = NoHandle
  BY Zenon, <1>1 DEF Serial, Progress
<1>4. /\ \A u \in Tables \ {Now.tab} : path2fd_'[u] = path2fd_[u]
      /\ path2fd_'[Now.tab] = d
  BY Zenon, <1>1 DEF CatalogueInv, MapsTyped
<1>5. file[Now.tab] = Ready(file[Now.tab].hdr)
  BY Zenon, <1>1, <1>3, ReadyIs DEF Serial, Complete, Doing
<1> USE <1>0, <1>1, <1>2, <1>3, <1>4, <1>5
<1>21. Formatted'
  BY Zenon, IdleIs DEF Serial, Formatted
<1>22. Stages'
  BY Zenon, ClientStages DEF Serial
<1>23. Forgotten' /\ Catalogued' /\ StoredMade'
  BY Zenon DEF Forgotten, Serial, Catalogued, StoredMade, Doing
<1>24. Handles'
  BY DEF Serial, Handles, Doing
<1>25. HandlesKept'
  BY Zenon DEF Serial, HandlesKept, Doing, Worsens
<1>26. Progress'
  BY DEF Progress
<1>27. MetaCurrent'
  BY Zenon DEF Serial, MetaCurrent, Flushing, Worsens
<1>28. Complete' /\ Restartable' /\ NoOrphans'
  BY Zenon DEF Serial, Complete, Doing, Restartable, Exposed, Worsens, NoOrphans
<1> QED
  BY Zenon, <1>21, <1>22, <1>23, <1>24, <1>25, <1>26, <1>27, <1>28 DEF Serial

(* close_file writes the header that the file has already.                 *)
LEMMA CloseFileSerial ==
  ASSUME CatalogueInv, Serial, Solo', Worsens, NEW c \in Threads,
         CloseFile(c)
  PROVE  Serial'
<1>3. /\ op[c] = Now /\ Now.step = "close" /\ Now.kind = "drop" /\ Now.tab \in Tables
      /\ op[c].step = "close"
  <2>1. op[c].step = "close" /\ op[c] # Idle
    BY Zenon, IdleIs DEF CloseFile, At
  <2>2. op[c].kind = "drop" /\ op[c].tab \in Tables
    BY Zenon, <2>1, ClientStep DEF Serial, Flushing
  <2> QED
    BY Zenon, <2>1, <2>2, NowIs DEF Serial
<1>4. /\ Now.tab \in Listed /\ fhs_[Now.tab] # NoHandle
      /\ Now.fd = fhs_[Now.tab].fd /\ Now.hdr = fhs_[Now.tab].hdr
  BY Zenon, <1>3 DEF Serial, Progress
<1>5. /\ fd2path_[Now.fd] = Now.tab /\ file[Now.tab] = Ready(Now.hdr) /\ Now.fd \in Fds
  <2>1. path2fd_[Now.tab] = Now.fd /\ file[Now.tab] = Ready(Now.hdr)
    BY Zenon, <1>3, <1>4 DEF Serial, Handles, Doing
  <2>2. Now.fd \in Fds
    BY Zenon, <1>3, <1>4, ReadyIs
  <2> QED
    BY Zenon, <1>3, <2>1, <2>2 DEF CatalogueInv, FileMapsInverse
<1>6. /\ Goto(c, "forget") /\ file' = HeaderSaved(Now.fd, Now.hdr)
      /\ path2fd_' = [path2fd_ EXCEPT ![Now.tab] = NoFd]
  BY Zenon, <1>3, <1>5, CatalogueAssumption DEF CloseFile
<1>7. /\ file' = file
      /\ \A u \in Tables \ {Now.tab} : path2fd_'[u] = path2fd_[u]
      /\ path2fd_'[Now.tab] = NoFd
  BY Zenon, <1>3, <1>5, <1>6 DEF HeaderSaved, CatalogueInv, HeadersMade,
     MapsTyped
<1>0. /\ op[c] = Now /\ \A e \in Threads : op'[e].step # "write"
      /\ UNCHANGED <<dir, proc>> => Stages'
  BY Zenon, <1>3, <1>6, DropMoves
<1>1. /\ proc = "up" /\ dir /\ Now.kind = "drop" /\ Now.step = "close"
      /\ Now'.kind = "drop" /\ Now'.step = "forget" /\ Now'.tab = Now.tab
  BY Zenon, <1>3, <1>6, DropMoves
<1>2. /\ UNCHANGED <<dir, meta, proc, tabs_, fhs_, buffered, file>>
      /\ Listed' = Listed /\ Stored' = Stored
  BY Zenon, <1>7 DEF CloseFile, Listed, Stored
<1> USE <1>0, <1>1, <1>2, <1>3, <1>4, <1>5, <1>6, <1>7
<1>21. Stages' /\ Formatted'
  BY Zenon DEF Serial, Formatted
<1>22. Forgotten' /\ Catalogued' /\ StoredMade'
  BY Zenon DEF Forgotten, Serial, Catalogued, StoredMade, Doing
<1>23. Handles' /\ HandlesKept'
  BY Zenon DEF Serial, Handles, Doing, HandlesKept, Worsens
<1>24. Progress' /\ MetaCurrent'
  BY Zenon DEF Progress, Serial, MetaCurrent, Flushing, Worsens
<1>25. Complete' /\ Restartable' /\ NoOrphans'
  BY Zenon DEF Serial, Complete, Doing, Restartable, Exposed, Worsens, NoOrphans
<1> QED
  BY Zenon, <1>21, <1>22, <1>23, <1>24, <1>25 DEF Serial

LEMMA CloseHandleSerial ==
  ASSUME CatalogueInv, Serial, Solo', Worsens, NEW t \in Tables,
         CloseHandle(t)
  PROVE  Serial'
<1>0. /\ proc = "closing" /\ op[Main].step = "finish" /\ op[Main].kind = "close"
      /\ Main \in Threads
  BY Zenon DEF CloseHandle, At, Threads, Serial, Stages
<1>1. Now' = Now /\ Now.step = "finish" /\ Now.kind = "close"
  <2>1. Now = op[Main]
    BY Zenon, <1>0, IdleIs, NowIs DEF Serial
  <2>2. Now' = Now
    BY Zenon DEF CloseHandle, Now
  <2> QED
    BY Zenon, <1>0, <2>1, <2>2
<1>3. fhs_[t] # NoHandle
  BY Zenon, HandleIs DEF CloseHandle
<1>4. /\ fd2path_[fhs_[t].fd] = t /\ file[t] = Ready(fhs_[t].hdr) /\ fhs_[t].fd \in Fds
  <2>1. path2fd_[t] = fhs_[t].fd /\ file[t] = Ready(fhs_[t].hdr)
    BY Zenon, <1>1, <1>3 DEF Serial, Handles, Doing
  <2> QED
    BY Zenon, <1>3, <2>1, ReadyIs DEF CatalogueInv, FileMapsInverse
<1>5. /\ file' = file
      /\ \A u \in Tables \ {t} : path2fd_'[u] = path2fd_[u]
      /\ path2fd_'[t] = NoFd
  BY Zenon, <1>4 DEF CloseHandle, HeaderSaved, CatalogueInv, HeadersMade,
     MapsTyped
<1>6. /\ \A u \in Tables \ {t} : fhs_'[u] = fhs_[u]
      /\ fhs_'[t] = NoHandle
  BY Zenon DEF CloseHandle, CatalogueInv, HeadersMade
<1>2. /\ UNCHANGED <<dir, meta, proc, tabs_, buffered, file, op>>
      /\ Listed' = Listed /\ Stored' = Stored
  BY Zenon, <1>5 DEF CloseHandle, Listed, Stored
<1> USE <1>0, <1>1, <1>2, <1>3, <1>4, <1>5, <1>6
<1>21. Stages' /\ Formatted'
  BY Zenon DEF Serial, Stages, Formatted
<1>22. Forgotten' /\ Catalogued' /\ StoredMade'
  BY Zenon DEF Forgotten, Serial, Catalogued, StoredMade, Doing
<1>23. Handles' /\ HandlesKept'
  BY Zenon, HandleIs DEF Serial, Handles, Doing, HandlesKept
<1>24. Progress' /\ MetaCurrent'
  BY Zenon DEF Serial, Progress, MetaCurrent
<1>25. Complete' /\ Restartable' /\ NoOrphans'
  BY Zenon DEF Serial, Complete, Doing, Restartable, Exposed, Worsens, NoOrphans
<1> QED
  BY Zenon, <1>21, <1>22, <1>23, <1>24, <1>25 DEF Serial

(* A statement begins.                                                     *)
LEMMA CreateTableSerial ==
  ASSUME CatalogueInv, Serial, Solo', Worsens, NEW c \in Clients,
         NEW t \in Tables, NEW defs \in Schemas, CreateTable(c, t, defs)
  PROVE  Serial'
<1>0. c \in Threads /\ c # Main /\ op[c] = Idle /\ proc = "up" /\ dir /\ t \notin Listed
  BY Zenon, CatalogueAssumption DEF Threads, CreateTable, Serial, Stages
<1>1. /\ \A e \in Threads \ {c} : op'[e] = Idle
      /\ Now = Idle /\ op'[c] = Now'
      /\ Now'.kind = "create" /\ Now'.tab = t /\ Now'.step = "create"
      /\ Now'.cols = ColMetas(t, defs) /\ Now'.hdr = FileHdr(record_size(defs))
  <2>1. /\ op'[c].kind = "create" /\ op'[c].tab = t /\ op'[c].step = "create"
        /\ op'[c].cols = ColMetas(t, defs) /\ op'[c].hdr = FileHdr(record_size(defs))
    BY Zenon, <1>0 DEF CreateTable, CatalogueInv, OpsTyped
  <2>2. op'[c] # Idle /\ \A e \in Threads \ {c} : op'[e] = op[e]
    BY Zenon, <2>1, IdleIs DEF CreateTable, CatalogueInv, OpsTyped
  <2>3. (\A e \in Threads \ {c} : op'[e] = Idle) /\ Now = Idle /\ Now' = op'[c]
    BY Zenon, <1>0, <2>2, Begins DEF Serial
  <2> QED
    BY Zenon, <2>1, <2>3
<1>2. /\ UNCHANGED <<dir, meta, file, proc, tabs_, fhs_, path2fd_, buffered>>
      /\ Listed' = Listed /\ Stored' = Stored
  BY Zenon DEF CreateTable, diskVars, mapVars, Listed, Stored
<1>3. Fits(t, ColMetas(t, defs), Ready(FileHdr(record_size(defs))))
  BY Zenon, StatesAre DEF Fits, CreateTable
<1>4. t \notin DOMAIN Stored
  BY Zenon, <1>0, <1>1, IdleIs DEF Serial, StoredMade, Doing
<1> USE <1>0, <1>1, <1>2, <1>3, <1>4
<1>21. Stages'
  BY Zenon, ClientStages DEF Serial, Creating
<1>22. Formatted'
  BY Zenon, IdleIs DEF Serial, Formatted
<1>23. Forgotten' /\ Catalogued' /\ StoredMade'
  BY Zenon, IdleIs DEF Forgotten, Serial, Catalogued, StoredMade, Doing
<1>24. Handles' /\ HandlesKept'
  BY Zenon, IdleIs DEF Serial, Handles, Doing, HandlesKept, Worsens
<1>25. Progress' /\ MetaCurrent'
  BY Zenon, IdleIs DEF Progress, Serial, MetaCurrent, Flushing, Worsens
<1>26. Complete' /\ Restartable' /\ NoOrphans'
  BY Zenon, IdleIs
  DEF Serial, Complete, Doing, Restartable, Exposed, Worsens, NoOrphans
<1> QED
  BY Zenon, <1>21, <1>22, <1>23, <1>24, <1>25, <1>26 DEF Serial

LEMMA DropTableSerial ==
  ASSUME CatalogueInv, Serial, Solo', Worsens, NEW c \in Clients,
         NEW t \in Tables, DropTable(c, t)
  PROVE  Serial'
<1>0. c \in Threads /\ c # Main /\ op[c] = Idle /\ proc = "up" /\ dir /\ t \in Listed
  BY Zenon, CatalogueAssumption DEF Threads, DropTable, Serial, Stages
<1>1. /\ \A e \in Threads \ {c} : op'[e] = Idle
      /\ Now = Idle /\ op'[c] = Now'
      /\ Now'.kind = "drop" /\ Now'.tab = t
      /\ Now'.step = IF fhs_[t] # NoHandle THEN "close" ELSE "destroy"
      /\ Now'.fd = fhs_[t].fd /\ Now'.hdr = fhs_[t].hdr
  <2>1. /\ op'[c].kind = "drop" /\ op'[c].tab = t
        /\ op'[c].step = IF fhs_[t] # NoHandle THEN "close" ELSE "destroy"
        /\ op'[c].fd = fhs_[t].fd /\ op'[c].hdr = fhs_[t].hdr
    BY Zenon, <1>0 DEF DropTable, CatalogueInv, OpsTyped
  <2>2. op'[c] # Idle /\ \A e \in Threads \ {c} : op'[e] = op[e]
    BY Zenon, <2>1, IdleIs DEF DropTable, CatalogueInv, OpsTyped
  <2>3. (\A e \in Threads \ {c} : op'[e] = Idle) /\ Now = Idle /\ Now' = op'[c]
    BY Zenon, <1>0, <2>2, Begins DEF Serial
  <2> QED
    BY Zenon, <2>1, <2>3
<1>2. /\ UNCHANGED <<dir, meta, file, proc, tabs_, fhs_, path2fd_, buffered>>
      /\ Listed' = Listed /\ Stored' = Stored
  BY Zenon DEF DropTable, diskVars, mapVars, Listed, Stored
<1> USE <1>0, <1>1, <1>2
<1>21. Stages' /\ Formatted'
  BY Zenon, ClientStages, IdleIs DEF Serial, Formatted
<1>22. Forgotten' /\ Catalogued' /\ StoredMade'
  BY Zenon, IdleIs DEF Forgotten, Serial, Catalogued, StoredMade, Doing
<1>23. Handles' /\ HandlesKept'
  BY Zenon, IdleIs DEF Serial, Handles, Doing, HandlesKept, Worsens
<1>24. Progress' /\ MetaCurrent'
  BY Zenon, IdleIs DEF Progress, Serial, MetaCurrent, Flushing, Worsens
<1>25. Complete' /\ Restartable' /\ NoOrphans'
  BY Zenon, IdleIs
  DEF Serial, Complete, Doing, Restartable, Exposed, Worsens, NoOrphans
<1> QED
  BY Zenon, <1>21, <1>22, <1>23, <1>24, <1>25 DEF Serial

LEMMA CreateDbSerial ==
  ASSUME CatalogueInv, Serial, Solo', Worsens, CreateDb
  PROVE  Serial'
<1>0. Main \in Threads /\ op[Main] = Idle /\ proc = "down" /\ ~ dir
  BY Zenon DEF Threads, CreateDb, Serial, Stages
<1>1. /\ \A e \in Threads \ {Main} : op'[e] = Idle
      /\ Now = Idle /\ op'[Main] = Now'
      /\ Now'.kind = "init" /\ Now'.step = "truncate"
  <2>1. op'[Main].kind = "init" /\ op'[Main].step = "truncate"
    BY Zenon, <1>0 DEF CreateDb, CatalogueInv, OpsTyped, Ops
  <2>2. op'[Main] # Idle /\ \A e \in Threads \ {Main} : op'[e] = op[e]
    BY Zenon, <2>1, IdleIs DEF CreateDb, CatalogueInv, OpsTyped
  <2>3. /\ \A e \in Threads \ {Main} : op'[e] = Idle
        /\ Now = Idle /\ Now' = op'[Main]
    BY Zenon, <1>0, <2>2, Begins DEF Serial
  <2> QED
    BY Zenon, <2>1, <2>3
<1>2. /\ UNCHANGED <<meta, file, tabs_, fhs_, path2fd_, buffered>>
      /\ Listed' = Listed /\ Stored' = Stored
  BY Zenon DEF CreateDb, diskVars, mapVars, Listed, Stored
<1>3. proc' = "creating" /\ dir'
  BY Zenon, <1>0 DEF CreateDb, diskVars
<1> USE <1>0, <1>1, <1>2, <1>3
<1>21. Formatted'
  BY Zenon, IdleIs DEF Serial, Formatted
<1>22. Stages'
  <2>1. \A e \in Clients : op'[e] = Idle
    BY Zenon, CatalogueAssumption DEF Threads
  <2> QED
    BY Zenon, <2>1, IdleIs DEF Stages, Threads, Flushing
<1>23. Forgotten' /\ Catalogued' /\ StoredMade'
  BY Zenon DEF Serial, Forgotten, Catalogued, StoredMade
<1>24. Handles' /\ HandlesKept'
  BY Zenon, IdleIs DEF Serial, Handles, Doing, HandlesKept
<1>25. Progress' /\ MetaCurrent'
  BY Zenon DEF Progress, MetaCurrent
<1>26. Complete' /\ Restartable' /\ NoOrphans'
  BY Zenon, IdleIs
  DEF Serial, Complete, Doing, Restartable, Exposed, NoOrphans, Worsens
<1> QED
  BY Zenon, <1>21, <1>22, <1>23, <1>24, <1>25, <1>26 DEF Serial

LEMMA BeginCloseDbSerial ==
  ASSUME CatalogueInv, Serial, Solo', Worsens, BeginCloseDb
  PROVE  Serial'
<1>0. Main \in Threads /\ op[Main] = Idle /\ proc = "up" /\ dir
  BY Zenon DEF Threads, BeginCloseDb, Serial, Stages
<1>1. /\ \A e \in Threads \ {Main} : op'[e] = Idle
      /\ Now = Idle /\ op'[Main] = Now'
      /\ Now'.kind = "close" /\ Now'.step = "truncate"
  <2>1. op'[Main].kind = "close" /\ op'[Main].step = "truncate"
    BY Zenon, <1>0 DEF BeginCloseDb, CatalogueInv, OpsTyped, Ops
  <2>2. op'[Main] # Idle /\ \A e \in Threads \ {Main} : op'[e] = op[e]
    BY Zenon, <2>1, IdleIs DEF BeginCloseDb, CatalogueInv, OpsTyped
  <2>3. /\ \A e \in Threads \ {Main} : op'[e] = Idle
        /\ Now = Idle /\ Now' = op'[Main]
    BY Zenon, <1>0, <2>2, Begins DEF Serial
  <2> QED
    BY Zenon, <2>1, <2>3
<1>2. /\ UNCHANGED <<meta, file, tabs_, fhs_, path2fd_, buffered>>
      /\ Listed' = Listed /\ Stored' = Stored
  BY Zenon DEF BeginCloseDb, diskVars, mapVars, Listed, Stored
<1>3. proc' = "closing" /\ dir'
  BY Zenon, <1>0 DEF BeginCloseDb, diskVars
<1> USE <1>0, <1>1, <1>2, <1>3
<1>21. Formatted'
  BY Zenon, IdleIs DEF Serial, Formatted
<1>22. Stages'
  <2>1. \A e \in Clients : op'[e] = Idle
    BY Zenon, CatalogueAssumption DEF Threads
  <2> QED
    BY Zenon, <2>1, IdleIs DEF Stages, Threads, Flushing
<1>23. Forgotten' /\ Catalogued' /\ StoredMade'
  BY Zenon DEF Serial, Forgotten, Catalogued, StoredMade
<1>24. Handles' /\ HandlesKept'
  BY Zenon, IdleIs DEF Serial, Handles, Doing, HandlesKept
<1>25. Progress' /\ MetaCurrent'
  BY Zenon DEF Progress, MetaCurrent
<1>26. Complete' /\ Restartable' /\ NoOrphans'
  BY Zenon, IdleIs
  DEF Serial, Complete, Doing, Restartable, Exposed, Worsens, NoOrphans
<1> QED
  BY Zenon, <1>21, <1>22, <1>23, <1>24, <1>25, <1>26 DEF Serial

(* open_db reads db.meta and opens the files.                              *)
LEMMA OpenDbSerial ==
  ASSUME CatalogueInv, Serial, Worsens, OpenDb
  PROVE  Serial'
<1>0. /\ \A c \in Threads : op'[c] = Idle
      /\ Main \in Threads /\ dir /\ proc \in {"down", "creating"}
      /\ \/ Now = Idle
         \/ Now.kind = "init" /\ Now.step = "finish"
  <2>1. \/ proc = "down" /\ dir
        \/ proc = "creating" /\ op[Main].step = "finish"
    BY Zenon DEF OpenDb, At
  <2>2. Main \in Threads /\ op' = [op EXCEPT ![Main] = Idle]
    BY Zenon DEF OpenDb, Threads
  <2>3. \A c \in Clients : op[c] = Idle
    BY Zenon, <2>1 DEF Serial, Stages
  <2>4. CASE proc = "down"
    BY Zenon, <2>1, <2>2, <2>3, <2>4, NowIdle DEF Serial, Stages, Threads,
       CatalogueInv, OpsTyped
  <2>5. CASE proc = "creating"
    <3>1. op[Main].kind = "init" /\ op[Main].step = "finish" /\ dir
      BY Zenon, <2>1, <2>5 DEF Serial, Stages
    <3>2. Now = op[Main]
      BY Zenon, <2>2, <3>1, IdleIs, NowIs DEF Serial
    <3> QED
      BY Zenon, <2>2, <2>3, <2>5, <3>1, <3>2 DEF Threads, CatalogueInv, OpsTyped
  <2> QED
    BY Zenon, <2>1, <2>4, <2>5
<1>1. (\A c \in Threads : op'[c] = Idle) /\ Now' = Idle
  BY Zenon, <1>0, NowIdle
<1>2. /\ UNCHANGED <<dir, meta, file, buffered>> /\ Stored' = Stored
      /\ proc' = "up" /\ tabs_' = Stored /\ Listed' = DOMAIN Stored
  BY Zenon DEF OpenDb, diskVars, Stored, Listed
<1>3. /\ MadeBy(Stored, file) /\ DOMAIN Stored \subseteq Tables
      /\ meta.text = DbText(Stored) /\ \A t \in DOMAIN Stored : file[t].state = "ready"
  BY Zenon DEF Stored, OpenDb, Serial, StoredMade, MadeBy
<1>4. \A t \in Tables :
         /\ t \in DOMAIN Stored => fhs_'[t].fd \in Fds /\ fhs_'[t].hdr = file[t].hdr
         /\ t \notin DOMAIN Stored => fhs_'[t] = NoHandle
         /\ path2fd_'[t] = fhs_'[t].fd
  BY <1>3 DEF OpenDb, Stored
<1>5. \A t \in DOMAIN Stored : fhs_'[t] # NoHandle /\ file[t] = Ready(fhs_'[t].hdr)
  BY Zenon, <1>3, <1>4, ReadyIs, HandleIs, CatalogueAssumption
<1>19. Solo'
  BY Zenon, <1>1 DEF Solo
<1> USE <1>0, <1>1, <1>2, <1>3, <1>4, <1>5
<1>21. Stages' /\ Formatted'
  BY Zenon, IdleIs DEF Stages, Threads, Serial, Formatted
<1>22. Forgotten' /\ Catalogued' /\ StoredMade'
  BY Zenon DEF Forgotten, Catalogued, Serial, StoredMade
<1>23. Handles' /\ HandlesKept'
  BY Zenon DEF Handles, HandlesKept
<1>24. Progress'
  BY Zenon, IdleIs DEF Progress
<1>25. MetaCurrent'
  <2> SUFFICES ASSUME FilesOpened' PROVE meta' = [state |-> "whole", text |-> DbText(tabs_')]
    BY Zenon DEF MetaCurrent
  <2>1. NotFragile
    BY Zenon DEF Worsens, FilesOpened, NotFragile
  <2>2. ~ Exposed
    BY Zenon, IdleIs DEF Exposed
  <2>3. meta.state = "whole"
    BY Zenon, <2>1, <2>2 DEF Serial, Restartable
  <2> QED
    BY Zenon, <2>3 DEF Serial, StoredMade
<1>26. Complete' /\ Restartable' /\ NoOrphans'
  BY Zenon, IdleIs
  DEF Complete, Serial, Restartable, Exposed, Worsens, NoOrphans, Doing
<1> QED
  BY Zenon, <1>19, <1>21, <1>22, <1>23, <1>24, <1>25, <1>26 DEF Serial

(* The process ends, or a crash ends it.                                   *)
LEMMA MemoryLostSerial ==
  ASSUME CatalogueInv, Serial, Worsens, MemoryLost, UNCHANGED diskVars,
         NotFragile' => ~ Exposed,
         Unharmed' => proc = "closing" /\ At(Main, "finish")
  PROVE  Serial'
<1>1. /\ \A c \in Threads : op'[c] = Idle
      /\ Now' = Idle /\ Main \in Threads
  <2>1. \A c \in Threads : op'[c] = Idle
    BY Zenon DEF MemoryLost
  <2> QED
    BY Zenon, <2>1, NowIdle DEF Threads
<1>2. /\ UNCHANGED <<dir, meta, file>> /\ Stored' = Stored
      /\ proc' = "down" /\ tabs_' = NoTables /\ DOMAIN buffered' = Threads
      /\ fhs_' = [t \in Tables |-> NoHandle] /\ path2fd_' = [t \in Tables |-> NoFd]
  BY Zenon DEF MemoryLost, diskVars, Stored
<1>3. Listed' = {} /\ MadeBy(NoTables, file)
  BY Zenon, <1>2, NothingMade DEF Listed
<1>4. Unharmed' => Stored = tabs_ /\ proc = "closing" /\ Now.step = "finish"
  <2> SUFFICES ASSUME Unharmed' PROVE Stored = tabs_ /\ Now.step = "finish"
    BY Zenon
  <2>1. op[Main].step = "finish"
    BY Zenon DEF At
  <2>2. Now = op[Main]
    BY Zenon, <1>1, <2>1, IdleIs, NowIs DEF Serial
  <2>3. meta = [state |-> "whole", text |-> DbText(tabs_)]
    BY Zenon, <2>1, <2>2 DEF Serial, Progress
  <2>4. meta.text = DbText(tabs_)
    BY Zenon, <2>3
  <2> QED
    BY Zenon, <2>1, <2>2, <2>4, MadeReadBack DEF Stored, Serial, Catalogued
<1>19. Solo'
  BY Zenon, <1>1 DEF Solo
<1> USE <1>1, <1>2, <1>3, <1>4
<1>21. Stages' /\ Formatted'
  BY Zenon, IdleIs DEF Stages, Threads, Formatted
<1>22. Forgotten' /\ Catalogued' /\ StoredMade'
  BY Zenon DEF Forgotten, Catalogued, Serial, StoredMade
<1>23. Handles' /\ HandlesKept'
  BY Zenon, HandleIs DEF Handles, HandlesKept
<1>24. Progress' /\ MetaCurrent'
  BY Zenon, IdleIs DEF Progress, MetaCurrent
<1>25. Complete' /\ Restartable' /\ NoOrphans'
  BY Zenon DEF Complete, Serial, Restartable, Worsens, NoOrphans, Doing, Listed
<1> QED
  BY Zenon, <1>19, <1>21, <1>22, <1>23, <1>24, <1>25 DEF Serial

LEMMA ListedClosed ==
  ASSUME CatalogueInv, Serial, NEW c \in Threads, op[c].step \in {"open", "destroy"}
  PROVE  Closed(op[c].tab) /\ file[op[c].tab] # Blank
<1>1. op[c] = Now /\ Now.tab \in Tables
  BY Zenon, ClientStep, IdleIs, NowIs DEF Serial, Flushing
<1>2. Now.tab \in Listed /\ fhs_[Now.tab] = NoHandle
  BY Zenon, <1>1 DEF Serial, Progress
<1>3. file[Now.tab].state = "ready"
  BY Zenon, <1>1, <1>2 DEF Serial, Complete, Doing
<1>4. path2fd_[Now.tab] = NoFd
  BY Zenon, <1>1, <1>2, HandleIs DEF Serial, Handles, Doing
<1> QED
  BY Zenon, <1>1, <1>3, <1>4, StatesAre DEF Closed

LEMMA StepSerial ==
  ASSUME CatalogueInv, Serial, Solo', Worsens, OpenFailed => ~ FilesOpened',
         NEW c \in Threads, Step(c)
  PROVE  Serial'
<1>1. CASE WriteMeta(c)
  BY Zenon, <1>1, WriteMetaMainSerial, WriteMetaClientSerial DEF Threads
<1>2. CASE CreateFile(c)
  <2>1. CASE file[op[c].tab] = Absent
    BY Zenon, <1>2, <2>1, CreateFileSerial
  <2>2. CASE file[op[c].tab] # Absent
    <3>1. /\ op[c].step = "create" /\ Done(c)
          /\ UNCHANGED <<diskVars, proc, tabs_, fhs_, mapVars, buffered>>
      BY Zenon, <1>2, <2>2 DEF CreateFile, At, diskVars
    <3> QED
      BY Zenon, <3>1, QuitSerial
  <2> QED
    BY Zenon, <2>1, <2>2
<1>3. ASSUME op[c].step \in {"header", "open"}, Done(c),
             UNCHANGED <<diskVars, proc, tabs_, fhs_, mapVars, buffered>>
      PROVE  Serial'
  <2>1. op'[c] = Idle
    BY Zenon, <1>3 DEF Done, CatalogueInv, OpsTyped
  <2>2. proc' = "up"
    BY Zenon, <1>3, ClientStep DEF Serial, Flushing
  <2>3. ~ FilesOpened'
    BY Zenon, <1>3, <2>1, <2>2 DEF OpenFailed
  <2> QED
    BY Zenon, <1>3, <2>3, QuitSerial
<1>4. CASE WriteHeader(c)
  <2>1. op[c].step = "header"
    BY Zenon, <1>4 DEF WriteHeader, At
  <2>2. CASE /\ file' = [file EXCEPT ![op[c].tab] = Ready(op[c].hdr)]
             /\ Goto(c, "insert")
    BY Zenon, <1>4, <2>2, WriteHeaderSerial
  <2>3. CASE Done(c) /\ UNCHANGED file
    BY Zenon, <1>3, <1>4, <2>1, <2>3 DEF WriteHeader, diskVars
  <2> QED
    BY Zenon, <1>4, <2>2, <2>3 DEF WriteHeader
<1>5. CASE OpenFile(c)
  <2>1. At(c, "open") /\ file[op[c].tab] # Blank
    BY Zenon, <1>5, ListedClosed DEF OpenFile, At
  <2>2. UNCHANGED <<diskVars, proc, tabs_, fhs_, buffered>>
    BY Zenon, <1>5 DEF OpenFile
  <2>3. CASE \E d \in Fds :
            /\ path2fd_' = [path2fd_ EXCEPT ![op[c].tab] = d]
            /\ op' = [op EXCEPT ![c].fd = d, ![c].hdr = file[op[c].tab].hdr,
                                ![c].step = "emplace"]
    BY Zenon, <2>1, <2>2, <2>3, OpenFileSerial
  <2>4. CASE Done(c) /\ UNCHANGED mapVars
    BY Zenon, <1>3, <2>1, <2>2, <2>4 DEF At
  <2> QED
    BY Zenon, <1>5, <2>1, <2>3, <2>4 DEF OpenFile
<1>6. CASE DestroyFile(c)
  <2>1. Closed(op[c].tab)
    BY Zenon, <1>6, ListedClosed DEF DestroyFile, At
  <2> QED
    BY Zenon, <1>6, <2>1, DestroyFileSerial
<1> QED
  BY Zenon, <1>1, <1>2, <1>4, <1>5, <1>6, TruncateMetaSerial, FormatMetaSerial,
     InsertTableSerial, EmplaceHandleSerial, CloseFileSerial, ForgetHandleSerial,
     EraseTableSerial
  DEF Step

LEMMA SerialUnchanged ==
  ASSUME Serial, UNCHANGED vars
  PROVE  Serial'
<1>1. UNCHANGED <<dir, meta, file, proc, tabs_, fhs_, path2fd_, op, buffered, trouble>>
  BY Zenon DEF vars, diskVars, mapVars
<1>2. UNCHANGED <<Now, Listed, Stored, Exposed, Unharmed, FilesOpened, NotFragile>>
  BY Zenon, <1>1 DEF Now, Listed, Stored, Exposed, Unharmed, FilesOpened,
     NotFragile
<1>3. Solo' /\ Stages' /\ Forgotten'
  BY Zenon, <1>1 DEF Serial, Solo, Stages, Forgotten
<1>4. Catalogued' /\ StoredMade' /\ Handles'
  BY Zenon, <1>1, <1>2 DEF Serial, Catalogued, StoredMade, Handles, Doing
<1>5. Progress' /\ Formatted'
  BY Zenon, <1>1, <1>2 DEF Serial, Progress, Formatted
<1>6. Complete' /\ Restartable' /\ HandlesKept'
  BY Zenon, <1>1, <1>2 DEF Serial, Complete, Restartable, HandlesKept, Doing
<1>7. MetaCurrent' /\ NoOrphans'
  BY Zenon, <1>1, <1>2 DEF Serial, MetaCurrent, NoOrphans, Doing
<1> QED
  BY Zenon, <1>3, <1>4, <1>5, <1>6, <1>7 DEF Serial

LEMMA SerialStep ==
  ASSUME CatalogueInv, SerialInv, Next, "overlap" \notin trouble'
  PROVE  Serial'
<1>1. "overlap" \notin trouble /\ ~ Overlap'
  BY Zenon DEF Next, Troubled
<1>2. Serial /\ Solo'
  BY Zenon, <1>1 DEF SerialInv, Overlap, Solo
<1>3. CASE /\ Crash
           /\ Troubled({"crash"} \union
                       (IF \E c \in Threads : Fragile(c) THEN {"fragile"} ELSE {}))
  <2>1. trouble' = trouble \union {"crash"} \union
                   (IF \E c \in Threads : Fragile(c) THEN {"fragile"} ELSE {})
    BY Zenon, <1>1, <1>3 DEF Troubled
  <2>2. Worsens /\ ~ Unharmed'
    BY Zenon, <2>1 DEF Worsens, Unharmed, FilesOpened, NotFragile
  <2>3. NotFragile' => ~ Exposed
    BY Zenon, <2>1, ExposedFragile DEF NotFragile
  <2> QED
    BY Zenon, <1>2, <1>3, <2>2, <2>3, MemoryLostSerial DEF Crash
<1>4. CASE /\ \/ CreateDb \/ OpenDb \/ BeginCloseDb \/ FinishCloseDb
              \/ \E t \in Tables : CloseHandle(t)
              \/ \E c \in Clients, t \in Tables :
                    DropTable(c, t) \/ \E defs \in Schemas : CreateTable(c, t, defs)
              \/ \E c \in Threads : Step(c)
           /\ Troubled(IF OpenFailed THEN {"open()"} ELSE {})
  <2>1. trouble' = trouble \union (IF OpenFailed THEN {"open()"} ELSE {})
    BY Zenon, <1>1, <1>4 DEF Troubled
  <2>2. Worsens /\ (OpenFailed => ~ FilesOpened')
    BY Zenon, <2>1 DEF Worsens, Unharmed, FilesOpened, NotFragile
  <2>3. CASE FinishCloseDb
    <3>1. MemoryLost /\ UNCHANGED diskVars /\ proc = "closing" /\ At(Main, "finish")
      BY Zenon, <2>3 DEF FinishCloseDb
    <3>2. Now = op[Main] /\ op[Main].kind = "close" /\ op[Main].step = "finish"
      BY Zenon, <1>2, <3>1, IdleIs, NowIs DEF Serial, Stages, At, Threads
    <3>3. ~ Exposed
      BY Zenon, <3>2 DEF Exposed
    <3> QED
      BY Zenon, <1>2, <2>2, <3>1, <3>3, MemoryLostSerial
  <2>4. CASE CreateDb \/ OpenDb \/ BeginCloseDb \/ \E t \in Tables : CloseHandle(t)
    BY Zenon, <1>2, <2>2, <2>4, CreateDbSerial, OpenDbSerial,
       BeginCloseDbSerial,
       CloseHandleSerial
  <2>5. CASE \E c \in Clients, t \in Tables :
               DropTable(c, t) \/ \E defs \in Schemas : CreateTable(c, t, defs)
    BY Zenon, <1>2, <2>2, <2>5, DropTableSerial, CreateTableSerial
  <2>6. CASE \E c \in Threads : Step(c)
    BY Zenon, <1>2, <2>2, <2>6, StepSerial
  <2> QED
    BY Zenon, <1>4, <2>3, <2>4, <2>5, <2>6
<1> QED
  BY Zenon, <1>3, <1>4 DEF Next

LEMMA SerialInitial ==
  ASSUME Init
  PROVE  Serial
<1>1. /\ \A c \in Threads : op[c] = Idle
      /\ ~ dir /\ proc = "down" /\ tabs_ = NoTables
      /\ DOMAIN buffered = Threads /\ Main \in Threads
      /\ meta = [state |-> "none", text |-> {}]
      /\ \A t \in Tables : file[t] = Absent /\ fhs_[t] = NoHandle /\ path2fd_[t] = NoFd
      /\ fhs_ = [t \in Tables |-> NoHandle] /\ path2fd_ = [t \in Tables |-> NoFd]
  BY Zenon DEF Init, Threads
<1>2. /\ Stored = NoTables /\ MadeBy(NoTables, file) /\ DbText(NoTables) = {}
      /\ DOMAIN NoTables = {} /\ Now = Idle
  BY Zenon, <1>1, NothingReadBack, NothingMade, NowIdle DEF Stored
<1>3. Solo /\ Progress /\ Formatted
  BY Zenon, <1>1, <1>2, IdleIs DEF Solo, Progress, Formatted
<1>4. Stages
  BY Zenon, <1>1, IdleIs DEF Stages, Threads
<1>5. Forgotten /\ Catalogued /\ Complete
  BY Zenon, <1>1, <1>2 DEF Forgotten, Catalogued, Complete, Listed
<1>6. Restartable /\ HandlesKept /\ MetaCurrent /\ NoOrphans
  BY Zenon, <1>1, <1>2 DEF Restartable, HandlesKept, MetaCurrent, NoOrphans
<1>7. StoredMade
  BY Zenon, <1>1, <1>2 DEF StoredMade
<1>8. Handles
  BY Zenon, <1>1, HandleIs DEF Handles
<1> QED
  BY Zenon, <1>3, <1>4, <1>5, <1>6, <1>7, <1>8 DEF Serial

LEMMA SerialInductive == Spec => []SerialInv
<1>1. Init => SerialInv
  BY Zenon, SerialInitial DEF SerialInv
<1>2. CatalogueInv /\ SerialInv /\ [Next]_vars => SerialInv'
  <2> SUFFICES ASSUME CatalogueInv, SerialInv, [Next]_vars, "overlap" \notin trouble'
               PROVE  Serial'
    BY Zenon DEF SerialInv
  <2>1. CASE Next
    BY Zenon, <2>1, SerialStep
  <2>2. CASE UNCHANGED vars
    <3>1. Serial
      BY Zenon, <2>2 DEF SerialInv, vars
    <3> QED
      BY Zenon, <2>2, <3>1, SerialUnchanged
  <2> QED
    BY Zenon, <2>1, <2>2
<1> QED
  BY <1>1, <1>2, CatalogueInductive, PTL DEF Spec

(* path2fd_ and fd2path_ of the disk manager are inverse to each other,    *)
(* whatever statements overlap and wherever open() fails or a crash falls. *)
THEOREM DescriptorMapsInverse == Spec => []FileMapsInverse
  BY CatalogueInductive, PTL DEF CatalogueInv

(* Every slot that a header on disk or in a handle lets a record call      *)
(* address lies inside the page, and its bit inside the bitmap.            *)
THEOREM LayoutSound == Spec => []SlotInPage
<1>1. CatalogueInv => SlotInPage
  <2> SUFFICES ASSUME CatalogueInv,
                      NEW h \in {file[t].hdr : t \in Tables}
                                 \union {fhs_[t].hdr : t \in Tables},
                      NEW i \in 0..(h.num_records_per_page - 1)
               PROVE  SlotFits(h, i)
    BY Zenon DEF SlotInPage
  <2>1. h \in Hdrs
    <3>1. NoHandle.hdr \in Hdrs
      BY Zenon DEF NoHandle, Hdrs
    <3> QED
      BY <3>1 DEF CatalogueInv, HeadersMade, Files
  <2>2. h # NoHdr
    BY DEF NoHdr
  <2>3. PICK r \in RecordSizes : h = FileHdr(r)
    BY Zenon, <2>1, <2>2 DEF Hdrs
  <2> QED
    BY Zenon, <2>3, HeaderFits
<1> QED
  BY <1>1, CatalogueInductive, PTL

(* As long as statements do not overlap, a listed table has its file with  *)
(* the header written, until DROP TABLE has deleted it, wherever open()    *)
(* fails and crashes fall: create_table lists a table after its file.      *)
THEOREM ListedTablesHaveFiles == Spec => []ListedHaveFiles
<1>1. SerialInv => ListedHaveFiles
  <2> SUFFICES ASSUME Serial, NEW t \in Listed
               PROVE  \/ file[t].state = "ready"
                      \/ \E c \in Clients :
                            op[c].kind = "drop" /\ op[c].tab = t /\ At(c, "erase")
    BY Zenon DEF SerialInv, ListedHaveFiles
  <2>1. CASE Doing(t, "drop", "erase")
    <3>1. PICK c \in Threads : op[c].kind = "drop" /\ op[c].tab = t /\ op[c].step = "erase"
      BY Zenon, <2>1, IdleIs DEF Doing, Now
    <3>2. c \in Clients
      BY Zenon, <3>1, ClientStep DEF Serial, Flushing
    <3> QED
      BY Zenon, <3>1, <3>2 DEF At
  <2> QED
    BY Zenon, <2>1 DEF Serial, Complete
<1> QED
  BY <1>1, SerialInductive, PTL

(* After a crash outside the fragile steps db.meta is whole and the file   *)
(* of every table it describes has its header: open_db succeeds.           *)
THEOREM CrashesLeaveRestartable == Spec => []RestartSafe
<1>1. SerialInv => RestartSafe
  <2> SUFFICES ASSUME Serial, proc = "down", dir, trouble \subseteq {"crash", "open()"}
               PROVE  /\ meta.state = "whole"
                      /\ \A s \in meta.text : file[s[1]].state = "ready"
    BY Zenon DEF SerialInv, RestartSafe
  <2>1. Now = Idle
    BY Zenon, NowIdle DEF Serial, Stages, Threads
  <2>2. meta.state = "whole" /\ \A t \in DOMAIN Stored : file[t].state = "ready"
    BY Zenon, <2>1, IdleIs DEF Serial, Restartable, Exposed, NotFragile
  <2>3. \A s \in meta.text : s[1] \in DOMAIN Stored
    BY Zenon DEF Stored, ReadDb
  <2> QED
    BY Zenon, <2>2, <2>3
<1> QED
  BY <1>1, SerialInductive, PTL

(* Between statements that ran one at a time and could open their files,   *)
(* memory, db.meta, files, handles and descriptors describe the same       *)
(* tables; without a crash there are no other files.                       *)
THEOREM StatementsKeepConsistent == Spec => []QuietConsistent
<1>1. CatalogueInv /\ SerialInv => QuietConsistent
  <2> SUFFICES ASSUME CatalogueInv, Serial, Quiet, trouble \subseteq {"crash"}
               PROVE  /\ meta = [state |-> "whole", text |-> DbText(tabs_)]
                      /\ Listed = {t \in Tables : fhs_[t] # NoHandle}
                      /\ \A t \in Tables : path2fd_[t] = fhs_[t].fd
                      /\ \A t \in Listed : file[t] = Ready(fhs_[t].hdr)
                      /\ trouble = {} => \A t \in Tables \ Listed : file[t] = Absent
    BY Zenon DEF SerialInv, QuietConsistent
  <2>1. proc = "up" /\ Now.step = "idle"
    BY Zenon, IdleIs, NowIdle DEF Quiet
  <2>2. FilesOpened /\ (trouble = {} => Unharmed)
    BY Zenon DEF FilesOpened, Unharmed
  <2>3. meta = [state |-> "whole", text |-> DbText(tabs_)]
    BY Zenon, <2>1, <2>2 DEF Serial, MetaCurrent, Flushing
  <2>4. \A t \in Listed : fhs_[t] # NoHandle
    BY Zenon, <2>1, <2>2 DEF Serial, HandlesKept, Doing
  <2>5. \A t \in Tables : path2fd_[t] = fhs_[t].fd
    BY Zenon, <2>1 DEF Serial, Handles, Doing
  <2>6. \A t \in Tables : fhs_[t] # NoHandle =>
                            t \in Listed /\ file[t] = Ready(fhs_[t].hdr)
    BY Zenon DEF Serial, Handles
  <2>7. trouble = {} => \A t \in Tables \ Listed : file[t] = Absent
    BY Zenon, <2>1, <2>2 DEF Serial, NoOrphans, Doing
  <2> QED
    BY Zenon, <2>3, <2>4, <2>5, <2>6, <2>7, TablesOnly
<1> QED
  BY <1>1, CatalogueInductive, SerialInductive, PTL

(* The columns of a listed table follow one another without gap or overlap *)
(* and end where the records of its file end, for every list of columns    *)
(* that create_table accepts, through crashes and restarts.                *)
THEOREM ColumnsDivideRecords == Spec => []ColumnsFillRecord
<1>1. SerialInv => ColumnsFillRecord
  <2> SUFFICES ASSUME Serial, NEW t \in Listed, file[t].state = "ready"
               PROVE  LET cols == tabs_[t]
                          End(i) == cols[i].offset + cols[i].len
                      IN  /\ cols[1].offset = 0
                          /\ \A i \in 1..(Len(cols) - 1) : End(i) = cols[i + 1].offset
                          /\ End(Len(cols)) = file[t].hdr.record_size
    BY Zenon DEF SerialInv, ColumnsFillRecord
  <2>1. Fits(t, tabs_[t], file[t])
    BY Zenon DEF Serial, Catalogued, MadeBy, Listed
  <2>2. PICK defs \in Schemas : /\ record_size(defs) \in RecordSizes
                                /\ tabs_[t] = ColMetas(t, defs)
                                /\ file[t].hdr = FileHdr(record_size(defs))
    BY Zenon, <2>1 DEF Fits
  <2> DEFINE off == curr_offset(defs)
             n == Len(defs)
  <2>3. /\ n \in Nat /\ DOMAIN defs = 1..n /\ off[0] = 0
        /\ \A i \in 1..n : off[i] = off[i - 1] + defs[i].len
    BY Zenon, Offsets
  <2>4. off[n] = record_size(defs) /\ off[n] \in RecordSizes
    BY Zenon, <2>2 DEF record_size
  <2>5. file[t].hdr.record_size = off[n]
    BY <2>2, <2>4 DEF FileHdr
  <2>6. /\ Len(tabs_[t]) = n
        /\ \A i \in 1..n : tabs_[t][i].offset = off[i - 1] /\ tabs_[t][i].len = defs[i].len
    BY <2>2, <2>3 DEF ColMetas
  <2> HIDE DEF off, n
  <2>7. n # 0
    BY <2>3, <2>4 DEF RecordSizes
  <2> QED
    BY <2>3, <2>5, <2>6, <2>7
<1> QED
  BY <1>1, SerialInductive, PTL
=============================================================================
