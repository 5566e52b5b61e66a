--------------------------- MODULE SystemManager ---------------------------
(***************************************************************************)
(* The catalogue: SmManager, with the parts of RmManager and DiskManager   *)
(* that create, open, close and destroy table files, under crashes.        *)
(*                                                                         *)
(* On disk there are the directory, db.meta and one file per table.  In    *)
(* memory there are the catalogue tabs_, the open table handles fhs_ and   *)
(* the descriptor maps of the disk manager.  CREATE TABLE and DROP TABLE   *)
(* are sequences of steps, as in the code: a crash may fall between any    *)
(* two, and so may a step of another client, since no latch is held while  *)
(* a statement executes.                                                   *)
(*                                                                         *)
(* Tables have no indexes: create_index and drop_index are empty.  Of a    *)
(* file's header the model keeps the fields that never change, and of a    *)
(* database's the tables; that declared lengths add up without overflow is *)
(* left to Schemas.                                                        *)
(***************************************************************************)
EXTENDS RecordLayout, Sequences, FiniteSets, Functions

CONSTANTS Tables,      \* names of tables
          Schemas,     \* the lists of column definitions in CREATE TABLE
          Fds,         \* descriptors the kernel may hand out
          Clients,     \* client threads
          Main,        \* the main thread
          OpenFaults   \* whether open() may fail

NoFd == "no descriptor"
NoPath == "no path"
NoTable == "no table"

ASSUME CatalogueAssumption ==
    /\ IsFiniteSet(Tables) /\ IsFiniteSet(Fds)
    /\ Schemas \subseteq Seq([name : STRING, type : STRING, len : Nat])
    /\ Main \notin Clients
    /\ NoFd \notin Fds /\ NoPath \notin Tables
    /\ OpenFaults \in BOOLEAN

VARIABLES dir,        \* whether the directory of the database exists
          meta,       \* db.meta: its state and what it says of each table
          file,       \* each table's file: absent, blank or with its header
          proc,       \* the process: down, creating, up or closing
          tabs_,      \* SmManager::db_.tabs_: the columns of each table
          fhs_,       \* SmManager::fhs_: descriptor and header of each handle
          path2fd_,   \* DiskManager::path2fd_
          fd2path_,   \* DiskManager::fd2path_
          op,         \* what each thread is doing: kind, table and its
                      \* columns, descriptor, file header, next step
          buffered,   \* what each thread's stream onto db.meta holds
          trouble     \* history: "crash", "fragile" crash, failed "open()";
                      \* once statements have overlapped, only "overlap"

diskVars == <<dir, meta, file>>
mapVars == <<path2fd_, fd2path_>>
vars == <<diskVars, proc, tabs_, fhs_, mapVars, op, buffered, trouble>>

Threads == Clients \union {Main}

NoHdr == [record_size |-> 0, num_records_per_page |-> 0, bitmap_size |-> 0]
NoHandle == [fd |-> NoFd, hdr |-> NoHdr]
Idle == [kind |-> "none", tab |-> NoTable, cols |-> <<>>, fd |-> NoFd,
         hdr |-> NoHdr, step |-> "idle"]

\* A file that is not there, one without a header, and one with header h.
Absent == [state |-> "absent", hdr |-> NoHdr]
Blank == [state |-> "blank", hdr |-> NoHdr]
Ready(h) == [state |-> "ready", hdr |-> h]

\* The tables that the catalogue lists.
NoTables == [t \in {} |-> <<>>]
Listed == DOMAIN tabs_

MemoryLost ==
    /\ proc' = "down"
    /\ tabs_' = NoTables
    /\ fhs_' = [t \in Tables |-> NoHandle]
    /\ path2fd_' = [t \in Tables |-> NoFd]
    /\ fd2path_' = [d \in Fds |-> NoPath]
    /\ op' = [c \in Threads |-> Idle]
    /\ buffered' = [c \in Threads |-> {}]

Init ==
    /\ dir = FALSE
    /\ meta = [state |-> "none", text |-> {}]
    /\ file = [t \in Tables |-> Absent]
    /\ proc = "down"
    /\ tabs_ = NoTables
    /\ fhs_ = [t \in Tables |-> NoHandle]
    /\ path2fd_ = [t \in Tables |-> NoFd]
    /\ fd2path_ = [d \in Fds |-> NoPath]
    /\ op = [c \in Threads |-> Idle]
    /\ buffered = [c \in Threads |-> {}]
    /\ trouble = {}

\* Thread c is about to take step s, and goes on to step s.
At(c, s) == op[c].step = s
Goto(c, s) == op' = [op EXCEPT ![c].step = s]
\* Thread c's statement is over: it succeeded, or an exception ended it.
Done(c) == op' = [op EXCEPT ![c] = Idle]

-----------------------------------------------------------------------------
(* The columns of a table: how create_table lays them out in a record, and *)
(* how operator<< and operator>> write them to db.meta and read them back. *)

curr_offset(defs) ==
    LET offset[i \in 0..Len(defs)] ==
            IF i = 0 THEN 0 ELSE offset[i - 1] + defs[i].len
    IN  offset
record_size(defs) == curr_offset(defs)[Len(defs)]

ColMetas(t, defs) ==
    [i \in DOMAIN defs |->
        [tab_name |-> t, name |-> defs[i].name, type |-> defs[i].type,
         len |-> defs[i].len, offset |-> curr_offset(defs)[i - 1],
         index |-> FALSE]]

\* A column is six words, a table its name, the number of columns, their
\* words, and the number of indexes.
ColText(col) ==
    <<col.tab_name, col.name, col.type, col.len, col.offset, col.index>>
TabText(t, cols) ==
    <<t, Len(cols)>>
    \o [k \in 1..(6 * Len(cols)) |-> ColText(cols[(k + 5) \div 6])[((k + 5) % 6) + 1]]
    \o <<0>>

\* The column whose words follow word k of text s.
ReadCol(s, k) ==
    [tab_name |-> s[k + 1], name |-> s[k + 2], type |-> s[k + 3],
     len |-> s[k + 4], offset |-> s[k + 5], index |-> s[k + 6]]
ReadCols(s) == [i \in 1..s[2] |-> ReadCol(s, 6 * i - 4)]

\* All of db.meta: a text per table, whose order does not matter.
DbText(tabs) == {TabText(t, tabs[t]) : t \in DOMAIN tabs}
ReadDb(texts) ==
    [t \in {s[1] : s \in texts} |-> ReadCols(CHOOSE s \in texts : s[1] = t)]

-----------------------------------------------------------------------------
(* main, create_db, open_db and close_db.                                  *)

\* mkdir, when main finds no directory.
CreateDb ==
    /\ proc = "down" /\ ~ dir
    /\ dir' = TRUE
    /\ proc' = "creating"
    /\ op' = [op EXCEPT ![Main].kind = "init", ![Main].step = "truncate"]
    /\ UNCHANGED <<meta, file, tabs_, fhs_, mapVars, buffered>>

\* The inverse of an injective assignment of descriptors to tables.
PathOf(f, d) ==
    IF d \in Range(f) THEN CHOOSE t \in DOMAIN f : f[t] = d ELSE NoPath

\* open_db.  Without db.meta, or with a listed table whose file is missing or
\* has no header, it throws and the process ends: nothing changes.  From an
\* empty db.meta operator>> reads the number of tables into a variable it does
\* not set: the process ends, or goes on with an empty catalogue.
OpenDb ==
    LET db == ReadDb(meta.text)
    IN
    /\ \/ proc = "down" /\ dir
       \/ proc = "creating" /\ At(Main, "finish")
    /\ meta.state # "none"
    /\ \A t \in DOMAIN db : file[t].state = "ready"
    /\ \E f \in [DOMAIN db -> Fds] :
          /\ IsInjective(f)
          /\ fhs_' = [t \in Tables |-> IF t \in DOMAIN db
                                       THEN [fd |-> f[t], hdr |-> file[t].hdr]
                                       ELSE NoHandle]
          /\ path2fd_' = [t \in Tables |-> fhs_'[t].fd]
          /\ fd2path_' = [d \in Fds |-> PathOf(f, d)]
    /\ tabs_' = db
    /\ proc' = "up"
    /\ op' = [op EXCEPT ![Main] = Idle]
    /\ UNCHANGED <<diskVars, buffered>>

\* close_db starts when no statement is executing (module Server shows what
\* the server really waits for).
BeginCloseDb ==
    /\ proc = "up"
    /\ \A c \in Clients : At(c, "idle")
    /\ proc' = "closing"
    /\ op' = [op EXCEPT ![Main].kind = "close", ![Main].step = "truncate"]
    /\ UNCHANGED <<diskVars, tabs_, fhs_, mapVars, buffered>>

\* RmManager::close_file writes a handle's header to whatever file its
\* descriptor now is; without one it throws.
HeaderSaved(d, h) == [file EXCEPT ![fd2path_[d]] = Ready(h)]

\* close_db closes the handles one after the other, up to one that throws.
\* In what order matters only once statements have crossed their descriptors.
CloseHandle(t) ==
    LET d == fhs_[t].fd IN
    /\ proc = "closing" /\ At(Main, "finish")
    /\ d # NoFd /\ fd2path_[d] # NoPath
    /\ file' = HeaderSaved(d, fhs_[t].hdr)
    /\ path2fd_' = [path2fd_ EXCEPT ![fd2path_[d]] = NoFd]
    /\ fd2path_' = [fd2path_ EXCEPT ![d] = NoPath]
    /\ fhs_' = [fhs_ EXCEPT ![t] = NoHandle]
    /\ UNCHANGED <<dir, meta, proc, tabs_, op, buffered>>

FinishCloseDb ==
    /\ proc = "closing" /\ At(Main, "finish")
    /\ \/ \A t \in Tables : fhs_[t] = NoHandle
       \/ \E t \in Tables : fhs_[t] # NoHandle /\ fd2path_[fhs_[t].fd] = NoPath
    /\ MemoryLost
    /\ UNCHANGED <<diskVars>>

\* Where a crash leaves a database that cannot be opened, or loses tables:
\* while db.meta is empty, and between deleting a table's file and writing
\* the db.meta that no longer lists it.
Fragile(c) ==
    \/ op[c].step \in {"format", "write"}
    \/ op[c].kind = "drop" /\ op[c].step \in {"erase", "truncate"}
    \/ op[c].kind = "init" /\ op[c].step = "truncate"

Crash ==
    /\ proc # "down"
    /\ MemoryLost
    /\ UNCHANGED diskVars

-----------------------------------------------------------------------------
(* flush_meta: opening the stream empties db.meta, operator<< copies the   *)
(* catalogue into the stream's buffer, closing it writes the buffer.       *)

TruncateMeta(c) ==
    /\ At(c, "truncate")
    /\ meta' = [state |-> "empty", text |-> {}]
    /\ Goto(c, "format")
    /\ UNCHANGED <<dir, file, proc, tabs_, fhs_, mapVars, buffered>>

FormatMeta(c) ==
    /\ At(c, "format")
    /\ buffered' = [buffered EXCEPT ![c] = DbText(tabs_)]
    /\ Goto(c, "write")
    /\ UNCHANGED <<diskVars, proc, tabs_, fhs_, mapVars>>

\* Faulty variant: when the database is closed the buffer is thrown away.
WriteMetaUnlessClosing(c) ==
    /\ At(c, "write")
    /\ meta' = IF proc = "closing" THEN meta
               ELSE [state |-> "whole", text |-> buffered[c]]
    /\ IF c = Main THEN Goto(c, "finish") ELSE Done(c)
    /\ buffered' = [buffered EXCEPT ![c] = {}]
    /\ UNCHANGED <<dir, file, proc, tabs_, fhs_, mapVars>>

WriteMeta(c) ==
    /\ At(c, "write")
    /\ meta' = [state |-> "whole", text |-> buffered[c]]
    /\ IF c = Main THEN Goto(c, "finish") ELSE Done(c)
    /\ buffered' = [buffered EXCEPT ![c] = {}]
    /\ UNCHANGED <<dir, file, proc, tabs_, fhs_, mapVars>>

-----------------------------------------------------------------------------
(* create_table.  A table that exists already is refused: nothing changes. *)

CreateTable(c, t, defs) ==
    /\ proc = "up" /\ op[c] = Idle
    /\ t \notin Listed
    /\ record_size(defs) \in RecordSizes
    /\ op' = [op EXCEPT ![c] = [kind |-> "create", tab |-> t,
                                cols |-> ColMetas(t, defs), fd |-> NoFd,
                                hdr |-> FileHdr(record_size(defs)),
                                step |-> "create"]]
    /\ UNCHANGED <<diskVars, proc, tabs_, fhs_, mapVars, buffered>>

\* Faulty variant: the file is registered before its header is written.
CreateFileOnly(c) ==
    LET t == op[c].tab IN
    /\ At(c, "create")
    /\ file[t] = Absent
    /\ file' = [file EXCEPT ![t] = Blank]
    /\ Goto(c, "insert")
    /\ UNCHANGED <<dir, meta, proc, tabs_, fhs_, mapVars, buffered>>

\* Faulty variant: a file that a crash left behind is taken over.
CreateFileReusing(c) ==
    LET t == op[c].tab IN
    /\ At(c, "create")
    /\ IF file[t] = Absent
       THEN file' = [file EXCEPT ![t] = Blank] /\ Goto(c, "header")
       ELSE Goto(c, IF file[t] = Blank THEN "header" ELSE "insert") /\ UNCHANGED file
    /\ UNCHANGED <<dir, meta, proc, tabs_, fhs_, mapVars, buffered>>

\* DiskManager::create_file: FileExistsError if there is a file of that name.
CreateFile(c) ==
    LET t == op[c].tab IN
    /\ At(c, "create")
    /\ IF file[t] = Absent
       THEN file' = [file EXCEPT ![t] = Blank] /\ Goto(c, "header")
       ELSE Done(c) /\ UNCHANGED file
    /\ UNCHANGED <<dir, meta, proc, tabs_, fhs_, mapVars, buffered>>

\* DiskManager::open_file and destroy_file refuse a file that is missing or
\* open already.
Closed(t) == file[t] # Absent /\ path2fd_[t] = NoFd

\* open() may fail; a bound: once statements have overlapped it does not.
MayFail == OpenFaults /\ "overlap" \notin trouble

\* The rest of RmManager::create_file: open, write the header, close.  Two
\* bounds: it is one step, so no other thread meets the file while it is open
\* here, and the write succeeds (one that threw would leave it open and blank).
WriteHeader(c) ==
    LET t == op[c].tab IN
    /\ At(c, "header")
    /\ \/ /\ Closed(t)
          /\ file' = [file EXCEPT ![t] = Ready(op[c].hdr)]
          /\ Goto(c, "insert")
       \/ (MayFail \/ ~ Closed(t)) /\ Done(c) /\ UNCHANGED file
    /\ UNCHANGED <<dir, meta, proc, tabs_, fhs_, mapVars, buffered>>

InsertTable(c) ==
    LET t == op[c].tab IN
    /\ At(c, "insert")
    /\ tabs_' = [u \in Listed \union {t} |-> IF u = t THEN op[c].cols ELSE tabs_[u]]
    /\ Goto(c, "open")
    /\ UNCHANGED <<diskVars, proc, fhs_, mapVars, buffered>>

\* Faulty variant: the file may be opened a second time.
OpenFileAgain(c) ==
    LET t == op[c].tab IN
    /\ At(c, "open")
    /\ \E d \in Fds :
          /\ path2fd_' = [path2fd_ EXCEPT ![t] = d]
          /\ fd2path_' = [fd2path_ EXCEPT ![d] = t]
          /\ op' = [op EXCEPT ![c].fd = d, ![c].step = "emplace"]
    /\ UNCHANGED <<diskVars, proc, tabs_, fhs_, buffered>>

\* RmManager::open_file.  Descriptors are shared with the sockets of the
\* server, so any one that is not a table's may be handed out.  The handle
\* reads the header; a file without one throws and stays open.
OpenFile(c) ==
    LET t == op[c].tab IN
    /\ At(c, "open")
    /\ \/ /\ Closed(t)
          /\ \E d \in Fds :
                /\ fd2path_[d] = NoPath
                /\ path2fd_' = [path2fd_ EXCEPT ![t] = d]
                /\ fd2path_' = [fd2path_ EXCEPT ![d] = t]
                /\ IF file[t] = Blank THEN Done(c)
                   ELSE op' = [op EXCEPT ![c].fd = d, ![c].hdr = file[t].hdr,
                                         ![c].step = "emplace"]
       \/ (MayFail \/ ~ Closed(t)) /\ Done(c) /\ UNCHANGED mapVars
    /\ UNCHANGED <<diskVars, proc, tabs_, fhs_, buffered>>

\* emplace keeps the handle that is there and drops the new one.
EmplaceHandle(c) ==
    LET t == op[c].tab IN
    /\ At(c, "emplace")
    /\ fhs_' = [fhs_ EXCEPT ![t] =
                   IF @ = NoHandle THEN [fd |-> op[c].fd, hdr |-> op[c].hdr] ELSE @]
    /\ Goto(c, "truncate")
    /\ UNCHANGED <<diskVars, proc, tabs_, mapVars, buffered>>

-----------------------------------------------------------------------------
(* drop_table.  A table that is not listed is refused: nothing changes.    *)

DropTable(c, t) ==
    /\ proc = "up" /\ op[c] = Idle
    /\ t \in Listed
    /\ op' = [op EXCEPT ![c] =
                [kind |-> "drop", tab |-> t, cols |-> <<>>, fd |-> fhs_[t].fd,
                 hdr |-> fhs_[t].hdr,
                 step |-> IF fhs_[t] # NoHandle THEN "close" ELSE "destroy"]]
    /\ UNCHANGED <<diskVars, proc, tabs_, fhs_, mapVars, buffered>>

\* RmManager::close_file: throws when the descriptor is not open (any more).
CloseFile(c) ==
    LET d == op[c].fd IN
    /\ At(c, "close")
    /\ IF fd2path_[d] = NoPath
       THEN Done(c) /\ UNCHANGED <<file, mapVars>>
       ELSE /\ file' = HeaderSaved(d, op[c].hdr)
            /\ path2fd_' = [path2fd_ EXCEPT ![fd2path_[d]] = NoFd]
            /\ fd2path_' = [fd2path_ EXCEPT ![d] = NoPath]
            /\ Goto(c, "forget")
    /\ UNCHANGED <<dir, meta, proc, tabs_, fhs_, buffered>>

\* Faulty variant: the handle of the dropped table stays in fhs_.
KeepHandle(c) ==
    /\ At(c, "forget")
    /\ Goto(c, "destroy")
    /\ UNCHANGED <<diskVars, proc, tabs_, fhs_, mapVars, buffered>>

ForgetHandle(c) ==
    /\ At(c, "forget")
    /\ fhs_' = [fhs_ EXCEPT ![op[c].tab] = NoHandle]
    /\ Goto(c, "destroy")
    /\ UNCHANGED <<diskVars, proc, tabs_, mapVars, buffered>>

\* DiskManager::destroy_file: throws when there is no file or it is open.
DestroyFile(c) ==
    LET t == op[c].tab IN
    /\ At(c, "destroy")
    /\ IF Closed(t)
       THEN file' = [file EXCEPT ![t] = Absent] /\ Goto(c, "erase")
       ELSE Done(c) /\ UNCHANGED file
    /\ UNCHANGED <<dir, meta, proc, tabs_, fhs_, mapVars, buffered>>

EraseTable(c) ==
    /\ At(c, "erase")
    /\ tabs_' = Restrict(tabs_, Listed \ {op[c].tab})
    /\ Goto(c, "truncate")
    /\ UNCHANGED <<diskVars, proc, fhs_, mapVars, buffered>>

-----------------------------------------------------------------------------
Step(c) ==
    \/ TruncateMeta(c) \/ FormatMeta(c) \/ WriteMeta(c)
    \/ CreateFile(c) \/ WriteHeader(c) \/ InsertTable(c) \/ OpenFile(c)
    \/ EmplaceHandle(c) \/ CloseFile(c) \/ ForgetHandle(c) \/ DestroyFile(c)
    \/ EraseTable(c)

\* What the history records: two statements in progress, a failed open(), a
\* crash and whether it fell into a fragile step.
Overlap == \E c, d \in Threads : c # d /\ op[c] # Idle /\ op[d] # Idle
OpenFailed ==
    /\ proc' = "up"
    /\ \E c \in Threads : op[c].step \in {"header", "open"} /\ op'[c] = Idle
Troubled(with) ==
    trouble' = IF Overlap' \/ "overlap" \in trouble THEN {"overlap"}
               ELSE trouble \union with

Next ==
    \/ /\ Crash
       /\ Troubled({"crash"} \union
                   (IF \E c \in Threads : Fragile(c) THEN {"fragile"} ELSE {}))
    \/ /\ \/ CreateDb \/ OpenDb \/ BeginCloseDb \/ FinishCloseDb
          \/ \E t \in Tables : CloseHandle(t)
          \/ \E c \in Clients, t \in Tables :
                DropTable(c, t) \/ \E defs \in Schemas : CreateTable(c, t, defs)
          \/ \E c \in Threads : Step(c)
       /\ Troubled(IF OpenFailed THEN {"open()"} ELSE {})

Spec == Init /\ [][Next]_vars

-----------------------------------------------------------------------------
\* The two maps of the disk manager are inverse to each other, however tables
\* are created, dropped and reopened (open_file, close_file).
FileMapsInverse ==
    \A t \in Tables, d \in Fds : (path2fd_[t] = d) <=> (fd2path_[d] = t)

\* A process that is down can be started again on what is on disk, and finds
\* every table that it lists with its header written, unless a crash fell
\* into one of the fragile steps or two statements overlapped.  This is what
\* create_table's order (file, header, catalogue, db.meta) is for.
RestartSafe ==
    (proc = "down" /\ dir /\ trouble \subseteq {"crash", "open()"}) =>
        /\ meta.state = "whole"
        /\ \A s \in meta.text : file[s[1]].state = "ready"

Quiet == proc = "up" /\ \A c \in Threads : op[c] = Idle

\* Between statements the catalogue in memory, the open handles, the
\* descriptor maps, the files and db.meta describe the same tables, as long as
\* statements ran one at a time and files could be opened (create_table,
\* drop_table); only a crash leaves files that no table owns.
QuietConsistent ==
    (Quiet /\ trouble \subseteq {"crash"}) =>
        /\ meta = [state |-> "whole", text |-> DbText(tabs_)]
        /\ Listed = {t \in Tables : fhs_[t] # NoHandle}
        /\ \A t \in Tables : path2fd_[t] = fhs_[t].fd
        /\ \A t \in Listed : file[t] = Ready(fhs_[t].hdr)
        /\ trouble = {} => \A t \in Tables \ Listed : file[t] = Absent

\* Even when files cannot be opened, a listed table has its file, header
\* included, until a DROP TABLE has deleted it: create_table lists a table
\* after its file is complete.  Statements ran one at a time.
ListedHaveFiles ==
    "overlap" \notin trouble =>
        \A t \in Listed :
            \/ file[t].state = "ready"
            \/ \E c \in Clients : op[c].kind = "drop" /\ op[c].tab = t /\ At(c, "erase")

\* The columns of a listed table divide the records of its file: they follow
\* one another without gap or overlap and end where a record ends.  Columns
\* and record size are kept in two files, db.meta and the table's own, which
\* crashes and restarts may leave from different statements; executors copy
\* values to col.offset in records of the size the file's header says.
ColumnsFillRecord ==
    "overlap" \notin trouble =>
        \A t \in Listed : file[t].state = "ready" =>
            LET cols == tabs_[t]
                End(i) == cols[i].offset + cols[i].len
            IN  /\ cols[1].offset = 0
                /\ \A i \in 1..(Len(cols) - 1) : End(i) = cols[i + 1].offset
                /\ End(Len(cols)) = file[t].hdr.record_size

\* Whatever statements overlap, every slot that a header on disk or in a
\* handle lets a record call address lies inside its page and behind the
\* bitmap, and its bit inside the bitmap: no record call reaches the next
\* frame's page (create_file, RmPageHandle::get_slot, Bitmap::get_bucket).
SlotInPage ==
    \A h \in {file[t].hdr : t \in Tables} \union {fhs_[t].hdr : t \in Tables} :
        \A i \in 0..(h.num_records_per_page - 1) : SlotFits(h, i)

\* flush_meta, "flushes the metadata of the database to disk" (sm_manager.cpp
\* :122): between statements db.meta describes exactly the tables that exist.
MetaFlushed ==
    Quiet => meta.text = DbText(tabs_)
=============================================================================
