# A TLA+ verification of RMDB

RMDB is a small relational database in C++ (`src/src`, the RucBase teaching
system with its labs filled in). A server process accepts connections and runs
one thread per client. A thread reads a statement, parses and analyses it, plans
it, builds executors and runs them on table files. Table files are read and
written through a buffer pool that keeps fixed-size pages in memory.

This directory models that system in TLA+. TLC checks the models on small
instances; TLAPS proves the central results for every size. `PROJECT.json` lists
all runs, mutants, theorems, findings and hazards, and maps each definition to
the lines of code it stands for. This file explains what they mean.

## 1. The parts of the system

| Part | Code (under `src/src`) | Modules | State of the model |
|---|---|---|---|
| LRU replacer | `replacer/` | LRUList, LRUReplacer | modelled, proved |
| Buffer pool | `storage/buffer_pool_manager.cpp` | BufferPool, PageStore, BufferPoolStore | modelled, proved |
| Disk manager, pages | `storage/disk_manager.cpp` | BufferPool | partly |
| Disk manager, files | `storage/disk_manager.cpp` | SystemManager | modelled, proved |
| Page layout | `record/rm_manager.h`, `rm_file_handle.h`, `bitmap.h` | RecordLayout, in SystemManager | modelled, proved |
| Record file | `record/rm_file_handle.cpp` | RecordFile, RecordTable | modelled, proved |
| Record scan | `record/rm_scan.cpp` | RecordScan | modelled, proved |
| Catalogue | `system/sm_manager.cpp` | SystemManager | partly; what is modelled is proved |
| Server and threads | `rmdb.cpp` | Server | modelled, its safety proved |
| Scanner and parser | `parser/lex.yy.cpp`, `yacc.tab.cpp`, `ast.h` | ScannerTables, Scanner, ParserTables, Parser, Ast, SqlSyntax, FrontEnd | modelled |
| Analyser | `analyze/analyze.cpp` | Analyze | modelled, proved |
| Planner, optimizer | `optimizer/` | Planner, Dispatch | partly: all but the choice of an index |
| Portal, execution manager | `portal.h`, `execution/execution_manager.cpp` | Dispatch, SelectQuery, Statements | partly: all but the text of HELP |
| Query executors | `execution/executor_{seq_scan,nestedloop_join,projection}.h` | SelectQuery | modelled |
| Data-changing statements | `execution/executor_{insert,update,delete}.h`, `portal.h` | Statements | modelled, proved |
| Result printer | `record_printer.h` | RecordPrinter | modelled, proved |
| Client program | `src/rucbase_client/main.cpp` | Server, as its environment | partly |
| B+ tree index | `index/` | none | its tree operations are empty, no index can be made |
| Transactions, locks | `transaction/` | none | the functions are empty |
| Log, recovery | `recovery/` | none | the functions are empty |
| Sort, index scan | `execution/execution_sort.h`, `executor_index_scan.h` | none | the functions are empty |

How the modules build on each other:

    LRUList --- LRUReplacer
       \------- BufferPool --- BufferPoolStore ==> PageStore
    RecordFile (on pages as PageStore promises them) ==> RecordTable
       \------- RecordScan
    RecordTable --- Statements
    Planner --- SelectQuery
    RecordLayout --- SystemManager
    ScannerTables --- Scanner \
    ParserTables ---- Parser --- FrontEnd
    Ast --- Dispatch ---------/    |
    SqlSyntax (the reference) ----/
    Server, Analyze, RecordPrinter

`==>` is a refinement, `---` is EXTENDS. The two abstract specifications join
the layers: BufferPool is shown to implement PageStore, RecordFile assumes
PageStore and is shown to implement RecordTable, and Statements works on
RecordTable.

Some definitions are faulty variants of the one that follows them, with the same
parameters; they carry a comment that says so or none at all. No specification
uses them. Each shows that a property can fail: put in the place of the right
definition it makes TLC find a violation. `MC...` modules give TLC its inputs.

## 2. The modules

**LRUReplacer.** `LRUlist_` is a sequence, `LRUhash_` the set of its keys.
`victim`, `pin` and `unpin` each run under `latch_` and are one action. `since`
is a history variable, the time at which a frame became evictable.

**BufferPool.** `pages_` is split into the functions `id_`, `data_`,
`is_dirty_`, `pin_count_`; `page_table_`, `free_list_` and `LRUlist_` are the
pool's own; `disk`, `file_pages` and `fd2pageno_` are the disk manager's. Every
public operation holds `latch_` throughout and is one action, with the early
returns of the code. `handle` is what each client holds: a page id and the
frame it was given. A client writes to its page without a latch
(`ClientWrite`). With `WriteFaults` any `write_page` may throw, having written
or not; a read past the end of a file is a short read and always throws. With
`DirtyNewPages` callers unpin a new page dirty, as the record layer does.

**PageStore** and **BufferPoolStore.** PageStore has one current value per
page. The mapping takes it from the frame that caches the page, else from disk.

**RecordFile.** `file_hdr_`, the page headers, bitmaps and slots of one table
file, and the pins that calls leave behind. `get_record`, `insert_record`,
`delete_record`, `update_record` and `is_record` are whole calls; `close_file`
and `open_file` save and restore the header. While the file is open the header
on disk is never read, so the model does not keep it (`Outdated`). A call that
finds every frame pinned gets a null page. **RecordTable** is the map from record ids to values
that it implements.

**RecordScan** adds `RmScan` to RecordFile, one action per iteration of the
loop in `next`, with record calls of other threads in between. `unmet` is a
history variable: the records that have been there since the scan began and at
which it has not stopped.

**SystemManager.** CREATE TABLE and DROP TABLE as sequences of steps (create
the file, write its header, enter the table, open the file, format and write
`db.meta`, close, unlink), a crash between any two, restart through `open_db`,
failing `open()` calls, and two clients at once. Writing the header of a new file
(open, write, close) is one step that fails only in its `open()`. `tabs_` has the columns of each
table with the offsets `create_table` computes; `operator<<` and `operator>>`
turn them into the words of `db.meta` and back. A table's file and its handle
have the header that `RmManager::create_file` computed, with the arithmetic of
**RecordLayout**: the record size, the number of slots and the length of the
bitmap. The history variable `trouble` records what has happened: a crash, a
crash in one of the steps that cannot be recovered from (`Fragile`), a failed
`open()`, overlapping statements. The promises made to statements that run one
at a time are conditional on it.

**Server.** The main thread (lock, accept, create thread, cleanup after
SIGINT), the client threads (take the descriptor, unlock, read, lock
`buffer_mutex`, parse, analyse, unlock, execute, write), the clients that send,
exit or hang up, and failing `accept()` and `pthread_create()`. Analysing may fail
an assert of `init_raw`, and BEGIN follows a null transaction pointer: both end the
process. The parser is one step here; FrontEnd opens it.

**Scanner** and **ScannerTables.** `yylex` as flex generated it, with its
tables: the automaton, `yy_start`, backing up to the last accepting position, and
the actions of the rules of `lex.l`. **Parser** and **ParserTables.** `yyparse`
as Bison generated it, with its tables: the state and value stacks, default
reductions, shifts, the semantic actions, and `yysyntax_error` with the tokens it
calls expected. A reduction starts from the value of the stack slot the code
reads, also where an empty rule makes that a stale one. **Ast** has the nodes of
`ast.h`.

**SqlSyntax** is the reference: the lexical rules of `lex.l` and the grammar of
`yacc.y`, written as rules and not as tables.

**Dispatch.** What becomes of a tree, as operators: `do_analyze` copies it into
a Query, `plan_query` and `do_planner` choose the plan, `start` and `run` of the
portal the executor and the call of SmManager, QlManager or the executors.
`generate_sort_plan` looks the column of an ORDER BY up in the catalogue; the
projection over the sort then asks for the `cols()` that SortExecutor does not
have, a null reference, so the call made of it is a crash.
(Analyze has the checks, Planner the joins; Dispatch has what decides which call
is made with which arguments.)

**FrontEnd** puts these together as `client_handler` does under `buffer_mutex`,
for statement after statement. The scanner's static variables and `parse_tree`
live on from one to the next. The history variables are the tokens read and what
the grammar allows after them.

**Analyze.** Every statement of a small language goes through `do_analyze`; the
answer is the exception thrown, "ok", or "abort" for a failed assert, which the
build (`-O0 -g`, no `NDEBUG`) keeps. INSERT and UPDATE then convert their values
as their executors do. The statement is `parse`, and the specification is called
AnalyzeSpec, so that one proof module can extend Analyze and Statements.

**Planner** and **SelectQuery.** `make_one_rel` one loop iteration at a time,
with `pop_conds`, `push_conds` and `pop_scan`, null scans of tables outside FROM
included (the runs have none); the plan is turned into scan and
join executors under a projection, driven row by row as `select_from` does. A
record is a sequence of bytes and a column an offset and a length in it: a join
puts two tuples behind each other and shifts the offsets of the right one, a
projection copies the selected columns to new offsets, and conditions and output
read bytes at offsets. A value read across the border of a column is `Torn`.
`Origin` is a history label, the records a row was made of.

**Statements.** INSERT, UPDATE and DELETE of several clients on one table. One
action per record call: the scan finds an id, reads it, collects it; later each
id is deleted, or read and written back. A record call itself is one step here.
The history variable `alone` tells whether anybody else moved since a statement
began.

**RecordPrinter.** The pieces of a result as lengths, `offset_`, `ellipsis_`.

## 3. What the runs show

Runs that pass:

| Run | Properties | What it shows |
|---|---|---|
| lru | HashMatchesList, VictimIsLeastRecent | list and hash agree; the victim is the frame evictable longest |
| pool | TableMatchesFrames, NoFrameLost, UncachedIsOnDisk, ImplementsPageStore | the page table matches the frames, no frame is lost, no write is forgotten |
| pool_faults | HeldPagesStay, TableMatchesFrames | also when page writes throw half-done and reads are short, a held page is never evicted or moved and the page table matches the frames |
| records | FreeListExact, CountsAgree, ImplementsTable, ScanComplete, ScanAscends | the free list holds each page with room once, across reopening; each record call acts as on a map, also when the pool has no frame; a scan meets every record that stays, none twice, in ascending order |
| catalogue | RestartSafe, QuietConsistent, ListedHaveFiles, ColumnsFillRecord, FileMapsInverse, SlotInPage | statements that do not overlap leave disk and memory in agreement and, outside named steps, survive a crash; the columns of a table fill the records of its file; whatever overlaps, the descriptor maps stay inverse and the slots that a header describes lie inside the page and behind the bitmap |
| server | HandoffExact, OwnStatement, LockedByParser, Answered | a thread serves its own connection and executes its own statement; the mutex is released once on every path; an arrived statement is answered, or its client leaves, or the process ends |
| frontend | LongestMatch, AgreesWithGrammar, ExpectedWereLegal, OnlyCommentsSwallow, TreeSaysStatement, TurnsBounded | a token is the longest match and of the first rule that has it; exactly the statements of the grammar are accepted, and an error is seen at the first wrong token; what the message calls expected is legal; only comments make a statement disappear; the call performed (of a SELECT with ORDER BY, the plan) is the statement written; every statement is parsed in a number of turns bounded by its length |
| analyze | AcceptedWellFormed, UpdateNotRefused, InsertNeverAborts | what passes the analyser has one meaning, equal types and literals that fit, names qualified with a table outside FROM excepted from the first; an accepted UPDATE is not refused halfway |
| select | PlanFaithful, ResultSound, FlatComplete | each table is scanned once, each condition applied once where its columns are; no wrong row, none twice, each with the values of its selected columns, and none missing unless a join is the right child of another |
| statements | StatementExact, LastingServed | a statement that runs alone does what SQL says; one that does not still reaches every selected record nobody else touched |
| printer | FitsBuffer, TruncationMarked, PrefixOnly | the result stays inside the buffer; a cut one is marked and a prefix |

One run shows that the code does not do what a comment says (the finding in
`PROJECT.json` has the quotation):

| Run | Property | What happens |
|---|---|---|
| select_lost | ResultComplete | a join that has ended is not begun again when it is the right child of another; rows are lost |

### Known deviations

The models contain more behaviour that departs from a comment, a message or a
document of the repository. Each is stated as a property in its module. TLC
refutes it when it takes the place of the properties in the configuration named
here.

| Property | Configuration | What happens, and what is said |
|---|---|---|
| UncachedIsOnDisk | BufferPool_faults.cfg | a new page unpinned clean and evicted is nowhere; `buffer_pool_manager.cpp:52` says a page not in the table is on disk |
| UncachedIsOnDisk | BufferPool.cfg with `SPECIFICATION ReuseSpec` | a table is dropped and the next one gets its descriptor: `close_file` has left the old pages in the pool, where they pass for pages of the new file; the same comment |
| PagesReleased | RecordScan.cfg | `get_record` and some early returns keep their page pinned; `lab2-scripts/Lab2函数实现说明.md:472` says every fetched page must be released |
| MetaFlushed | SystemManager.cfg | two flushes cross and an older catalogue stays in `db.meta`; `sm_manager.cpp:122` says the metadata is flushed |
| AcceptErrorIgnored | Server.cfg | after a failed `accept()` the main thread waits for itself; `rmdb.cpp:245` says the socket is ignored and the loop continues |
| ClosedAfterClients | Server.cfg | the database is closed under running statements; `rmdb.cpp:257` says client connections are closed |
| DeletesSelected | Statements.cfg | DELETE removes a record its WHERE clause does not select; `executor_delete.h:23` calls `rids_` the records to delete |
| RecordsFound | Statements.cfg | a scan reads a record another client just deleted, and follows null; `executor_seq_scan.h:59` says it gets the current record |
| MismatchThrows | Analyze.cfg | a number against a CHAR column fails an assert; `lab3-scripts/lab3_summary.md:13` promises IncompatibleTypeError |
| ColumnsOfFrom | Analyze.cfg | `check_column` accepts a column qualified with any table of the database, in FROM or not (`analyze.cpp:98`); `get_col` throws for it in the executor, or the planner joins a null plan or drops the condition; `lab3-scripts/lab3_summary.md:7` says the analyser completes the resolution of column names |

OnlyCommentsSwallow states a deviation itself: the scanner's start condition
survives a statement that ends inside `/*`, and the statements after it, of any
client, are swallowed up to the next `*/`.

TreeSaysStatement leaves two things out that the sort plan loses
(`planner.cpp:265-269`): the qualifier of the ORDER BY column, which is looked up
by its name alone and taken from the last table that has it, and a name that no
table has, which is not refused. `SortSaid` takes both from the tree. No such query
is executed: the projection over the sort ends the process.

One more is kept out of the inputs instead: in a query over several tables
`b.x = b.y` is given to the scan of the first table (`planner.cpp:51`), although
the comment in line 38 speaks of the predicates of the table's own operator.
`MC_CondsOver` admits such conditions only for a single table; without that
restriction TLC refutes PlanFaithful.

### Bounds

* Pool: two clients, two frames and three or four pages: both clients can hold
  a page, so the pool can be exhausted, evict, and meet its own evicted page
  again. Two values tell a lost write from a kept one. Clients are
  interchangeable and held symmetric in pool_faults, which checks invariants
  only.
* Records: two data pages of two slots give every order in which two pages fill
  and drain, page boundaries for the scan, and a hole in front of a record. The
  pool has one frame for the file and a leaked pin stays, so the null page is
  reached. A free list of three pages is beyond this run.
* Catalogue: two clients, two tables and two descriptors, so that a descriptor is
  reused while another statement is under way. All three are symmetric. CREATE
  TABLE asks for records of 511 and 512 bytes, which fit, and of 0 and 513, which
  are refused. `MayFail` is a bound: once statements have overlapped, after which
  most promises are off, `open()` no longer fails.
* Front end: every text of up to 8 tokens that begins a statement, with every
  token in each place, which reaches every rule of the grammar and every kind of
  wrong token; queries and updates of up to 14 tokens, with all their clauses;
  and texts of up to 3 fragments (2 inside an open comment) from the characters
  that lexical rules compete for. Names and values differ by position, so a value
  that moves is seen. The columns of the catalogue are chosen so that an ORDER BY
  names a column of none, one or several of the tables. Statements follow one another without bound.
* Server: two connections with two statements each. A statement is its
  connection and number, enough to tell whose it is.
* Select: FROM lists of one to four tables and up to three conditions, where
  `make_one_rel` has used each of its branches; up to two records per table. No
  FROM list has a table twice, and all columns are those of its tables.
  Two of the tables begin with a CHAR(3) column, so offsets differ between tables,
  and the select lists are all columns, the columns reversed without the first,
  and reversed with one of them twice.
* Statements: two clients with a statement each, two columns of one bit, every
  table of up to two records, WHERE on either column or none, so that an UPDATE
  can change what a WHERE clause looks at.
* Printer and page layout use the real sizes of the code.

`MaxOps`, `MaxPages`, `MaxStatements`, `MaxPins`, `MaxRecords`, `MaxRows`,
`MaxWords`, `MaxLong`, `MaxFragments` and `MaxInComment` are the bounds; each is in a guard or in the set of inputs. Deadlock
checking is off where a model stops at its bound or when the process ends.

### Fairness

Only Server has a liveness property. `LiveSpec` asks weak fairness of the main
thread and of each client thread: a thread that can run is run, which an
operating system provides. Nothing is asked of the clients, of signals or of
failures. The mutex is not assumed fair. `Answered` holds without that because
each connection sends at most `MaxStatements` statements; against an endless
stream of statements of another client it would need a fair mutex, which
`pthread_mutex_t` is not.

That scanning and parsing end is stated as a bound on their turns, TurnsBounded,
which needs no fairness.

## 4. What is proved

Every safety property that a passing run checks is proved for all values of the
constants, except those of the front end, the planner and the query executors
(see the end of this section). Eight modules hold the theorems.

The assumptions are the named ASSUMEs of the modules, which TLC evaluates in the
runs. Most say that bounds are natural numbers, that there is a frame, a page and a
slot, and that null values differ from real ones. These say more:

* `CatalogueAssumption`: tables and descriptors are finite sets, and a schema is
  a list of names, types and lengths.
* `StatementAssumption`: record ids are positive numbers, a record has two number
  columns, and the set of record values is closed under the SET clauses of the statements, as the fixed-width
  columns of a table are.
* `AnalyzeAssumption`: trees have the parts the grammar gives them, and a number
  column is 4 bytes long (`yacc.y` makes it `sizeof(int)` or `sizeof(float)`).

The theorems and the argument behind each:

* **Replacer** (LRUListProofs, LRUReplacerProofs). `HashAlwaysMatches` and
  `EvictionIsLRU`. The inductive invariant joins type, match, order and
  `NoFutureTimes`: `pin` consults the hash and edits the list, so order needs
  the match; a new front entry is newest only because no recorded time lies
  ahead. LRUListProofs holds the facts on lists without duplicates.
* **Buffer pool** (BufferPoolProofs). `PoolTypeCorrect`, `HeldPagesNeverMove`,
  `TableAlwaysMatches`, with every failure included. A held page could be
  evicted if its frame were in the free list or the LRU list, if it were listed
  twice, or if the table led elsewhere; `SafeInv` therefore adds that both lists
  are without duplicates, that a dirty frame carries a page, and that only
  allocated pages are cached. There is one lemma per action, and `InstallSafe`
  serves the two that put a page into a frame.
* **Coherence and refinement** (the second half of BufferPoolProofs). If new
  pages are unpinned dirty: `UncachedPagesOnDisk`, and, if writes succeed,
  `FramesNeverLost`. Evicting a clean frame forgets its contents, so the
  strengthening is that a clean frame equals its page on disk, where clean means
  that the dirty bit is clear and no holder owes a dirty unpin. The lemmas also
  show that each step is a step of a page store or invisible to it, from which
  `PoolImplementsPageStore` follows, write failures included.
* **Record file and scan** (RecordScanProofs). For files of any number of pages
  and slots: `FreeListStaysExact`, `CountsStayRight`, `FileImplementsTable`,
  `ScansAreComplete`, `ScansAscend`. `FileInv` joins types, counts and chain,
  because a page enters or leaves the chain when its count says so; and it adds
  that a closed file has its header on disk, without which reopening would break
  the chain. `Linked` is the chain as a sequence of pages: `insert_record` takes
  its head away, `delete_record` and a new page put one in front, and these are
  the lemmas. `ScanInv` adds `UnmetAhead`: what the scan has yet to meet is still in
  the file and ahead of the cursor, whatever other threads did.
* **Catalogue** (SystemManagerProofs). `LayoutSound`: for
  every page size, header size and list of columns, with overlapping statements,
  failing opens and crashes anywhere, each slot that a header in the system
  describes lies inside its page. The first lemmas have the arithmetic: the
  formula of `create_file` leaves enough room although it reserves it for another
  header. The inductive invariant is `CatalogueInv`: the header in
  every file, handle and statement under way is one that `create_file` computed,
  or none; `close_file` can write it to a file it does not belong to, but never a
  malformed one. `DescriptorMapsInverse`: `path2fd_` and `fd2path_` are inverse to
  each other. `close_file` takes the path from `fd2path_` and a thread may come
  with a descriptor that has changed hands; the invariant therefore speaks of the
  maps and types of all threads, not of the thread that opened the file.
* **Crashes and consistency** (the second half of SystemManagerProofs).
  `ListedTablesHaveFiles`, `CrashesLeaveRestartable`, `StatementsKeepConsistent`
  and `ColumnsDivideRecords`. They are promises to statements that do not
  overlap, so the invariant is `SerialInv`: as long as none have, at most one
  thread is at work (`Solo`), and `Now`, its statement and step, says what files,
  handles, catalogue and `db.meta` may lack at the moment (`Progress`,
  `Complete`, `Handles`, `StoredMade`). What depends on the history of crashes
  and failed opens is conditional on it (`Restartable`, `HandlesKept`,
  `MetaCurrent`, `NoOrphans`). That `operator>>` reads back what `operator<<`
  wrote, and that offsets are running sums of lengths, are lemmas for lists of
  columns of any length.
* **Server** (ServerProofs). For any number of connections and statements:
  `HandoffIsExact`, `ExecutesOwnStatement`, `ParserLockBalanced`. `sockfd_mutex`
  is locked by the main thread and unlocked by the new one, and `sockfd` is passed
  by address: `ServerInv` says that at most one of them is between lock and unlock
  (`OneHandoff`), that the variable holds a connection nobody serves meanwhile
  (`SockfdFresh`), that connections are served by different threads, and that
  `parse_tree` is that of the holder of `buffer_mutex` (`TreeOfHolder`). A client
  sends nothing while it waits, so what a thread has read is what was sent last.
* **Analysis** (StatementProofs). For every catalogue and statement:
  `AcceptedAreWellFormed` (names qualified with a table outside FROM excepted),
  `UpdatesAreNotRefused`, `InsertsNeverAbort`. Checks
  run in order and the first failure is the answer: a sequence of checks passes
  exactly when each does (`FirstFailureIs`, `Together`). `AnalyzeInv` carries what the
  checks of `do_analyze` established to the executors, which repeat them. INSERT
  does not abort because equal types make a number meet a number column, whose
  length is the right one.
* **Execution** (StatementProofs). For any number of clients and records:
  `StatementsAreExact` and `SelectedAreServed`. `ExecInv` has three parts per
  client: what its executor knows whatever others do (`Prepared`: the list is in
  ascending order and behind the scan), where a selected record that nobody
  touched must be (`Pending`: ahead of the scan, on the list, or written), and,
  while nobody else moved, what the statement has made of the table so far
  (`ByItself`: exactly what it collected and no longer lists is changed).
* **Printer** (RecordPrinterProofs). `PrinterTyped`, `PrinterFits`,
  `PrinterMarks`, `PrinterPrefix`. The end of a record may be dropped without
  setting `ellipsis_`; the invariant says that then no cell fits any more, so
  the next cell or the bottom line sets it.

Only model-checked:

* `Answered` (Server), liveness under fairness, which the prover cannot do.
* LongestMatch, AgreesWithGrammar, ExpectedWereLegal, OnlyCommentsSwallow,
  TreeSaysStatement and TurnsBounded (FrontEnd); PlanFaithful (Planner);
  ResultSound and FlatComplete (SelectQuery). The code recurses over automata,
  grammars, plans and executor trees, and the models do so with RECURSIVE
  operators, which the prover does not accept; besides, what a recursive
  definition computes for every input takes an induction scheme that the
  installed provers cannot instantiate. Where induction over numbers is needed
  elsewhere (running sums, least elements), the proofs use the well-foundedness of
  the natural numbers instead: a smallest counterexample is refuted.

## 5. What is left out, and what comes next

Not modelled:

* index, transactions, locks, log and recovery, sorting and index scans: their
  functions are empty. ORDER BY is modelled up to the null reference that ends the
  process (Dispatch).
* a header write that fails when a table is created (`rm_manager.h:53`), which would
  leave the blank file open, and other threads between its `open()` and `close()`.
* the text of HELP, the terminal handling of the client program, the log file of
  the disk manager, and `lseek` apart from the `read` or `write` that follows it.
* `parser/yacc.tab.c`, `lex.yy.c`, `lex.yy.hpp`, `yacc.tab.hpp` and the
  `~origin_master` files, older outputs of the generators that the build does not
  use (`parser/CMakeLists.txt` names `yacc.tab.cpp` and `lex.yy.cpp`), and
  `ast_printer.h`, which only a test uses.

Planned, in this order:

1. A record file with two threads inside its calls: nothing latches
   `RmFileHandle`, and `insert_record` reads the page number after unpinning.
   Bounds: two threads, two pages of two slots. Which of FreeListExact,
   CountsAgree and ImplementsTable survive?
2. DDL beside data: a table dropped while another client's statement is between
   analysis and execution.
3. The client program's loop.
4. Joins as recursive functions on plans of bounded depth, so that PlanFaithful
   could be proved depth by depth.
