# Ambix: a formal model

Ambix moves the pages of selected processes between DRAM and Optane memory
(NVRAM).  A kernel module finds pages worth moving, a user-space daemon decides
when to ask for them and moves them, PCM tells the daemon how busy the memory
is, and clients tell the daemon which processes to manage.  This directory
holds TLA+ models of the parts whose correctness depends on order, on
interleaving or on arithmetic at a boundary, TLC instances that check them,
and proofs that hold for every instance.

Source paths below are relative to the repository; `src/` in PROJECT.json is
the repository's root.

## 1. Inventory

| Part | Source | State it keeps | Operations |
|---|---|---|---|
| Managed-process list | `src/ambix_hyb-mod.c` 50-58, 78-155, 709-745 | `task_items`, `n_pids`, the cursors `last_pid_*`, `last_addr_*` | `find_target_process`, `update_pid_list`, `refresh_pids`, `bind_pid`, `unbind_pid` |
| Page walks | `src/ambix_hyb-mod.c` 168-403, 443-695 | `found_addrs`, `backup_addrs`, `switch_backup_addrs`, `n_found`, `n_to_find`, `n_backup`, `n_switch_backup`, the cursors, and the bits of every PTE | six PTE callbacks, `do_page_walk`, `mem_walk`, `clear_walk`, `switch_walk` |
| Request handler and reply | `src/ambix_hyb-mod.c` 766-869 | the reply under construction | `process_req`, `placement_nl_process_msg` |
| Control daemon: requests | `src/ambix_hyb-ctl.c` 416-508 | `buffer`, `candidates`, `comm_lock` | `send_req`, `send_bind`, `send_unbind`, `send_find` |
| Control daemon: migration | `src/ambix_hyb-ctl.c` 215-403 | arrays local to a call | `do_migration`, `do_switch` |
| Control daemon: policy | `src/ambix_hyb-ctl.c` 117-202, 521-634 | `switch_act`, `thresh_act`, `prev_memdata_lmod`, usages | `memcheck_placement` |
| Control daemon: front ends | `src/ambix_hyb-ctl.c` 700-961, 974-1042 | `exit_sig`, the socket | `process_stdin`, `process_socket`, `main` |
| Client library | `src/ambix-client.c`, `src/bind.c`, `src/unbind.c` | a socket | `bind_uds`, `unbind_uds` |
| Bandwidth sampler | `src/pcm-mod/pcm-memory.cpp`, `src/pcm-ambix.h` | the memdata file | its main loop, `write_memdata` |
| MixM variant | `src/ambix-MixM/ambix_MixM-*.c` | as above | as above, with other callbacks and bounds |
| clock-dwf baseline | `tests/clock-dwf/` | as above, simpler | as above |
| Vendored PCM, test programs | `src/pcm-mod/`, `tests/` | | |

How they interact.  Clients connect to the daemon's Unix socket, write one
record and close; `process_socket` turns it into a BIND or UNBIND.  The threads
`process_socket`, `process_stdin` and `memcheck_placement` each send requests
over one netlink socket.  `comm_lock` spans one request and its reply;
`placement_lock` spans a FIND and the migration of what it found, and for
`memcheck_placement` also the CLEAR and the wait before the FIND.  The module
handles a request inside the daemon's `sendmsg`, walks page tables of running
processes, and answers with an array of addresses that is copied to the global
`candidates`.  The daemon calls `move_pages` with them.  PCM replaces a file
that the daemon reads once a second.

What is hard, and the property that covers it (the full list, with lines, is
under "hazards" in PROJECT.json):

| Part | Hard behaviour | What makes it correct |
|---|---|---|
| Managed list | entries vanish between requests; two cursors and a loop index point into an array that shifts; process numbers are reused; a process is reaped between two lookups | `CursorInRange`, `CursorFollowsTask`, `DistinctPids`, `RefreshDropsDead`, `UnbindForgets`, `DeadDropped`, `ImplementsManagedSet` |
| Page walks | a cycle in four legs from any cursor; a backup bound that shrinks; two lists merged into equal halves, by moves of an array over itself; processes without tables | `FullCycle`, `ShortMeansAll`, `ReplyInBounds`, `TwiceOnlyAtCursor`, `CursorAtFiller`, `SwitchBalanced`, `ImplementsPageWalk` |
| CLEAR and FIND | hardware, translations that processors hold, reclaim, binds, migrations and, in MixM, other FINDs between the two | `PriorityIsHot`, `UnwrittenWhenTaken` |
| Reply | a packet boundary anywhere in it, arrays that keep what earlier replies left, a macro without parentheses | `Delivered`, `ArraysHoldReply` |
| Migration | nodes that fill up, batches of one process, pages that fail, passes of a switch over the same array | `ReadsInReply`, `SendsAssigned`, `CountIsHonest`, `SendFindEnds` |
| Requests | three threads, one socket, one `candidates` array, replies without a number | `ReplyIsOwn`, `CandidatesAreOwn`, `ClearPrecedesFind` |
| Policy | toggles in the middle of a round | `UsageOfThisRound` |
| Sampler and policy | two periodic programs that share a file, no lock, a clock of seconds, a crash of one | `SampleFinished`, `UsedAgainOnlyAfterRace`, `IgnoredWasUsed`, `FreshEverySecondRound`, `MeasuredAfterClear` |
| Front ends | clients that do not wait and never learn what became of a request, threads that must all end | `ListFollowsClient`, `RequestReachesModule`, `ExitEndsAll` |

## 2. Plan

Done, in this order:

1. `PidList` with its abstract specification `ManagedSet`; `PidListProofs`,
   with the proof that the one implements the other.
2. `PageWalk` over `PteClass`, the classification of pages by their bits;
   `PageWalkProofs`.  `SwitchWalk`, the loops of `switch_walk` on the array,
   which implements `PageWalk`; `SwitchWalkProofs`.
3. `PteBits`, what the bits mean over a CLEAR and a FIND, on the same
   `PteClass`, for both builds; `PteBitsProofs`.
4. `Ctl`, the daemon's threads and its clients; `CtlProofs`.
5. `NetlinkReply`, the way of a reply from the module's array to the daemon's;
   `NetlinkReplyProofs`.
6. `SendFind`, the migration of what a FIND found, which extends
   `NetlinkReply`; `SendFindProofs`, which reuses the proofs of the exchange.
7. `Memdata`, the sampler, its file and the daemon in time; `MemdataProofs`.

How they fit together: `PidList` gives `PageWalk` its list and its cursors,
`PageWalk` says which replies `SendFind` can receive (`RepliesFitDaemon`),
`SwitchWalk` is `PageWalk` with the array in it, `NetlinkReply` is the first
half of `SendFind`, and `Ctl` has all of a FIND as three steps under
`comm_lock` and one under `placement_lock`.  `PteClass` is shared by `PageWalk`
and `PteBits`.

Left, in the order in which they would add most:

1. `Placement`: `Ctl` composed with `PidList`, so that the module's list and
   the clients' view are one state, and `ManagedSet` as what clients see.
2. The thresholds of MixM, which a command changes while they are in use, with
   the page counts that are computed from them.

## 3. Modules

Names in the models are the source's.  A definition whose name has an
underscore and a slip after it (`Collect_OneShort`, `Sendmsg_Unlocks`) is the
definition it begins with, changed as a bug would change it; no specification
uses one.  They show that each property can fail.

### PidList

One handler, because `comm_lock` leaves one request in flight and the netlink
callback runs to its end.  Around it the process table changes at every step:
`Start`, `Exit`, `Reap`.  A task is a `task_struct`; `PidOf` gives its number,
which another task may have once it is free.

| Code | Model |
|---|---|
| `process_req`, its order of refresh and operation | `Receive`, `RefreshEnd` |
| one iteration of `refresh_pids` | `RefreshDrop` (with `i--`), `RefreshKeep` |
| `update_pid_list` | `UpdatePidList`, from `CursorAfter`, `AddrAfter`, `EntryAfter` |
| `find_target_process` | `BindRefuse`, `BindLookup` (`find_get_pid`), `BindAttach` (`get_pid_task`) |
| `unbind_pid` | `Unbind` |
| `mem_walk`, `switch_walk`, `clear_walk` | `Walk`: the cursors of the mode move anywhere in the list |
| the reply | `Reply` |

`absent` is history: numbers out of use since the request came, which is what
`RefreshDropsDead` needs to say that the loop missed nobody.  The array has
`BIND_LIMIT` slots so that a copy of the module that stores beyond `MAX_PIDS`
can be seen to do so.

`ManagedSet` is the promise to clients, without list, index or cursor: a set
of tasks with distinct numbers.  BIND adds a task or is refused for one of
four reasons, UNBIND answers whether there was one, and a task leaves the set
otherwise only during a request and only when its number is out of use.
`PidList` maps `managed` to the entries of the array and `phase` to where the
handler is.

### PageWalk and PteClass

A step is one PTE callback, the beginning or end of a `walk_page_range`, or
what `mem_walk` and `switch_walk` do with their lists.  `do_page_walk` has four
loops; `LegProc`, `LegFrom` and `LegTo` say which process and addresses leg
number `leg` covers, from the cursor round to the cursor.  `Collect` is the
common body of the five callbacks that fill a list; `PteClass` has their
conditions on the accessed and dirty bit, and the modes that start them.
`StopFull` is the early return "If found all save last addr".  `MemEnd`,
`SwitchTurn` and `SwitchEnd` are the tails of the two walks; `Pairs` is the
outcome of the moves `switch_walk` makes within `found_addrs`, which
`SwitchWalk` has one by one.

The daemon's counts are not negative in the run.  The command `send` takes any
number, and with one below 0 `n_found == n_to_find` never holds: the callbacks
do not stop, and the array is left.  `ReplyInBounds` then fails at once, as it
must; what is written behind the array is undefined, so that the run leaves the
case out and the theorem names it as its condition.

The bits a callback finds are arbitrary, since the MMU sets them and reclaim
clears them at any time.  A process may exit between two legs: its entry
stays with `mm` NULL.  `do_page_walk` skips it.  `clear_walk` does not test and
locks `mm->page_table_lock`: the model stops in `"oops"`, and nothing is
claimed of what comes after.

### SwitchWalk

Everything of `PageWalk` but `SwitchEnd`, in whose place are the steps of
`switch_walk` on the array.  `Branch` is the choice among its four cases with
what each does before its loop; `ShiftLeft`, `AppendBackup`, `ShiftRight` and
`FillBackup` are one assignment each; `SwitchReturn` reads the reply out of the
array.  `found` stays as the walks left it until then, so that `nvram_found`
and the other numbers keep the values they have in the code, and `found_addrs`
is the array the loops change.  An element the request has not written is
`Unwritten`: no page and no separator, so that a reply made of one is noticed.

### PteBits

One page per process, any number of processes.  `Read`, `Write`, `Age` and
`Evict` are the hardware and reclaim; `SendClear`, `Visit`, `ClearDone`, `SendFind`,
`FindDone` follow `memcheck_placement` from its CLEAR through its wait to its
FIND and migration.  `Bind` comes in wherever `comm_lock` is free.  What a visit
does to the bits is `Cleans` of `PteClass`: the dirty bit goes, the accessed bit
does not, because the second assignment to `*ptep` starts from `old_pte` again.

The callbacks write PTEs and no walk flushes the TLB.  `tlb` is the most any
processor holds of a page's translation: nothing, a clean one, or one held as
dirty.  An access either walks the page table, and records itself in the PTE, or
hits; a write hits only a translation held as dirty, and then leaves the PTE
clean that a callback has cleaned.  `Evict` drops a translation at any time;
`Remap` drops those of a migrated page.  In `ambix_hyb` an unrecorded write only
keeps a page from being found, because priority there is being dirty.  In
`ambix_MixM` it makes a page in heavy use pass as unwritten: `stale` is the set
of pages that were held as dirty when the CLEAR was at them, and
`UnwrittenWhenTaken` excepts them, and the ones in `swept`, and no others.

`build` chooses between the two programs.  In `ambix_MixM`, where DRAM caches
part of NVRAM, a page with priority is one that is read and not written, two
callbacks go on to clean, and `memcheck_placement` releases `placement_lock`
between CLEAR and FIND.  `SendOther` and `OtherDone` are a FIND that stdin gets
in there; `swept` records what it cleaned or moved, and `NoFind` is the round
that asks for nothing in the end.

### Ctl

A step of a thread is what lies between two points at which another thread
can notice: a lock, a system call, an access to a shared variable.  `pc[t]` is
where the thread is in its own loop; `call[t]` is where it is inside
`send_find`, `send_bind` or `send_unbind`.

| Code | Model |
|---|---|
| `send_req` | `LockComm`, `Sendmsg`, `Recvmsg` (copies the reply, then unlocks) |
| `send_find` after the reply | `Migrate` |
| `process_stdin` | `StdinBind`, `StdinFind`, `StdinLock`, `StdinSend`, `StdinDone`, `StdinToggle`, `StdinToggleBoth`, `StdinExit` |
| `process_socket` | `SocketStart`, `Accept`, `ReadRequest`, `SocketDone`, `ReadEnd`, `SocketExit` |
| `memcheck_placement`, one round | `MemTop`, `MemSwitch`, `MemSwitchLock`, `MemClear`, `MemFind`, `MemFound`, `MemThresh`, `MemThreshLock`, `MemMove`, `MemMoved`, `MemSleep` |
| `bind_uds`, `unbind_uds`, the end of a client | `Connect`, `WriteRequest`, `Close`, `Exit` |
| `main` joining the threads | `Ended` |

The module is what `Sendmsg` does: `Reply` carries the request out at once and
queues one reply, or none when `Drops` is set (`nlmsg_new` failed).  `Carry` is
what becomes of the list: any request may drop clients that ended, once they
have been reaped; a BIND of a number succeeds or is refused, since the list may
be full, the number may be listed for a process that is dead, or name none; an
UNBIND of a number always leaves it out.  `StdinBind` is `bind` and `unbind`
typed for any number in `Typed`, a client's or another's.  `overruled` is
history: the clients whose place in the list was last decided by a refusal, by
`refresh_pids` or by stdin, and not by their own request.  `ListFollowsClient`
says that for all others the list is what they asked for last, which is all a
client that never reads an answer can rely on.  A usage is
one of three levels, since the code only compares it with a target and a limit.
A usage that was never read can be any level.  `SocketStart` has two outcomes
because `sel_timeout.tv_usec` has no value before the first `select`, which
refuses values out of range.

### NetlinkReply

The reply as arrays and messages.  `found_addrs` and `candidates` begin with
any contents, since nothing clears them between requests.

| Code | Model |
|---|---|
| `nlmsg_new` failing | `NoSkb` |
| the loop of `placement_nl_process_msg` over full messages | `PutMessage` |
| its last message, of `last_packet_entries` | `PutLastMessage` |
| `send_req`: `recvmsg`, the loop over `NLMSG_OK`, its end | `Recvmsg`, `CopyMessage`, `CopyEnd` |

`AllocBytes` is `sizeof(addr_info_t) * MAX_N_FIND` as it expands: the macro
ends in `- 1` and has no parentheses, so one byte is taken off and not one
entry.  `USED` is the end of an entry's last field, before its padding.

### SendFind

`send_find` after the reply: it counts entries up to the first without a
process, then `do_migration` or `do_switch` assigns pages to nodes and hands
them to `move_pages`.

| Code | Model |
|---|---|
| counting the entries in `send_find` | `Count` |
| one node of the loop over nodes | `Assign` |
| the end of that loop | `BeginBatches`, `NoRoom` |
| one `move_pages`, its retry page by page, the count `e` | `Batch` |
| the return of `do_migration` | `Migrated` |
| the halves and the outer loop of `do_switch` | `HalfMigrated`, `OtherHalf`, `NextPass`, `Switched` |

`numa_node_size64` answers any number, since other programs allocate
meanwhile; any page of a batch may fail.  `From` is where the code reads the
address of the next page, which for the DRAM half of a switch begins again at
every node and in every pass.  `last_read` is the largest index of `candidates`
the code looked at, its look-ahead included.

### Memdata

Time passes in ticks; the sampler and the daemon each act when their timer
says so, or up to `LATE` ticks after it.  `PcmMeasure`, `PcmOpen`, `PcmWrite`
and `PcmRename` are a period of PCM; `PcmCrash` and `PcmStart` may come between
any two.  `StatOld`, `StatNew`, `Read`, `Decide`, `Find` and `Thresh` are a
round of `memcheck_placement`, with its wait of `clear_interval` and its sleep
of one or two periods.  `Mtime` counts seconds, which is what the daemon
compares.  `Switched` and `Moved` are the numbers `do_switch` and `do_migration`
return.  `SleepInterval` doubles the sleep if their sum is above 0, as the code
does, and takes `clear_interval` off if the first is.  A sample carries the time
its measurement began and ended; `since` is the CLEAR of the last round whose sum
was above 0, or the end of that round if `do_switch`'s part was not.
`MeasuredAfterClear` compares the two.  It does not say that nothing was
measured during a migration: the sample may take in what came after the CLEAR.

`do_switch` counts failures again in every pass (`CountIsHonest` in `SendFind`
has the condition under which it does not), so that its number can be negative
and cancel what `do_migration` moved, or stand for a pass that moved pages.  Such
a round sleeps one period, and the next decision can rest on bandwidth measured
before it.  The model has these rounds; the property is not about them.

## 4. Runs

| Run | Checks | Instance |
|---|---|---|
| `pidlist_safety` | the list's invariants, `CursorFollowsTask`, that the list implements `ManagedSet`, and `RequestAnswered` and `DeadDropped` under fairness | four tasks, two with one number, a list of two, two addresses |
| `pidlist_refusal` | violated: `RefusalIsHonest` | as `pidlist_safety`, one address |
| `pidlist_mixm` | violated: `WithinArray` | `BIND_LIMIT = MAX_PIDS + 1` |
| `pagewalk_safety` | all of `PageWalk`'s safety properties with the loops of `SwitchWalk`, every mode, and that `SwitchWalk` implements `PageWalk` | two processes of two pages, two pages in each tier, 0, 1 or 3 pages asked for, 3.5 million states |
| `pagewalk_saveaddr` | violated: `FullListSavesAddr` | all pages in DRAM |
| `ptebits_window` | `PriorityIsHot`, `UnwrittenWhenTaken` | two pages with their translations, both builds, 0.8 million states |
| `ptebits_mkold` | violated: `ClearedIsOld` | two pages |
| `ctl_safety` | the invariants of `Ctl` and `ClearPrecedesFind` | all threads, one client that may end, its number unbound on stdin, refused binds, two connections, lost replies, toggles, 5.1 million states |
| `ctl_liveness` | `ExitEndsAll`, `RequestReachesModule` | replies always come |
| `sendfind_safety` | `Delivered`, `ArraysHoldReply`, `ReadsInReply`, `SendsAssigned`, `CountIsHonest`, and `SendFindEnds` under fairness | replies of up to two messages of three entries, one DRAM and two NVRAM nodes, 0.5 million states |
| `sendfind_switch` | violated: `SendsProcessedPages` | the same, one node of each kind |
| `memdata` | the five properties of the file | four seconds in steps of a quarter, one crash, counts of -1 to 2, 8.7 million states |

Bounds, and why they are enough.

- `MAX_PIDS = 2`, and three processes that want a place: the smallest list
  with a first and a last entry, a cursor before, at and after the entry that
  goes, and a request refused for want of room.  The fourth task shares the
  first one's number, once.  A task is used up by its life, so the process
  table is finite without a counter.  The proofs cover every other size.
  Three of the tasks run from the start (`Early`): a list that has to be filled
  first only repeats what binding does later, and `DeadDropped` and
  `RequestAnswered` can be checked on the same states.
- `Addr = {0, 1}` in `PidList`: the only distinction the code makes there is
  between address 0 and another.
- `LAST = 1`, two processes: the cursor can be at the first and at the last
  address of the first and of the last process, so that every leg is empty,
  partial and whole in some walk, and wrapping round is exercised.
- `MAX_N_FIND = 2`, `MAX_N_SWITCH = 3` and `Count = {0, 1, 3}`: lists that
  fill in the middle of a leg, at its end and not at all, a count that is cut,
  backups that are needed in part, halves that are shorter on either side.  A
  switch moves its DRAM pages to the left only when there are three NVRAM
  pages against one DRAM page and one backup, and therefore its bound is 3;
  with two pages in each tier, of which the one at the cursor can be visited
  twice, that happens and a larger bound adds nothing.  In the code
  `MAX_N_SWITCH` is about half of `MAX_N_FIND`; a walk uses one of the two
  only, by its mode, and never compares them, so each is as small as its own
  cases allow.
- Two pages in `PteBits`: what one is visited and accessed, the other has
  before or behind it; pages do not interact, which is why the symmetry is sound,
  and the properties are about one page each.  The proofs are for any set.
- `CONNS = 2` in `Ctl`: a client's BIND and UNBIND can both wait in the queue,
  which is the case in which their order matters.  With a third, one more
  request of the same client would wait behind them.
- `Typed = {c1}` and `unbind` in `ctl_safety`: stdin takes the client out of the
  list between two of its own requests, which is the case the property has to
  except.  A typed `bind` differs from it in the request only, and other numbers
  leave clients alone; the proofs are for every set of commands and numbers.
- `OneFull`: one tier full and the other empty, either way round; from these
  `memcheck_placement` takes each of its decisions, over its rounds.
- Messages of three entries, two of them: replies that fill less than one
  message, one, more than one, and the array to its last entry.  `MAX_N_FIND`
  is 5 then and a half of a switch has up to two pages.  Three pages, two of
  one process: batches of one and of several, and a process that comes back.
- One DRAM and two NVRAM nodes: a half that goes to one node and a half that
  is divided; any room on each, in every pass.
- `SECOND = 4`, `CLEAR = 1`, `LATE = 1`: a step is a quarter of a second, the
  least that is not nothing for `clear_interval`, and as much as either program
  is late.  The clock starts at second 2, so that the file of an earlier run has
  an mtime behind it, and ends four seconds later, after four rounds that sleep
  one period or two that sleep two: two rounds in a row without a new sample, a
  sample between a `stat` and its `fopen`, and a decision after a migration are
  all within it.  One crash is enough to leave a temporary file in each of its
  states.  The proofs have no end of time.
- `MCSwitched = {-1, 0, 1}`, `MCMoved = {0, 1, 2}`: the code tests the sum and
  the first for being above 0, and these give each combination of the two, with
  a sum of 0 from a round that moved a page.

Where deadlock is not checked: `pagewalk_*`, for the state `"oops"`;
`ctl_safety`, for lost replies, after which `recvmsg` never returns,
`comm_lock` is never released and the daemon stands still.  The repository
promises nothing else, so this is described here and is not a finding.
`sendfind_*` stop in the same place after a failed `nlmsg_new`, and when
`send_find` returns; `memdata` when its time is over.

Fairness.  `PidList`: weak fairness of the handler, which runs in the kernel to
its end.  `Ctl`: each thread that can go on does (weak fairness); a lock that
is free again and again is given in the end to a thread that waits for it
(strong fairness).  `memcheck_placement` sleeps a second in every round, with
no lock held, so the waiting thread finds the lock free; glibc does not
promise an order.  A client that has connected writes or closes, as `bind_uds`
does in a straight line.  Nobody has to type a command, to connect, or to run
a process.  `ctl_liveness` also assumes that the module replies.  `SendFind`:
weak fairness of the one thread there is; how much room a node has is never
assumed, so that `SendFindEnds` also shows that `do_switch` gives up when no
node has any.

## 5. Findings

Each is the counterexample of a run that checks what the repository's own text
says.

- `pidlist_refusal`: `refresh_pids` and `find_target_process` compare numbers.
  A number that is released and given out again between two requests keeps the
  entry of the dead process; the new process is refused as already managed,
  and is not.
- `pidlist_mixm`: MixM tests `n_pids > MAX_PIDS` and stores one entry beyond
  the memory it allocated.
- `pagewalk_saveaddr`: the address cursor is saved by the callback after the
  one that fills the list.  When the last PTE of a process fills it there is
  none, and the address stays that of an earlier walk, in another process even.
- `ptebits_mkold`: a page that the CLEAR callback has passed keeps its
  accessed bit, though the code calls `pte_mkold`.
- `sendfind_switch`: `do_switch` reads the addresses of DRAM pages from the same
  offset in every pass.  When there was room for some of them first and for more
  later, the first ones are sent again and the others never, under "Send
  processed pages to NVRAM".

Some hazards are described but have no text of the repository to contradict:
`clear_walk` on a process without an `mm`, the daemon that stands still after a
lost reply (`LostForEver`), `send` with a negative count, writes that an
unflushed TLB keeps out of the PTE, and rounds whose `n_migrated` a negative
number from `do_switch` brings to 0 or below.

## 6. Proofs

TLC checks small instances; the theorems hold for every value of the constants
that satisfies the named assumptions.

`PidListProofs` assumes `TaskAssumption` (numbers are positive, `NoTask` is no
task), `CapacityAssumption` (`MAX_PIDS` is positive and `BIND_LIMIT` is
`MAX_PIDS` or one more), `AddrAssumption` (0 is an address) and
`ModeAssumption`.  Any number of tasks may share a number in turn.

- `TypeCorrect`, `CursorsStayInRange`, `NumbersDistinct`, `RefreshIsComplete`,
  `UnbindIsComplete`: the invariants.
- `HybStaysWithinArray`: `WithinArray` if `BIND_LIMIT = MAX_PIDS`, the case
  of `ambix_hyb`.
- `CursorsFollowTasks`: the action property.
- `ListIsManagedSet`: the refinement.  Every step of the handler is a step of
  `ManagedSet` under the mapping or leaves it as it is.
- `RequestIsFinite`: a request costs at most `BIND_LIMIT + 5` steps.  The loop
  of `refresh_pids` looks at the same index again after a removal; what falls
  is the distance of the index from the end of the list.

None of these is inductive alone.  `IInv` adds what the steps of the handler
leave for each other: an empty list has both addresses at 0 (`EmptyListFresh`),
so that a first BIND starts a process from its beginning; a number recorded as
absent is still out of use (`AbsentNotInUse`); what the handler has tested
before each step (`HandlerState`), in particular that the task about to be
attached has a number that is in no entry; and that entries below the loop
index have been looked at (`RefreshProgress`).  Everything about the shift of
the array is in the lemma `Removal`, which says what `update_pid_list` does to
entries and cursors; each property's lemma then has one step per action.

`CtlProofs` assumes `CtlAssumption` only (no client is called `"other"`, which
stands for every other process whose number is typed): any clients, commands,
typed numbers, number of connections, usages, and with or without lost replies.

- `TypeCorrect`: with it, that there is never more than one reply on the socket.
- `OwnReply`: a thread receives the reply to its own request.
- `OwnCandidates`: a thread migrates what its own FIND found.
- `ClearThenFind`: no FIND of another thread between a CLEAR and its FIND.
- `FreshUsage`: decisions rest on usages of the round, or a toggle came in.

The inductive invariant `IInv` follows the two locks.  `CommExclusive`: a thread
between `sendmsg` and the end of `recvmsg` holds `comm_lock`, and the socket is
empty when nobody is about to receive.  `PlacementExclusive`: whoever has a FIND
under way, or is in memcheck's window, holds `placement_lock`, and the socket
thread never sends a FIND.  `CallersWait` ties `pc` to `call`: a thread with a
request under way is at the place that waits for it.  From these,
`FindersHoldPlacement`: two threads never have a FIND under way together, so
`Recvmsg` of one does not overwrite the `candidates` another is about to read.
`WindowOpen` carries the CLEAR from `sendmsg` through the wait to the FIND.
Frame lemmas (`StdinFrame`, `SocketFrame`, `MemcheckFrame`, `ClientFrame`,
`RequestFrame`) say once what a step of one thread leaves alone, and `Handoff`
what a step outside a request can do to any thread's call.  TLC checked both
invariants `IInv` on the instances of the safety runs before they were proved.

- `ClientsFollowed`: a client with no connection left that is not `overruled` is
  in the list exactly if its last request was a BIND.  It needs one thing more,
  `CInv`: connections are served from the oldest on (`FromOldest`), a client has
  at most one that it has not closed (`OneOpen`), and the requests that are
  still on their way lead, in their order, from what the list says to what the
  client asked last (`InOrder`), or the client is overruled (`CarriedOut`).
  The lemma `CarryOut` says what a request of any thread makes of one client:
  if it is not overruled afterwards, either nothing or what it asked for.
- `NoDeadlock`: whoever waits for a lock waits for a thread that can go on, or
  for one that waits for `comm_lock` while its holder can.  `LocksHeld` says at
  which places a thread can hold each lock; at none of them does it wait for
  `placement_lock`, and a thread with `comm_lock` waits for no lock.
- The exception in `NoDeadlock` is a lost reply.  `LostForEver`: the thread
  stays in `recvmsg` with `comm_lock`, whatever the others do.  `NoneLost`:
  while the module finds memory for its replies there is no such thread.
- `ExitIsFinite`: after `exit`, at most 73 steps of the threads are left.  Each
  step of a thread lowers `TurnsLeft`, and no step of anyone raises it: the
  socket thread finishes the connection it is reading and takes no other,
  `memcheck_placement` the round it is in, each with one call of `send_req` at
  a time.  `WInv` adds to `CInv` that a connection has one record at most and
  that stdin is done once `exit_sig` is set.

`NetlinkReplyProofs` assumes `PacketAssumption` (messages have room, an entry
has padding).  `ReplyDelivered` and `ArraysSuffice` follow from what is put,
received and copied after each message; the arithmetic of quotient and
remainder is in lemmas of its own.

`SendFindProofs` assumes that and `NodeAssumption`.  `ExchangesReply` shows
that a FIND's exchange is one of `NetlinkReply`, so that `OwnReplyDelivered`
and `ReplyFitsArrays` are two lines.  The rest is one invariant, `FInv`: the
reply in the array is that of `h` pages (`Reply`), the count is `h` (`Counted`),
every page that has been through a batch is accepted or in `e`
(`MissedCounted`, `OnePass`), and addresses go with processes as long as no
DRAM page is taken twice (`AddrAligned`, `SentHandled`).  From it
`LoopsStayInReply`, `HonestCount`, `AssignedAreSent` and `MigrationTypeCorrect`.
`resumed` is the exception that `sendfind_switch` shows to be needed.
`SendFindIsFinite` is why `SendFindEnds` holds: every step lowers a measure of
four numbers in lexicographic order, the stage of the call (`Stage`), the pages
without a node (`Left`), the halves still to come if no other page finds a node
(`Halves`), and the turns of the loop under way (`Turns`).  `do_switch` begins
another pass only if a half of this one found room for a page, and a page that
finds room lowers `Left`.

`MemdataProofs` assumes `TimeAssumption`: positive periods, `clear_interval`
below a second, any lateness, any integers from `do_switch`, any naturals from
`do_migration`.  `SamplesFinished`, `UsedOnce`, `NothingMissed`
and `SamplesSettled` hold for every lateness; `FreshSamples` for one below a
second, beyond which the sampler may miss two rounds.  The invariant follows the
file's mtime (`Ordered`), what the daemon remembers of it (`Used`), how long ago
each sample can have begun (`Punctual`) and when the daemon looks again
(`Settled`).

`PteBitsProofs`, for any pages: `PrioritiesAreHot` and
`PrioritiesAreUnwritten`.  A dirty bit that a CLEAR has passed was set since
(`DirtyIsWritten`), and in MixM one that was set since is still there unless
another FIND swept it, or a processor held the translation as dirty when the
CLEAR was at it (`WrittenIsDirty`).  For that the invariant says the same of pages
that a processor holds as dirty, written or not: within the window nothing but the
CLEAR leaves such a page with a clean PTE (`Cold`).

`PageWalkProofs` assumes `SizeAssumption`: any number of processes, pages,
bounds, counts and modes, and any bits the callbacks find.

- `TypeCorrect`; with it, that the handler's cursors and its separator are
  where the code expects them.
- `WalksAreWhole`: `Covered` says that what lies behind the walk has been
  visited, leg by leg; `Cycle` that the legs, one after the other, are every
  process from end to end, from any cursor.
- `CursorStaysWithFiller`: `Filling`, that a full list is noticed in the leg
  that filled it.
- `SwitchesAreBalanced`: `Sorted`, that each list holds pages of its tier; the
  lemmas `Joined`, `Halves` and `Paired` say what `Pairs` makes of them.
- `ShortRepliesAreWhole`: `Kept`.  The list and the backups together have
  reached what was asked for, or nothing has been left out.
- `RepliesAreBounded`: for counts that are not negative.
- `OnlyCursorTwice`: `Behind` says which leg covered each visited page, from
  which `Again` follows, that only the page at the cursor is visited twice;
  `Distinct` carries it to the lists and their merging.
- `RepliesFitDaemon`: a reply is at most `MAX_N_FIND` pages, or two halves of
  the same length with at most `MAX_N_SWITCH`.  That is `ReplyTo`, with which
  `SendFind` begins, and what `NetlinkReply` assumes of the length: the three
  models fit together for every instance.  `Sized` follows the number of pages
  wanted through both walks of a switch.  For counts that are not negative.
- `WalksEnd`: every step of a FIND goes on to the next stage, the next leg or
  the next PTE, of which there are finitely many.

`SwitchWalkProofs` assumes the same, and counts that are not negative: below
zero a walk does not stop at the end of the array, and there is nothing to
prove of an array that has been left.

- `MovesMakePairs`: `SwitchWalk` implements `PageWalk`.  `MInv` says for each
  loop which elements are final and which are still where the walks put them;
  the two ranges never overlap, because a move to the left goes upwards and a
  move to the right goes downwards.  At the end all elements are final, and
  those are the pairs.
- `WalksWithMoves`: what is proved of `PageWalk` therefore holds with the loops.
- `MovesStayInArray`: no move leaves the `2 * MAX_N_SWITCH + 1` elements, reads
  one that was not written or a backup that is not there.  It rests on `Sized`.

Only model-checked: the liveness properties `RequestAnswered`, `DeadDropped`,
`ExitEndsAll`, `RequestReachesModule` and `SendFindEnds`.  The prover handles
neither liveness under fairness nor ENABLED.  Of three of them the half that is
safety is proved: `RequestIsFinite`, `ExitIsFinite` and `SendFindIsFinite` give a
number, or several in order, that every step of the program lowers; what is left
to TLC is that, short of the end, there is a step and fairness takes it.
`DeadDropped` needs an endless run of requests, and `RequestReachesModule` that
a lock is given to the thread that waits for it, so that no measure falls in
every step.  Every other property of a passing run is proved.

## 7. What is not modelled

- The parsing of commands, lookups of node numbers, allocation at start, and
  output.
- Failures of `socket`, `bind`, `accept` and short reads or writes.
- `walk_page_range` holding `page_table_lock` instead of `mmap_lock` in
  `clear_walk`, and an `mm` freed under a walk: undefined behaviour of the
  kernel, described under "hazards".
- `bind.c` and `unbind.c` called with the number of another process: the effect
  is that of the command typed on stdin, which `Ctl` has.
- Page counts: `memcheck_placement` computes in floating point how many pages
  to ask for; `Ctl` has the mode it asks for and `PageWalk` any count.
- The thresholds of MixM and the command `ratio` that changes them: their effect
  is on the page counts.  MixM's `do_page_walk` lacks the test for a missing
  `mm`, so that an exited process stops the module there as in `clear_walk`.
- What PCM reads from the hardware, and the file `pcmEvents.txt` it also writes,
  which nothing in the repository reads.
- clock-dwf: the two files under `tests/clock-dwf` use constants and types
  (`MAX_PIDS`, `MAX_N_FIND`, `addr_info_t`, `req_t`, the modes) that their header
  does not define.  They do not compile as they stand, and what they do at their
  bounds depends on values the repository does not give.
- Vendored PCM, twice (`src/pcm-mod`, `src/ambix-MixM/pcm-mod`), and the test
  programs: no logic of Ambix.  PCM is nearly all of the repository's lines:
  Ambix itself is two programs of about a thousand lines each, copied once
  for MixM, and the client.
