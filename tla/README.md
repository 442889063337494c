# Formal models of QH-GPU

QH-GPU lets Linux kernel code use a GPU. A kernel module provides
`/dev/qhgpu` and exports calls to other kernel modules; a user-space daemon
(the connector) reads their requests from the device, runs OpenCL services on
them and writes the answers back. This directory holds TLA+ models of that
program, TLC configurations that check them on small instances, and TLAPS
proofs.

## 1. Inventory

| part | source | state | operations | interacts with |
|---|---|---|---|---|
| request device | `qhgpu/main.c` | slot table (`module_active_checker`, `module_arr`), lists `reqs` and `rtdreqs`, request items, sync call data | `qhgpu_alloc_request`, `qhgpu_mmap_id`, `qhgpu_return_mmap`, `qhgpu_free_request`, `qhgpu_call_sync`, `qhgpu_call_async`; handlers read, write, poll | kernel clients call it; the daemon enters its handlers; it calls clients' callbacks |
| connector | `qhgpu/connector.c` | lists `all_reqs`, `init_reqs`, `running_reqs`, `post_exec_reqs`, `done_reqs` | the three passes of `qc_main_loop`, `qc_get_next_service_request` | read, write and poll on the device; services' `launch` and `post` |
| memory pool | `qhgpu/main.c` | bitmap and `alloc_sz` under `gmpool_lock` | `set_gpu_mempool`, `qhgpu_vmalloc`, `qhgpu_vfree` | daemon sets it up, clients allocate |
| start-up and mmap | `qhgpu/main.c`, `qhgpu/connector.c` | `qhgpu_av`, `module_cnt`, `mmap_count`, `kmmap_addr_arr` | `qhgpu_open`, `QHGPU_IOC_SET_MMAP`, `qhgpu_mmap`, `vm_fault`, `qc_init`, `init_mmap`, `qc_finit` | must precede every client |
| service registry | `qhgpu/qhgpu_daemon.c` | list `services` | load, look up, register, unregister, unload | the connector looks services up by name |
| batch transfer | `main.c` ioctls, `batch_test_module/` | batch counters on both sides | `QHGPU_IOC_BATCH_H2D/D2H`, `batch_data_loader`, `batch_data_result` | service calls back into the client through the device |
| GPU firewall | `test_module/gpu_firewall/`, `kernel/gpu_firewall_Kernels.cl` | packet buffer, on/off and break flags, a thread, an OpenCL queue | toggle at launch, buffer, judge | kernel's packet queue, daemon |
| netfilter firewall | `test_module/netfilter_firewall/` | the module's address list, the program's packet buffer | hook, write to `/dev/drop`, buffer, judge | kernel's packet queue |
| CPU firewall | `test_module/cpu_firewall/` | a table | a look-up in a hook | packets |
| radix sort | `radix_sort*/`, `kernel/cl_radix_sort.cl` | key, permutation and histogram buffers, local memory | six kernels, launched in turn | a slot |
| breadth-first search | `bfs/`, `kernel/bfs_kernels.cl` | graph, masks, costs | rounds of two kernels | a slot |
| Floyd-Warshall | `floyd_warshall/`, `kernel/FloydWarshall_Kernels.cl` | a matrix per launch, an OpenCL queue | write, one pass per node, read, none blocking | a slot, the connector's retries |
| clients | `async_benchmark/`, `exit_module/`, others | their request and counters | the exported calls | request device |

What is hard here:

* kernel clients run concurrently with each other and with the daemon, and
  several pieces of shared state (the slot table, `module_arr`, a request's
  callback) are not locked;
* requests are matched to answers by *slot number*, which is not unique when
  a client queues several asynchronous calls or two clients share a slot;
* waits can be interrupted by signals while the request stays queued;
* failing services are retried for ever, unknown services are parked, a
  refused answer aborts the daemon, and a dead daemon cannot be replaced;
* start-up takes no lock while clients may already call, and may stop anywhere;
* work items of a kernel share memory, wait only at barriers, and two services
  use a command queue that may run out of order;
* several results of system and library calls are not tested, or tested
  against the wrong value, and the program goes on.

For each part, what makes it correct:

* device: no item and no wake-up is lost or duplicated, clients can count on
  their callbacks, a slot has one owner;
* connector: its lists stay consistent (they decide whether poll blocks),
  requests keep their order, working services are served whatever others do;
* the two together: an answer finds a request, the right client's, and the
  right item; synchronous calls return;
* memory pool: allocations are disjoint; a free releases only its own units;
* start-up: no client sees a slot before it is mapped; one daemon at a time;
* registry: a look-up never returns a service whose library is closed;
* batch transfer: each batch is loaded once, by its client's loader;
* firewall: each packet gets one verdict, from its own address;
* algorithms: the parallel result equals the sequential definition.

`PROJECT.json` lists the hazards one by one with the line where each bites.

## 2. Plan

| order | module | what | state |
|---|---|---|---|
| 1 | `QhgpuDevice` | slots, lists, calls, handlers | done, checked, proved |
| 2 | `Connector` | the daemon's loop over an arbitrary device | done, checked, proved |
| 3 | `QhgpuSystem` | both composed | done, checked, proved |
| 4 | `MemPool`, `BlockPool` | allocator over units with its unlocked read of `alloc_sz`, and what it promises | done, checked, proved |
| 5 | `Startup` | insmod, open, SET_MMAP, mmap, clients that come early, death and restart of daemons | done, checked, proved |
| 6 | `ServiceRegistry` | loading, look-up and unloading of service libraries | done, checked, proved |
| 7 | `BatchTransfer` | the batch service's loops over the ioctls | done, checked |
| 8 | `NfQueue`, `FirewallRules`, `GpuFirewall`, `NetfilterFirewall` | sessions, buffers, verdicts | done, checked, proved |
| 9 | `RadixSort`, `Bfs`, `FloydWarshall` | kernels as steps of work items, against reference definitions | done, checked; `Bfs` and `FloydWarshall` proved |
| 10 | `RequestService` | abstract specification (requests are accepted, executed, answered) implemented by `QhgpuSystem` while no slot is lost | left |

Theorems left: the absence of races in the sort and what its stages compute; and
that `QhgpuSystem` implements `RequestService`.

## 3. Modules and the code

### QhgpuDevice

| variable | code |
|---|---|
| `checker`, `moduleArr` | `module_active_checker`, `module_arr`, one entry per slot |
| `reqs`, `rtdreqs` | the lists of the same names; an element is a request item |
| `itemReq` | `item->r`, named by the client that owns the request; `NULL` is an item in its cache |
| `id`, `callback`, `done`, `scan` | `req->id`, `req->callback`, `data->done`, the loop variable of `qhgpu_mmap_id` |
| `pend` | what a counting callback such as `async_gpu_callback` still waits for |
| `pc`, `dpc`, `hand` | where each client is; which handler the daemon is in, and its item |
| `holds`, `cause` | history, read by no action: does the client own its slot, and which of the windows below occurred |

An action is what runs under one lock or between two points where another
thread can interfere. `qhgpu_read` is two steps, because `reqlock` is released
before `rtdreqlock` is taken; `qhgpu_write` is three (`find_request`, the
callback, freeing the item), because a client may run between them;
`qhgpu_mmap_id` is one step per slot tested and one for the assignment,
because it holds no lock. A synchronous call is a call step and a return step,
by answer or by signal. Initially any set of slots may look busy, because the
table is never cleared.

Each client has one request and sets its own callback before it calls, as all
modules under `test_module/` do; it frees the request or gives its slot back
only when its asynchronous answers have been counted.

The properties about slots hold until ownership is lost. The code has four
windows for that, and `cause` records them: `fallback` (no free slot,
`qhgpu_mmap_id` answers 0), `race` (two scans claim one slot), `unheld` (a
slot used or returned after `qhgpu_call_sync` has returned it) and
`interrupted` (a signal ended a wait whose request is still queued). The model
keeps going after them; `SlotExclusive` and its companions say that there is
no fifth window.

### Connector

The lists are sequences of service requests; `lpc` and `cur` say which pass of
`qc_main_loop` runs and where it is in its list. `list_for_each_safe` has
saved the successor, so unlinking the current element leaves `cur` at it. One
action is one operation on one request. `launch` runs in a thread that is
joined at once, so it is part of its action. Services differ only in what the
loop sees: they work, fail at will, do not exist, or are the exit request.
`AllocFails` stands for `malloc` returning null.

### QhgpuSystem

`QhgpuDevice` extended, `Connector` instantiated. Each system call joins an
action of both: poll and read (`DaemonRead`, `DaemonReadReturns`), write
(`DaemonWrite`, `DaemonWriteCallback`, `DaemonWriteReturns`, or
`DaemonWriteRefused`). While the daemon's thread is inside a handler its loop
does not move. `kureq` is what read copied to user space; it also records item
and client, which the daemon does not look at. `DaemonKilled` is any end of the
process outside a handler, the abort on a failed poll included. `failed` is
history: a launch or post has failed, after which answers no longer come in
the order of the requests.

### MemPool and BlockPool

`bitmap`, `allocSz` and `nunits` are the fields of `gmpool`; a pointer is the
index of its first unit. `qhgpu_vmalloc` runs under `gmpool_lock` and is one
step. `qhgpu_vfree` is two: `VfreeRead` reads `alloc_sz` and takes the early
returns without the lock, `VfreeClear` clears under it. `set_gpu_mempool`
leaves garbage in three quarters of `alloc_sz`, because its `memset` counts
bytes. A client has at most one block and frees it once; freeing twice is the
client's error. `want` is history: the units a client asked for.

`qhgpu_vmalloc(0)` returns the address of a unit that it leaves free. Freed
while another block begins there, it frees that block: `alien` records this,
and `PoolSound` and `SizeStaysRight` say that nothing else breaks the pool.

`BlockPool` is the promise: a client is given a run of units nobody owns, and
gives back all of it.

`PageEntry` and `KernelByte` model the mapping behind the addresses: which
byte of the daemon's memory a kernel address reaches, with `PAGE_SIZE` 512 as
`main.c` redefines it, pages of 4096 bytes, and a buffer that starts 16 bytes
into its page, as a large `malloc` does with glibc.

### Startup

| variable | code |
|---|---|
| `node`, `caches`, `av` | what `qhgpu_init` made of device and caches; `qhgpu_av` |
| `pool` | how far `set_gpu_mempool` came: `noPages`, `noBitmap`, ... are its error exits |
| `moduleCnt`, `checker`, `kmmap`, `pages`, `modules`, `mmapCount` | `module_cnt`, `module_active_checker`, `kmmap_addr_arr`, the private pages, `module_arr`, `mmap_count` |
| `dpc`, `fd`, `cnt`, `dmap` | where a daemon is, its descriptor, `service_cnt`, what its slots are mapped to, `MapFailed` where `mmap` failed |
| `cpc`, `cslot`, `caddr`, `cblock` | progress of a client and what it was given |
| `late` | history: a daemon was serving when the client came |

`QHGPU_IOC_SET_MMAP` is one step per table it assigns, since clients read them
meanwhile; a daemon may be killed between any two steps and be started again.
A client that follows a null pointer is `oops`, one that gets a block relative
to a null mapping has a `wild` one. None of the four `vmalloc`s is tested, so
each table may be null, until someone uses it. `init_mmap` compares the result
of `mmap` with `NULL`, and `main` ignores what `init_mmap` returns: a call that
fails on its way (`MmapFails`) leaves a slot of the daemon unmapped, is not
counted by `qhgpu_mmap`, and the following calls get the pages of the slots
before. `SameMemory` and `ClientsServed` say what is still true then.

### ServiceRegistry

The list `services` with, for each entry, its library and whether that is
still mapped; `refs` counts `dlopen`. `qc_unload_all_services` is one step per
turn of `list_for_each_safe`, with the entry it is at and the one it saved. A
walk that meets an entry of an unmapped library is `Faults`. The daemon calls
only the loading and the look-up; unloading is modelled as the interface
offers it.

### BatchTransfer

The two loops of `libsrv_batch.c` with the ioctls into the client's loader and
result functions. `BatchLaunch` gives the service the request that
`qc_init_service_request` makes, whose `batch_size` is 0: neither loop has a
turn, which is what the run `batch_daemon` shows. What the loops would do with
another number is modelled, because they are code of this repository, and is
claimed nowhere.

### NfQueue, FirewallRules, GpuFirewall, NetfilterFirewall

`NfQueue` is external: the kernel's packet queue as the services use it
through libnetfilter_queue. Ids are used again after a verdict.
`FirewallRules` has the table of addresses and the two ways of comparing: by
`inet_aton` in the CPU firewall, and as 32-bit words of a 64-bit table in the
GPU kernel. `GpuFirewall` has the client module, the toggle in the launch
(`offFlag`, `breakFlag`), the packet thread, the commands it enqueues and the
two steps of each work item of `packet_matching`. The thread may not exist,
because the result of `pthread_create` is ignored. OpenCL may refuse any of the
commands (one that lacks its buffer or argument is refused too), which
`run_gpu_firewall` does not test. The queue is out of order and no command names
another, so any may be the next to run; new buffers hold `NEWWORDS`. The
kernel's test knows the number of packets and not the 128 ints of the buffer: a
work item with an index behind them (`Overruns`) reads and writes other memory,
of which only the rules are told apart. `mishap` is history: the commands that
were refused, or overtaken by one that needs them, and whether a work item was
behind the buffer. `clFinish` is taken to wait. `NetfilterFirewall` has the
module's list and hook, and the program's buffer, whose elements long payloads
run over (`Copied`).

### RadixSort

`stage` is the kernel that the host waits for with `clFinish`. A step of a work
item is what it does between two barriers, and `At` lets it take the next one
only when its group has arrived. `log` records which cells the steps read and
write; `RaceFree` says that no two items conflict, which is also what justifies
steps of that size. The host's buffer exchange (`Swap`), the transposition and
the CPU sort of the client (`RxSort`) are modelled; timers are not. The client
gives its CPU sort other random keys than the GPU's and compares nothing;
`GpuSortIsCpuSort` says what the two would make of the same keys.

### Bfs

The client's graph, the list of numbers in the slot (`ConvertToExd`), its own
search, the loading of the list by the service, and rounds of `BFS_1` and
`BFS_2`. A work item of `BFS_1` takes one step per edge. `BOOLWIDTH` is the
width of the daemon's `bool`, which the kernel reads as bytes. `CAPACITY` bounds
the list; a graph that exceeds it ends in `wild`, which is followed no further.

A kernel that cannot be started, an argument that cannot be set and a failing
`clFinish` end the daemon (`ClFails`). A buffer that is not created and a
transfer that fails are only printed: the arrays of the kernels keep the
`GARBAGE` they hold, `d_over` is not cleared or not read, and the costs stay
what the host began with (`failed`). Copying the result reads `mmap_size` ints
out of an array of `NODES`: what lies behind is `Junk`, or ends the daemon.

### FloydWarshall and FloydWarshallProofs

The service enqueues write, passes and read without waiting. `Enqueue` may be
refused; then the launch fails and the connector launches again (`attempt`)
with a new buffer, while the old commands are still in `queue`. A work item
tests in one step and writes in another. The code asks for an out-of-order queue
and names no event to wait for, so any command may be the next to start, of
whichever launch. One thing is not followed: in the model a command ends before
another starts. `before`, `lost` and `overtaken` are history: the matrix before
a pass, the launches whose write was refused or came after their read, and how
often a command went ahead of an earlier one.

### SeqLemmas and the modules named ...Proofs

`SeqLemmas` says what the list operations do to the elements of a list without
repetition, to their number and to their order (`Before`), what is where in a
list of lists that are put one after the other, that every list can be sorted,
and states induction and recursion for formulas about sets. Each `...Proofs`
module extends the module it is about and holds the proofs of section 5:
`QhgpuDeviceProofs`, `ConnectorProofs`, `QhgpuSystemProofs`, `MemPoolProofs`,
`StartupProofs` (start-up and registry), `FloydWarshallProofs`, and
`ServiceProofs` for the services that share no names: both firewalls (the
netfilter one as an instance), and the search.

### MC modules

`MCStartup`, `MCServices` and `MCFirewalls` each hold several specifications
that share no state. The variable `scene`, chosen at the beginning, says which
one a behaviour is of; the others stand still. Nothing is lost by that: no
property speaks of two of them, and steps of components that share nothing
commute. Their properties are the modules' own, joined by component.
`MCServices` extends `Bfs`, so that `SearchExact` is the very definition that
`ServiceProofs` is about.

Definitions whose comment begins with "Mutant" are used by no specification.
They are faulty variants that show which property notices the fault.

## 4. What is checked

| run | instance | shows |
|---|---|---|
| `device` | 2 clients, 2 items, 2 slots | all properties of `QhgpuDevice`, under a daemon that reads and answers in any order, and no deadlock |
| `connector` | 3 service requests, one of each kind of service | `ListsPartitionAll`, `PipelineKeepsOrder`, `OkEventuallyAnswered` |
| `system_owned` | 2 clients, one of a failing service, 2 slots, 2 items | `AnswerReachesItsClient`, `ServiceRunsInOwnSlot`, `SyncCallReturns` |
| `system_shared` | 2 clients in one slot, one of a failing service, signals, 3 items, memory for 2 requests in the daemon | `SysTypeOK` (the connector's and the device's types included), `EveryReadIsOwed`, `AnswerFindsRequest`, `AnswerReachesItsItem` |
| `system_no_service` | one client asks for an unknown service | `NoServiceAnswered` is violated |
| `pool` | 3 clients, 4 units (the code's sizes), requests of 0 to 3 units, garbage 0 or 2 | `PoolSound`, `SizeStaysRight`, `BlockInBuffer`, `PoolIsBlockPool` |
| `pool_memory` | 2 clients with a unit each | `BlocksShareNoMemory` is violated |
| `startup` | 2 daemons, 1 client, 0, 2 or 3 service files, any allocation and any `mmap` may fail; and a registry of 4 libraries, three of one name, one without and one with a failing `finit_service` | `SameMemory`, `ClientsServed`, `OneDaemon`, `StartEnds`; `RegistryConsistent` |
| `services` | the sort with 2 groups of 2 items and 1 bit, with 2 bits a pass, and with `TRANSPOSE`; all graphs of 4 nodes, one kind of transfer fails | `RaceFree`, `StagesExact`, `SortReachesClient`; `SearchExact`; `ServicesEnd` |
| `batch_daemon` | a list of 4 keys, `batch_size` as this daemon leaves it | `EveryBatchReturned` is violated |
| `firewalls` | 3 packets, sessions, one address fits on the device and a work item is behind it; 2 packets of 4 addresses, two work items per word; in both commands in any order, one may be refused; payloads that run over two elements | `PacketsHeldOnce`, `VerdictsRight`, `PacketsJudged`, `LaunchReturns` |
| `floyd` | graphs of 3 nodes with at most one pair unconnected, 2 launches, one refused command, one command that overtakes | `PassExact`, `ResultIsShortest` |

Joined properties, with the parts as their modules define them:
`RegistryConsistent` is `WalkStaysOnList` (the entry that
`list_for_each_safe` saved is still on the list), `OpenWhileListed` (look-ups
meet mapped libraries only, until a `finit_service` fails) and
`SlotPerService`. `StagesExact` is `ScanIsPrefixSum` and `PassesSort`;
`SortReachesClient` includes `GpuSortIsCpuSort` for the shorter lists.
`SearchExact` is `CostsAreDistances` and
`ComparePasses`; `ServicesEnd` is the end of the sort and of the
search. `PacketsHeldOnce` is `EveryPacketHeldOnce` and `IdsIntact`,
`VerdictsRight` is `BadNeverAccepted` and `SingleVisitExact`, and
`PacketsJudged` speaks of both firewalls. Each also contains its components'
type invariants. `RegistryConsistent`, `PacketsHeldOnce` and `VerdictsRight` are
defined in the components' modules under the same names; the run joins their
instances.

Bounds. The items bound how many calls are outstanding (an allocation of an
item waits for a free one, so the counters are bounded too), the service
requests how many the daemon holds. Two clients and two slots are the smallest
numbers with which slots can be exclusive, shared by fallback, or raced for;
one slot makes every second client fall back. Three items let one client have
two calls queued around another client's, which is what a wrong match of
answers needs. The constraint `WhileOwned` follows a behaviour up to the first
lost slot; the properties of that run claim nothing afterwards, and since
`cause` only grows, cutting there hides no behaviour they speak of. It goes a
little further after an interrupted wait, far enough for a refused answer.
`FewAfterSignal` follows behaviours after an interrupted wait as long as two
items are in use: the orphaned one and one more, which may match its answer.
Three clients in a pool of four units can leave holes, run out of units, and
put two blocks and a block of zero bytes next to each other. Two daemons race,
and one can follow another's death. `MAXENTRIES` 5 lets a library be loaded a
second time after four. `QUEUEMAX` and the buffers are such that either fills
first; `FILTERMAX` 1 is enough for a full list. Two groups of two items have
neighbours inside a group and across groups; three keys do not divide among
four items. `CAPACITY` lies between the lists of four and five edges, so both
cases occur. `GARBAGE` of the search is 0 and a number that is no cost, and
`FAILURES` 1 lets each kind of transfer fail by itself. In the first scene of the
firewall garbage is 0, which lets everybody through, or a bad address; in both
`REFUSALS` is 1. The second scene has addresses compared and not compared and the two that look
like something else, and no end of a session; the first has all sessions, and of
addresses one on the list and one not on it. Three nodes are the fewest with a path that a pass improves through a
middle node; `ATTEMPTS` 2 and `FAILURES` 1 give one launch whose commands run
into the next; `OVERTAKES` 1 lets each command be the one that goes ahead, of any
earlier ones, and `MISSING` 1 is enough for a path through a middle node. Symmetry is used for items, for service requests, and for
clients that are interchangeable, and never with a liveness property.

Fairness. `Connector` and `QhgpuSystem` assume weak fairness of the daemon's
next step: it is one thread, it blocks only in poll with nothing listed (and
then its step is not enabled), and the scheduler runs it otherwise.
`QhgpuSystem` also assumes that a client whose `done` flag is set leaves its
wait, which is what `wake_up_interruptible` after `done = 1` gives. Nothing is
assumed about services succeeding: a failing service may fail for ever.
`Startup` assumes that a running daemon goes on, and nothing of who starts one.
The services assume that the host, which waits in `clFinish`, and the work
items of a kernel that was enqueued take steps; no item is favoured. The
firewalls assume that daemon, thread and GPU run and that traffic goes on,
since `recv` has no timeout and only a packet ends it; for the netfilter
firewall the assumption about traffic is strong, because the hook may be
unloaded and loaded between packets.

Deadlock is checked in `device` and for the pool. The other specifications really may stop:
the daemon may exit or be killed, or wait in poll with every item of an
unanswerable request in use, and services and firewalls end.

Results worth knowing:

* Answers are matched by slot number, and with shared slots or several queued
  calls this is right only because the connector answers in the order in which
  it read (`AnswerReachesItsItem`). With one failing service in a shared slot
  the match goes to another request; the answer still finds *a* request
  (`AnswerFindsRequest`), so clients are woken for one another's results.
* A signal during a wait followed by `qhgpu_free_request` and a new allocation
  can make the daemon write an answer that matches nothing, on which it
  aborts: `DaemonWriteRefused` is reached in `system_owned` after a signal, and
  without one never (`AnswerFindsRequest`).
* A request for an unknown service goes to `done_reqs`, which nothing reads.
  The client sleeps for ever, although `main.c` and `qhgpu.h` have an error
  code for it. This is the run `system_no_service`.
* `main.c` redefines `PAGE_SIZE` as 512, so each page of the pool is entered
  about eight times in a row into the table that `vmap` maps. Blocks that are
  disjoint in the bitmap share memory (`pool_memory`), and a kernel address
  does not reach the byte that `fill_ku_request` names to the daemon.
* The unlocked read in `qhgpu_vfree` and the uncleared `alloc_sz` are harmless
  for clients that free once: an entry is written before its pointer exists.
* `qhgpu_av` is not restored when a daemon dies. This keeps out a second
  daemon for good, and must: `mmap_count` and the tables would not fit it
  (`OneDaemon`). A client that comes before a daemon serves, as when its module
  is inserted first, may follow a null pointer; one that comes later does so only
  if one of the tables was not given (`ClientsServed`).
* A failed `mmap` goes unnoticed: the daemon serves with a slot it cannot reach,
  and each later slot of the daemon is the clients' slot before (`SameMemory`).
  The clients' last entries stay what `vmalloc` left (`ClientsServed`).
* `qc_init_service_request` does not copy `batch_size`: the batch service loads
  and returns no batch (run `batch_daemon`).
* `break_flag` of the GPU firewall is never reset: the thread of a second
  session ends at its first packet, and only the first session's packets are
  sure to be judged (`PacketsJudged`). When `pthread_create` failed nobody reads
  the queue, and when the firewall is switched off a thread that never was is
  joined.
* The kernel of the GPU firewall reads 64-bit entries as 32-bit words: half of
  the table is not compared, address 0 equals a high word, and address 1 is
  dropped because it looks like the mark of a match. Indices overlap
  between rows of work items, so a word may be handled twice. An address the
  kernel compares is nevertheless never let through when packets and rules were
  on the device before the kernel ran and the read followed the packets, even if
  the kernel or the read was refused, or the read went ahead of the kernel: an
  address that nobody touched is not 0, so its packet is dropped.
  When a write is refused or late, or a work item is behind the 128 ints of the
  buffer (with more packets in it than that), nothing is promised
  (`VerdictsRight`); packets behind the end of the buffer keep their addresses and
  are dropped.
* The netfilter firewall's list of addresses is never consulted: every verdict
  is NF_ACCEPT.
* The masks of the search are four bytes wide for the host and one byte for the
  kernel; this works only because the source is node 0. The list of a graph
  with too many edges is answered with size -1, which the client uses. When
  OpenCL fails to transfer an array the service reports success all the same; a
  wrong cost can come only from arrays that were not written, and d_over or
  costs that were not read make costs missing (`SearchExact`).
* `FloydWarshall` asks for an out-of-order queue without ordering its commands:
  where one overtakes another the slot may hold paths longer than the shortest,
  though never shorter ones. When none does the result is right, after failed
  launches too. A refused write, or a read that came before its write, may bring
  garbage to the slot (`lost` in `ResultIsShortest`).

## 5. What is proved

The device, for any sets of clients and items and any positive number of slots
(`DeviceAssumption`), about `DevSpec`, whose daemon is unconstrained. The
proofs are in `QhgpuDeviceProofs`; each theorem has the property of the same
meaning in the `device` run.

| theorem | inductive invariant | why it is needed |
|---|---|---|
| `TypeCorrect` | `TypeInv` | a slot is claimed only below `ModuleCnt`; a handler in progress has an item |
| `ItemsConserved`, `WakeupNeverLost` | `WakeInv` | an answer sets `done` only if the callback in place is `sync_callback`, which is so exactly while the client waits (`CallbackInv`) |
| `SlotsExclusive`, `LoadersAreCallers` | `SlotInv` | an owned slot is marked busy, so a clean claim cannot hit it (`Owned`) |
| `AnswersCountedExactly`, `ServedSlotsHeld` | `CountInv` | a slot is given back when nothing is due, and only exact counting turns that into "nothing is in flight" |

The argument for items is stated once, as what each kind of step does to
`InFlight` (`EnqueueEffect`, `MoveEffect`, `CallbackEffect`, `FinishEffect`,
`QuietEffect`), and the invariants are then shown step by step from those
lemmas. `CountInv` uses the cardinality facts of `FiniteSetTheorems`.

`ConnectorProofs`, for any requests, service requests and services
(`ConnectorAssumption` of the module):

| theorem | inductive invariant | why it is needed |
|---|---|---|
| `ConnTypeCorrect`, `ListsPartition` | `ConnInv`: types, each list and each pair of lists without common elements, and the pass over `post_exec_reqs` at its head | `qc_send_response` removes the element it is at; that the answer belongs to it needs the pass to stay at the first one |
| `OrderKept` | `OrderInv`: `ConnInv`; a request that a pass has left behind is of a service that failed; `Ahead` implies `Before` | the order in which requests *will* be moved on depends on where the pass is (`Ahead`), not only on the lists: one that was launched after a failed one stands behind it in the next list |

`QhgpuSystemProofs`, for any clients, items, slots, services and signals. The
steps of the daemon are not proved again: `CP`, an instance of
`ConnectorProofs` with the device's requests for the connector's, supplies its
lemmas about single steps.

| theorem | inductive invariant | why it is needed |
|---|---|---|
| `SysTypeCorrect`, `ReadsOwed` | `SysInv`: the device's and the connector's invariants and `HandlerInv` | which handler the thread is in is known from where the loop is, so that a write in progress answers the first of `post_exec_reqs` |
| `AnswersFindRequests` | with `IdInv` | counted slot by slot: the device has an item for each answer owed in that slot. Neither list order nor identity of items survives shared slots and failures, but the numbers do |
| `AnswersReachClients`, `ServicesInOwnSlots` | with `OwnInv` | the clients the daemon works for own their slots, and `SlotExclusive` makes the owner unique |
| `AnswersReachItems` | with `FifoInv` | while nothing failed, `all_reqs` and `rtdreqs` list the same items in the same order, up to the one a write has taken |
| `SystemImplementsDevice`, `DeviceGuarantees` | `SysInv` | each step is one of the device's or leaves it alone, so all theorems about `DevSpec` hold of the system |

`AnswersReachItems` could not be proved of the first version of
`AnswerReachesItsItem`: a request for an unknown service stays in `rtdreqs`
after the daemon parked it, and the answer of a later one with the same slot
finds it. The property says so now (`doneReqs = <<>>`).
`PipelineKeepsOrder` is stated by positions in the lists, which is what it meant
and what the lemmas about `Before` can use.

`MemPoolProofs`, for any clients, request sizes and garbage and any sizes that
make at least one unit of whole pages (`PoolAssumption`; `main.c` has 51200 and
512):

| theorem | inductive invariant | why it is needed |
|---|---|---|
| `PoolTypeCorrect`, `BlocksInBuffer` | `TypeInv`, with `UnitsFit` | the units that two divisions leave, times their size, are at most the buffer |
| `PoolIsSound`, `SizesStayRight` | `PoolInv`: types, `Placed`, and while `alien` is false `Sized`, `Apart`, `Marked` | a free clears the units that `alloc_sz` says; that these are its own needs the entry of every block with units to be its size, which in turn needs blocks to be disjoint, so that no allocation overwrites it |
| `PoolStepsAreBlockSteps` | `PoolInv` | up to the first `alien` free, each step is one of `BlockPool` |
| `PoolImplementsBlocks` | `RefInv`: `PoolInv` and `Positive` | assumes that nobody asks for zero bytes; then no block is empty and `alien` never occurs |

`StartupProofs`, for any clients, finitely many daemons and any numbers of
service files (`StartupAssumption`, which otherwise only says that null, garbage
and pages are different things), and for any libraries and names
(`RegistryAssumption`):

| theorem | inductive invariant | why it is needed |
|---|---|---|
| `StartTypeCorrect` | `StartInv`, of it `CounterInv` | `qhgpu_av` is 1, or minus the daemons that were refused and have not given their count back; so it never becomes 1 again |
| `MemoryShared`, `OnlyOneDaemon` | `StartInv`, of it `HolderInv` and `Stage` | what the tables hold is known from how far the one holder of the device came, and the pages of its slots from how many `mmap` calls succeeded before; a second one would need `mmap_count` 0 |
| `ClientsAreServed` | `StartInv`, of it `LateInv`, and `EarlyInv` | once a daemon has served the tables are `Settled`: no step may change them, although the daemon may die. Before that each entry of a table is garbage or the page of its number (`TableInv`), whatever failed |
| `RegistryStaysConsistent` | `RegistryInv`: `ListInv`, `WalkInv`, `OpenWhileListed` | `finit_service` unregisters by name, at or before the entry that is unloaded; numbers in rising order show that the saved entry is behind it, and as long as none failed the walk is at the first entry, so that what is unregistered is what is closed |

`ServiceProofs`, for any packets and addresses, sizes of queue, buffers and
device, and any grid and stride (`NfQueueAssumption`, `GpuFirewallAssumption`,
`BadAddressAssumption`, `NetfilterAssumption`: the addresses 0 and 1 are not on
the list; as many elements behind the last one collected as a payload can reach):

| theorem | inductive invariant | why it is needed |
|---|---|---|
| `GpuHoldsPacketsOnce` | `FirewallInv`: types, `HeldInv`, `SessionInv` | a session begins with an empty kernel queue only because the one before was joined and its queue destroyed |
| `GpuVerdictsRight` | with `JudgedInv`: `CommandsInv`, `VerdictInv`; of it `SoundInv` | for any order of commands and any refused ones. While `mishap` has no write and no overrun the packets' words are `Sound`: an address that is compared is there or is the mark. Per word (`WordInv`) a bad address stays until the first of its work items has seen it and is the mark from then on, which no other item takes away; with one item the word is known at each of its steps |
| `NetfilterHoldsPacketsOnce` | `NetfilterInv` | the ids before the index are different and untouched, whatever the ones behind have become |

These are the `PacketsHeldOnce` and `VerdictsRight` of `GpuFirewall` and
`NetfilterFirewall`, which the run's invariants of these names join, one
instance each.

The proof of `GpuVerdictsRight` failed on address 1: it is never found, and the
second test of the kernel takes it for a match and keeps it, so the packet is
dropped although the CPU firewall accepts it. No instance had that address.
`SingleVisitExact` now excludes it, and the `firewalls` run has it.

`FloydWarshallProofs`, for any size of the matrix, any weights, garbage, number
of launches and refusals (`FwAssumption`):

| theorem | inductive invariant | why it is needed |
|---|---|---|
| `PassesAreExact` | `PassInv`: `DeviceTypeOK`, `RefusedIsRetried`, `PassExact`, `TempExact` | an item writes the sum it computed when it tested (`TempExact`), from entries that others may have written since. `RowColumnStable` shows that they cannot matter: entries are not negative, so pass k changes neither row nor column k |
| `ResultsAreShortest` | with `LaunchInv`: `QueueFlow`, `HostFlow`, `LaunchReached`, `LengthsEverywhere`, `ClientAgrees` | which commands of which launch are still queued, and how far each buffer has come with it; every matrix anywhere holds lengths of paths of the client's graph, which is all that is left of a launch whose commands overtook each other |

The argument of `ResultsAreShortest` has three parts. First, whatever passes are
made over the weights, an entry is no longer than the edge, and the last edge
of a way that is no longer than the entry can be told (`Lengths`); after pass k
the matrix is `Closed` for the nodes up to k (`PassCloses`), because row and
column of an earlier node obey the same inequality. Second, a matrix with
`Lengths` that is closed for all nodes is the shortest one (`ClosedIsShortest`):
it is below each matrix of `ShortestWithin` by induction over the edges, and
above the last one by going back along last edges, which ends because fewer
nodes are nearer to the start each time (`LengthIsReached`, `NearerCount`).
Third, the client's three loops, which change one entry after the other in
place, are cut into passes (`CpuPass`) and so give the same matrix
(`CpuIsShortest`).

`ServiceProofs` also, for any number of nodes, any edges, any capacity of the
slot, any width of the daemon's `bool`, any contents of new buffers and any
failing transfers (`BfsAssumption`):

| theorem | inductive invariant | why it is needed |
|---|---|---|
| `SearchIsExact` | `WholeInv`: `BfsTypeOK`, `DataInv`, and once the arrays were written `SearchInv`: in round r `RoundInv(r)` with one formula for each of its three places | while the work items of `BFS_1` run, the costs are those of round r but for the nodes `Reached` so far, and these get r + 1 from whoever reaches them first or again: two items that write the same cell write the same value |

`GraphRead` shows that the service reads from the slot the graph that the client
made: the i-th edge of a node is where the edges of the nodes before it end, in
a list of lists of different lengths (`FlattenPlaces`). That the client's search
stops after at most `NODES` rounds, and that the distances do not change
afterwards (`WithinFixed`), follows by counting: each round that finds something
makes `Within` larger.

## 6. Only model-checked, and not modelled

Only model-checked:

* liveness (`OkEventuallyAnswered`, `SyncCallReturns`, `StartEnds`,
  `ServicesEnd`, `PacketsJudged`, `LaunchReturns`): the prover handles neither
  fairness nor `ENABLED`;
* `RaceFree`, `StagesExact` and `SortReachesClient` of the sort. They hang
  together: that two items of `reorder` write different cells is known only
  from the histogram being a prefix sum, and that from the two sweeps of the
  scan, whose indices are powers of two, about which the provers know nothing.

The library's induction theorems take a predicate as a parameter, which the
provers here cannot instantiate. Where a proof needs induction, as for the
recursive functions `CpuTurns`, `ShortestWithin`, `CpuRounds` and `Within`, it
uses lemmas of `SeqLemmas` that speak of sets instead: a set of numbers that has
0, and with each number the next, has all (`SetInduction`, `BoundedInduction`),
and a recursive definition over them has a solution (`RecursionExists`).

Not modelled:

* `errcode`, which no live code sends or reads; `QHGPU_TERMINATED`, which no
  code sets;
* freed memory and overwritten neighbours: the window in `sync_callback` between
  setting `done` and using the wait queue (`main.c:838`), the pointer that
  `pthread_join` stores in an int (`connector.c:758`), and the pages that the
  search's client frees although the slot still uses them (`bfs_module.c:329`);
* what follows when the search's client takes -1 for a size
  (`bfs_module.c:117`);
* `radix_sort2`, a copy of the sort whose kernel file is not in the repository;
* errors of OpenCL beyond a failed set-up, the refused commands of `FloydWarshall`
  and of the GPU firewall, and the failures of the search: the sort asserts on
  them; a `clFinish` that fails in `run_gpu_firewall` would be ignored;
* two commands of the Floyd-Warshall queue that overlap: that a command may start
  before an earlier one is modelled, and claims of exactness assume that none
  does;
* the fixed sequences of calls of `async_benchmark`, `exit_module` and the mmap
  demo, whose calls are client actions of `QhgpuDevice`, and their payloads;
* timers, profiling and logging; `cl_helper.h` and `test_module.c`, which are
  commented out as a whole.
