# TSM-VM in TLA+

TSM-VM is a server that talks to smart cards through agents. A script tells it
what to do with a card; a pool of threads interprets the scripts, builds the
APDUs and hands them to the agents. This directory models that server, checks
the models with TLC and proves theorems about them with TLAPS. All paths are
relative to the repository (`src/...`).

## 1. The system

| Component | Source | State | Operations |
|---|---|---|---|
| VM thread pool | `tsm_vm.c`, `tsm_vm.h` | `sem_vm`, `sem_router_w`, locals of `tsm_vm` | take a packet, parse it, run one byte code, write back, bootstrap |
| CCB | `tsm_ccb.c` | `ccb_list`; in each CCB `PC`, `write_back`, `bootstrap`, `session`, `cmdQ`, `apduQ`, script, byte codes, `bre` | create, get, set |
| GP byte codes | `bc_gp.c` | the CCB's queues and flags | `gp_select`, `gp_init_update`, ..., `gp_msg_macing` |
| Response byte codes | `bc_rsp.c` | `PC` | conditional jumps, the jump back |
| Data byte codes | `bc_data.c` | the CCB's `bre` | set, extract, concatenate, complement |
| Router, receiving | `tsm_router.c` | `rpkg_list`, `ppkg_list`, `agent_list` | accept, read, create a CCB, register an agent, dispatch data, drop a connection |
| Router, sending | `tsm_router.c` | `wpkg_list`, `agent_list` | take an answer, find the agent's descriptor, write |
| Timers | `common/fm_timer.c` | `tl`: two lists, two counters, semaphore; `timerID` | init, add, rearm, del, tick, expiry thread |
| Packet queues | `common/fm_skbuff.c` | ring of `next`/`prev`, `qlen`, lock | put and take at both ends, unlink, purge |
| Packet buffers | `common/fm_skbuff.c` | `head`, `data`, `tail`, `end`, `len` | put, push, pull, reserve, trim |
| Hash table | `common/fm_hashtable.c` | chains, size, count | put, get, remove, clean, iterate; grows in a put |
| Script loader | `tsm_scloader.c` | a script's array of code entries | load line by line, grow |
| Byte-code loader | `tsm_bcloader.c` | list of byte-code sets | read a header, open the library, look for its symbols |
| Configuration | `tsm_cfg.c` | one record | read once |
| Bytes and utilities | `common/fm_Bytes.c`, `common/fm_Util.c` | none | copies, conversions, searches |
| Lists, I/O wrappers | `common/fm_List.*`, `fm_Monitor.c`, `fm_socket.c`, `fm_Log.c`, `fm_Mem.c` | none of their own | one call each |
| Start-up | `tsm_main.c` | `tsm_dev` | load a script and print it; the daemon's `main` is inside `#if 0` (137-192) |
| Agents | `agent/*` | programs of their own | unfinished; they produce the router's input |

How they interact. The receiving thread puts a packet into `rpkg_list` and then
posts `sem_vm`; a VM thread waits for the semaphore, takes a packet, finds the
CCB of the packet's session under the lock of `ccb_list`, and from there on
works on the CCB with no lock at all. A byte code leaves APDUs in `cmdQ` or
`apduQ` and a flag in the CCB. With `write_back` the VM thread frees the
packet, packs `cmdQ` in an answer, queues it in `wpkg_list` and posts
`sem_router_w`; with `bootstrap` it puts the packet back in `rpkg_list`. The
sending thread waits for `sem_router_w`, takes an answer and looks its agent up
in `agent_list`, which the receiving thread changes when an agent registers and
when a connection ends. A create message makes the receiving thread load a
script and libraries, for the CCB it adds to `ccb_list`. The timers have a thread
and a lock of their own.

What is hard here: threads that meet in one CCB; a packet that returns to the
queue it came from; locals that keep their value from one packet to the next;
semaphores that have to agree with queues protected by other locks; counters
read after the lock is given back; pointer surgery on shared rings; nodes freed
by one thread and known to another; locks taken twice by one thread; arrays that
are full; loads that fail half-way. `PROJECT.json` lists each hazard at its line
with the property that covers it, or why none does.

What makes each component correct:

* pool: a token for each packet, each packet with one thread and none of them freed
  memory, the fragments and the CCB a byte code gets are those of its packet, queued
  packets are taken;
* timers: counters agree with lists, lists hold live nodes, timers expire in
  time, whatever timeout was asked for, no wake-up is lost;
* queues: they are FIFOs in spite of being rings, nothing is lost or doubled;
* buffers: they are sequences of bytes, and nothing is read or stored outside;
* hash table: it is a map, whatever was put, removed and moved;
* router: a post for each answer, a listed agent's descriptor is its connection,
  the lock of the list is held by who walks it;
* loaders: a script has the entries its file asks for, a library is listed whole
  or leaves nothing behind that is found later;
* data byte codes: a value assigned to a name stays the name's until another is
  (which it is only while names differ in length: section 4).

## 2. Modules

| Module | Models | Kind |
|---|---|---|
| `TsmVm` | `tsm_vm`, the CCBs and byte codes as far as they touch shared state, the receiving thread up to `rpkg_list` | specification |
| `MCTsmVm` | scripts and sets for TLC | model |
| `TsmVmProofs` | theorems about `TsmVm` | proofs |
| `TsmRouter` | the two threads of `tsm_router.c` over sockets, epoll, the list of agents and the queue of answers | specification |
| `MCTsmRouter` | sets for TLC | model |
| `TsmRouterProofs` | theorems about `TsmRouter` | proofs |
| `ScLoader` | `tsm_scloader.c`, with the arrays of `fm_Bytes.c` and `fm_Util.c` it uses | component |
| `BcLoader` | `tsm_bcloader.c` | component |
| `CcbCreate` | `ccb_create_ccb` and the `main` that is built; composes the two loaders with their callers | component |
| `BcData` | what each data byte code of `bc_data.c` makes of the table of a CCB | operators |
| `TsmScript` | `CcbCreate` and a VM thread that runs loaded data byte codes | specification |
| `MCTsmScript` | scripts, libraries and messages for TLC | model |
| `TsmScriptProofs` | theorems about the loaders, their callers and the table of a running script | proofs |
| `FmTimer` | `fm_timer.c` | specification |
| `MCFmTimer` | sets for TLC | model |
| `FmTimerProofs` | theorems about `FmTimer` | proofs |
| `SkbFifo` | what a packet queue promises its users | abstract specification |
| `SkbQueue` | `fm_skbuff.c`'s ring, store by store; implements `SkbFifo` | specification |
| `MCSkbQueue` | sets for TLC | model |
| `SkbQueueProofs` | theorems about `SkbQueue`, the refinement among them | proofs |
| `SkbFifoProofs` | a theorem about `SkbFifo` | proofs |
| `SkbBytes` | what the buffer of a packet promises: bytes with room on both sides | abstract specification |
| `SkbBuffer` | `skb_reserve`, `skb_put`, `skb_push`, `skb_pull`, `skb_trim` on `data`, `tail`, `len`; implements `SkbBytes` | specification |
| `MCSkbBuffer` | sets for TLC | model |
| `SkbBufferProofs` | theorems about `SkbBuffer`, the refinement among them | proofs |
| `NameMap` | what the names of a CCB promise the byte codes | abstract specification |
| `HashTable` | `fm_hashtable.c`, pointer by pointer; implements `NameMap` | specification |
| `MCHashTable` | sets and a hash function for TLC | model |
| `HashTableProofs` | theorems about `HashTable`, the refinement among them | proofs |

Correspondence to the code: an action has the name of the function where a
function is one step, and the name of the function with the step where it is
several (`VmWait`, `VmDequeue`, ... for the lines of `tsm_vm`; `AddFill`,
`AddStamp`, `AddLink`, `AddReturn` for `fmtimer_add`). Variables have the names
of the fields they stand for. `PROJECT.json` maps every definition to its lines.

### Conventions

* **Grain.** One action is one access to state that another thread can touch. A
  critical section is one action as long as everybody who touches the same state
  takes the same lock; the flags of a CCB have none, so every access to one is an
  action. `cmdQ` and `apduQ` have a lock for each put and take, and none for the walks
  of `_gp_padding_sw`, `padding_tagA0` and `padding_tagA1`: a purge is a step for each
  packet it takes, a builder one for each APDU it queues, a walk one for each APDU it
  comes to. A walk keeps `pos` and `n` from one step to the next (`work`), and either
  may be freed under it. In `TsmRouter` the lock of `agent_list` is a variable, as the
  code takes it twice. `SkbQueue` is finer: each store is an action. `TsmVm` and
  `FmTimer` treat their queues as `SkbFifo` does, one step per operation, which
  is what `SkbQueue` justifies of those who take the lock. What stays coarse in `TsmVm`:
  an unlocked walk sees an `skb_unlink` whole and not store by store; the accesses of a
  step to one APDU (three `skb_push`, two `skb_put`) are one; `setting_agent_info` peeks
  and copies in one step, which may find the APDU freed. `SkbBuffer` and `HashTable` are used by one thread
  at a time, so a call is a step there; a put that grows the table is a step for each
  entry it moves, so that a half-moved table is a state. The loaders are
  called by one thread at a time; a line, a parameter, a symbol, or a call that may fail
  is a step.
* **Data.** A packet is the address of its memory, a model value, with the fields
  control depends on. An APDU in a queue of a CCB is its length and whether its head
  room is still free. The timers' lists are sets.
* **Freed memory** is handed out again: `alloc_skb` in `RouterReceive` may return any
  address that is not in use, also the one a VM thread freed and goes on using
  (`tsm_vm.c:151`, `173`). The same is so of timer nodes and of the packets of
  `SkbQueue`.
* **Undefined behaviour.** A null or wild pointer that is used ends the process
  (`fault`); a parameter behind the end of its array ends it or is lost. When a packet
  that was freed is queued, `TsmVm` sets `fault` too and stops: from that store on two
  owners write one memory, and the source determines nothing that follows. `skb_put` and `skb_push` report an overrun and spin: the thread is
  `hung`. An uninitialised value (`ret` in `fmBytes2intBE`, `agent` of a packet
  just allocated) is any value of its type. A read of a freed timer node gives
  any number in `Ids`. A walk that comes to a freed APDU kills the process, spins, or
  goes on to the next as it was read before.
* **Calls the compiler accepts only with a diagnostic** (a missing argument in
  `ccb_set_write_back(fm_true)`, a pointer to a pointer in
  `skb_pull(skb->data, ...)`, an integer for a pointer in `read(fd, buf[i], 4)`,
  `ae->entry` for its address in `router_register_agent`) have two outcomes where the model reaches them: the process dies, or the
  evident meaning. Errors of logic are kept as they are written.
* **Callers' contracts.** `skb_reserve` tests nothing; `SkbBuffer` has it as its
  callers use it, on an empty packet and within the size they allocated.
* **Widths.** `FmTimer` keeps the conversions of `fmtimer_add`, which stores a `u32`
  in an `int`: `INT_MAX` is a constant, a timeout above it becomes negative, and where
  the subtraction of a tick leaves the range the test of its result has both outcomes.
* **Out of memory.** In `HashTable`, `ScLoader`, `BcLoader` and `CcbCreate` an
  allocation may fail, in the others it does not.
* **Not modelled:** the content of APDUs, keys and card answers.
* **Byte codes.** No byte code that a library has ever gets into the table of a CCB:
  the test at `tsm_ccb.c:98` is inverted, and the table itself is not full of
  `tsm_reserve` but of wild pointers and nulls, since `memset_int` stores its ints one
  byte apart (`LibrariesAreAdded`, `LibrariesLeftOut`). `TsmVm` takes the table as the constant `Code`,
  for any table, and `TsmScript`'s VM has the data byte codes in theirs: they say
  what the byte codes do where a table has them.
* **Parameters.** `tsm_vm.c:145` passes `&ce->parameters`, a pointer to the pointer the
  byte codes take; a byte code kills the process or gets the parameters.
* **Messages.** `router_do_read` gives `msg_type` to `atoi` of four characters and
  compares its high byte with `MSG_CTRL`; both kinds of message are modelled.
* `fmtimer_init` is called once and before any client (`tsm_main.c:159`), with a positive
  interval (2 there, 10 in `agent/ag_mobile.c:113`) whose product with the granularity an
  `int` holds; `fmtimer_deinit` never.

## 3. Runs

| Run | Instance | Shows |
|---|---|---|
| `vm_pool` | 2 VM threads, 2 addresses and 3 packets received, 2 CCBs, sessions 0 and 7, one instruction of each kind that touches the CCB, a `send` of two APDUs, jumps in and out of the script | `TypeOK`, `TokensMatchPackets`, `PacketHeldOnce`, `FragmentsOfPacket`, `SessionOnOneCcb`, and under fairness `QueuedPacketIsTaken` hold |
| `vm_freed` | 3 threads, 5 packets, 1 CCB | a freed packet is queued again |
| `vm_writeback` | 1 thread, a script of one `send` | a write back never ends |
| `timer_safety` | 2 clients, 2 overlapping ticks, 2 nodes, 2 timers; an `int` of 3 bits, an interval of 1, the timeouts 2, which takes two ticks, and 7, which becomes -1 | `TypeOK`, `CountsMatch`, `ListsHoldLiveNodes`, `ExpiredOnTime`, `NoLostWakeup`, and under fairness `FirstExpiryIsHandled` hold |
| `timer_add` | 1 client | `fmtimer_add` returns a number that is not the timer's |
| `router` | 2 descriptors, 2 names, 1 VM thread, 2 connections and 2 messages of every kind; fairness | `TypeOK`, `TokensMatchAnswers`, `StopsOnlyOnListedAgent`, `AgentKeepsItsConnection`, and under fairness `AnswersAreTaken`, `RegistrationsAreAcked` hold |
| `scripts` | arrays of 8 entries, 2 parameters and 2 names; scripts of 0 to 17 lines, 6 libraries of which 4 fail, each in its way; 2 create messages, or one script printed, or 4 entries of data byte codes run in any order | `TypeOK`, `ScriptWhole`, `ListedLibrariesAreWhole`, `LoadsLeaveOnly`, `AssignedValues`, and under fairness `ShortScriptIsPrinted` hold |
| `libraries` | as `scripts` | a library that was loaded gives the CCB none of its byte codes |
| `names` | as `scripts` | a name takes the value assigned to another of its length |
| `skb_buffer` | packets of 0 to 4 bytes, chunks of 0 to 2 | `TypeOK`, `InBuffer` hold, the pointers implement `SkbBytes` |
| `hash_table` | 4 names, 4 entries, 2 values, a table of 1 that grows to 2 and to 4; hashes that collide in each of them | `TypeOK`, `LookupFindsStored`, `LinksAgree`, `CountsMatch`, `ForeachVisitsAll` hold, the table implements `NameMap`, and a put that grows it ends |
| `skb_queue` | 3 threads, 3 packets | the ring is whole and its links agree whenever the lock is free, a packet is in one place at every store, the ring implements `SkbFifo` |

Bounds, and why they are enough. Two VM threads are what a race in a CCB takes; three
packets at two addresses make memory come back while the thread that freed it is still
under way; two CCBs allow two of the same session and two of different ones. An instance
with three addresses and four packets, symmetric in threads and packets, takes longer than
a run may and finds nothing else. `vm_freed` needs a third
thread, since the write back only gets past `padding_tagA1` when another thread
purges the queue between the two walks, and a third one has to set the bootstrap
flag; `RacesOnly` cuts the search to what leads there (a counterexample under a
constraint is still a behaviour of the code). Two clients and two ticks are the
races of the timers, and an `int` of three bits holds a timeout of more than
one tick, which the subtraction brings to 0, and not the other one; that a subtraction leaves the
range takes a timeout near the smallest `int`, which only the proof covers. `SemMax = 1` makes the semaphore's limit reachable:
`NoLostWakeup` and `FirstExpiryIsHandled` hold even when the posts overflow.
Three packets are the least for which a ring has a middle. Four names in a
table that starts with one chain make it grow twice, with chains of one, two and
three entries to split; what a chain does to a fourth entry it does to a third.
Four bytes leave room, none and too little on either side of a chunk. Two
connections on two descriptors are what it takes for one to be closed and its number
given out again while the other's agent is looked up; a registration and one more message
are all a thread of the router sees before it stops. Arrays of 8 entries behave as
those of 128 do: `memcpy_int` keeps the first pointer and part of the second there and
the first 16 and part of the next here, and 17 lines are two arrays past the first. The length of a parameter has one byte or two, as `SizeKey` tells apart: the names have
1, 2, 48 (the code of a digit), 256 (whose lowest byte is 0) and 261 characters. Two
names fill a library's first array, which a third makes grow once and a fifth twice. Two
create messages are what lets the second find, or find again, what the first loaded or
failed to load. `MaxCcbs` and
`MaxTimers` only end creation. The theorems of section 5 hold for every value of
these bounds.

Deadlock is checked for `SkbQueue` and `HashTable`. It is not for `SkbBuffer`,
where a thread that overruns a buffer spins in `while(1)`, nor for `TsmRouter`, whose
threads stop on their own lock, nor for `TsmScript`, whose roles end or die, nor for `TsmVm`, where the process may
die, every packet be used up and every thread wait, nor for `FmTimer`, where a
timer's function that calls the timers stops `to_handler` with the lock held, and
with it everybody else.

Fairness. `TsmVm`: weak fairness for each VM thread and for the router between
taking a packet and posting: a runnable thread runs; nothing is assumed of peers.
`FmTimer`: weak fairness for each tick (the kernel delivers the ticks of a
periodic timer), for `to_handler`, and for an `fmtimer_add` under way; none for
the clients' calls. `TsmRouter`: weak fairness for each thread; nothing is assumed of the
agents. `TsmScript`: weak fairness for `main`, a thread that waits for nobody.
`HashTable`: weak fairness for the loop of a put that grows the
table, which waits for nobody.

## 4. What the code does not do

Five runs state what a comment says and TLC finds a behaviour of the code that
contradicts it.

1. `FreedPacketStaysOut` (`tsm_vm.c:147-151` against `170-173`). After a write back
   freed its packet, the same pass tests the bootstrap flag of a CCB other threads
   share, and may queue the packet it freed.
2. `WriteBackEnds` (`tsm_vm.c:146`, `159`). The room of the answer has no place for
   the trailer that `padding_tagA1` puts *behind* the APDUs; `skb_put` spins. Without
   a race on `cmdQ` no write back ends.
3. `AddReturnsTimerID` (`fm_timer.c:139`, `157`). The number is read from a node that
   may be freed.
4. `LibrariesAreAdded` (`tsm_ccb.c:9-11`, `98`). Only the reserve belongs to no library;
   but `ccb_add_bc` is called where loading failed, with a null pointer, and never where
   it succeeded. `LibrariesLeftOut` proves that no library ever gives a CCB anything.
5. `AssignedByName` (`bc_data.c:43-46`, `58`, `91-92`; `bc_gp.c:443`). `data_set` puts a
   value under the bytes of the `fmBytes` that holds the name, which begin with its
   length: the second name of a length replaces the value of the first. What remains true
   is `AssignedValues`.

Seen while modelling and not claimed by a run: the APDUs that bootstrap byte codes cache
"so that vm will fetch this data and send to the agent" (`bc_gp.c:272-276`) are never
sent, as nothing takes APDUs from `apduQ` (`tsm_vm.c:155` and `158` are commented out);
a run would show less than that, since the packet that comes back was drained and ends
the process at `tsm_vm.c:89` before it matters. The comment at `fm_skbuff.h:41`,
"len = tail-data+1", is not what the code keeps: `len` counts the bytes, `tail -
data`, and a new packet has `len` 0 where `tail` is `data`; the mapping of `SkbBuffer` to
`SkbBytes` rests on the code's meaning. And, where no text says otherwise:
`fmtimer_init` turns milliseconds into microseconds and counts an hour as 360 seconds
(`fm_timer.c:81`, `89`, `100`; the constant formula needs no run); `to_handler`
handles one batch of timers and ends, and nothing takes `expire_cnt` down, so
that every later tick posts; a timer's function that calls the timers waits for
its own thread; two `fmtimer_add` may give the same number; a timeout above `INT_MAX`
becomes negative (`fm_timer.c:145`) and runs out at the first tick, or, where the
subtraction wraps, long after; look-ups use the text of a name and do not find what
`data_set` put (`tsm_ccb.c:180`); the two extractions put under the empty name.

Of the router: the two threads stop on their own lock as soon as an answer's agent is
listed or a listed agent's connection ends (`tsm_router.c:58`, `162`), so that
`router_send` is never called; `clear_buffer` spins until the peer is gone; a payload in
two parts makes `router_do_read` spin; a connection is read once per edge, so that a
second message waits for a third; `read(fd, buf[i], 4)` passes a character for a
pointer, and where it fails, as it should, no message gets past `router_do_read`.
`router_parse_tlv` copies every value from the first, and does not count the heads.

Of the loaders: `se_resize` keeps the first entries only, and is called for every line
past the first array's end (`ScriptWhole`); an eleventh parameter of a line is stored
behind its array; an empty line that ends in `\n` becomes byte code 0, in a header a
function without a name; files are never closed; a library asked for with its directory
is loaded again each time, as sets are listed by file name; `dl` in `ccb_create_ccb` is
never set; `PC` is only set by jumps, so that entries do not run in their order.

## 5. Proofs

`TsmVmProofs`, for any sets of threads, packets and sessions, any script and any
bound:

* `TypeCorrect`: `Spec => []TypeOK`. A thread's `op`, `ccb` and `work` are only
  meaningful at some steps, so the induction carries that `ccb[t]` is in
  `DOMAIN ccb_list` wherever a step uses it.
* `TokensCorrect`: `Spec => []TokensMatchPackets`. The sum is preserved by each of
  the steps that wait, take, queue or post; the proof is about cardinalities of the
  sets of threads at a step, hence the assumption that `Threads` is finite.
* `HeldOnceCorrect`: a thread owns its packet until it frees it (`Owns`); what is owned,
  queued or in the router's hands is live, so that `alloc_skb`, which may return anything
  else, returns none of them. A requeue moves a packet that is owned, or is the queueing
  of a freed one, after which `fault` holds. That this can happen is `vm_freed`; the
  theorem says that nothing else breaks it (`VmHolds`).
* `FragmentsCorrect`: a packet that was parsed is drained, so that one which comes back
  cannot be run with the fragments of another.
* `SessionCorrect`: `ccb_list` only grows at its end and sessions do not change, so
  that the first CCB of a session stays the first.

`FmTimerProofs`, for any clients, ticks and nodes, any `INT_MAX`, any timeouts a `u32`
holds and any ints given to `fmtimer_rearm`: `TimerTypeCorrect`,
`ListsCorrect`, `OnTimeCorrect`, `CountsCorrect`, `WakeupCorrect`. The inductive
invariant is `TypeOK`, `ListsHoldLiveNodes`, `ExpiredOnTime` and `AddingInv` (a
client in the middle of `fmtimer_add` has a node, which is live while it is
filled in), and that `expires` of an active timer is what was asked for less the time
waited, as long as that is an `int`; the counters and the wake-up follow from it step by
step.

`SkbFifoProofs`: `FifoOnePlace`, in the abstract queue a packet is at one position,
in one hand or free, in no fewer and no more: none is lost. With the refinement below, this is the property
`PacketsInOnePlace` of the ring.

`SkbQueueProofs`, for any threads and packets: `QueueTypeCorrect` and
`QueueNeighboursAgree`. While a thread puts in or takes out its packet, the ring as it
would be without it, with the thread's two neighbours joined, is whole (`Without`); so
one lemma says that each store is at the packet or between its neighbours and changes
nothing else, and two that a ring stays one when a node is put in or taken out.

The second part of `SkbQueueProofs`: `QueuePacketsInOnePlace`, `QueueRingIsWhole` and
`QueueImplementsFifo` (`Spec => ImplementsFifo`). That the packets make one ring and not
several, and in which order, is not in `Inv`. `FifoInv` adds `Order`: the sequence that
the mapping reads off the links (`Follow(Successor)`) is a `Chain` from the list head
back to it and its elements are the queued packets and the one a thread has linked but
not yet counted, or is taking out; and `Ends`: every thread works next to the list head. A chain is given by its links, so the lemmas that
append, prepend, take the first and take the last say what one store does to *the*
sequence. Then each store is either one of the two that change the chain, which are the
step of `SkbFifo` of that call, or leaves it alone.

`SkbBufferProofs`, for buffers and chunks of every size: `BufferTypeCorrect` and
`InBufferCorrect` from the inductive `TypeOK /\ InBuffer`, and
`BufferImplementsBytes`: `Spec => ImplementsBytes`. The bytes of a packet are a
window onto its memory; four lemmas say that a window grows by what is stored
behind it or before it and that a part of a window is a window, and each call is
then the step of `SkbBytes` of its name, or that call's stop: `StopPut` asks for more
than the room behind the bytes (or the packet has size zero, where `skb_put` asserts),
`StopPush` for more than the room before them. So the sum of room and bytes never
changes, and a caller that stays within its room on its side is not stopped.

`TsmRouterProofs`, for any sets of descriptors, names and VM threads and any bound:
`RouterTypeCorrect`, `RouterStopsOnlyOnListedAgent`, `RouterAgentKeepsItsConnection`
and `RouterTokensMatchAnswers`. The descriptor of a listed agent can only be given out again
once `ReaderClose` closed it, and from there the reading thread goes to the agent's entry
and stops: that it accepts nothing in between is what the invariant about its steps
says. The tokens are counted as in `TsmVmProofs`.

`TsmScriptProofs`, for any scripts and any sizes of the arrays: `ScriptsAreWhole`. While
a line's parameters are stored, its entry is behind the last pointer of the array and its
parameters are those stored followed by those to come (`ScProgress`), unless one was
stored behind the array, from which on they count as `lost`; that takes more than twice
the default number or a lack of memory. The array of entries never gets
shorter than at first, and what `memcpy_int` copies whole is what `Kept` says. Each entry
is `EntryWhole` by itself, so that a step has only the last one to look at.

The second part of `TsmScriptProofs`, for any libraries, headers and create messages:
`LoadsLeave` and `LibrariesLeftOut`. Every block has the number of its load. Those of earlier loads are as
`Left` says; those of the load at work (`AtWork`) are the names and blocks it will give
back, or those it never does; its number is not listed until its set is, which makes the
blocks of the set the list's. That the list only grows carries `LibrariesAreLeftOut`, which is
defined beside its proof as no run checks it, from
the search or the load (`LibInv`) to the CCB and on. The assumption is that there is a
path at all (`PathsAssumption`).

The third part of `TsmScriptProofs`: `ListedAreWhole`. A load at work has the names and the
base of the lines of its header that it has read (`Reading`), its set is bound to the first
of these names (`Binding`), and a library without a directory is loaded only where its file
name is not in the list (`NotListed`). A line adds its name at the place that counts the
names up to it (`LinesGrow`, `NamesGrow`, `BaseGrow`); what is listed stays whole because a
load frees only blocks of its own number.

The fourth part: `ScriptTypes` and `ValuesAssigned`. A pointer of a script's array is
null, wild, or that of the entry of its place (`PointersPoint`), so that what `main` prints and a VM thread runs
are entries of the script. `VmInv` says that nothing is put before entries run, that the
table is usable while they do, and that what ran is in the script. The loops of `data_set`
and `data_reverse` are recursive functions: that such a function exists and what it leaves
after n pairs (`SetLoop`, `SetAfterRan`) is proved by induction, and from there one entry
is what `PairsPut` says: each name it sets has the data set last under it, `""` what the
byte codes like, every other name what it had. With `NamesDiffer` a key is one name, so that
the last value of the key is that of the name. `data_concat` and `data_reverse` look names
up by their text, which `TextsAssumption` (a parameter is not empty and fits a line) and
`NoKeyIsAName` tell from the bytes of a length: they put nothing. `DataAssumption` is that
the number of `data_set` is not that of another data byte code.

`HashTableProofs`, for any keys, values and entries, any hash function and any first
size: `TableTypeCorrect`, `TableLinksAgree`, `TableLookupFindsStored`, `TableCountsMatch`
and `TableImplementsMap` (`Spec => ImplementsMap`). A chain is a least set closed under
`next` (`W`), so what a walk meets is proved without an induction over its length: a walk
is its head and the walk from its successor, it is not changed by links outside it, and an
entry with one predecessor is left out when that is linked past it. `Table` says that an
array of heads and the links are a table of a set of entries; `PutKeepsTable` and
`RemoveKeepsTable` are about any such table. While `zc_hashtable_rehash` runs, the entries
it has passed (`Passed`) make up the new table, and the others hang from `p` and from the
chains not reached, their links as they were (`Growing`): each move is a
`PutKeepsTable` on the new table that leaves the rest alone. What the entries make of a
name (`StoredOf`) changes at one name in each call, which is the step of `NameMap`.

`TableForeachVisitsAll`: from `zc_hashtable_begin` on, `zc_hashtable_next` is an `Orbit`:
it enters each entry from at most one other and the first from none, and a set with the
first that is closed under it is all entries. The walk as a function exists by induction; the number of its steps
is that of the entries it met, so after that many it is at its end, and it met each once.

Induction. The library's induction theorems take an operator as a parameter, which no
installed prover instantiates. `NatSetInduction` says it of sets instead: a set of numbers
with 0 and with n + 1 for each n has all of them, since `Nat \ S` would have a least member
(`LeastOfSet`, from the library's well-foundedness of `<`). It is repeated in the three
modules that use it. With it the existence of a recursive function, on which its
definition rests, is proved for a function on `0..N` by extending one on `0..n`.

Only model-checked: liveness (`QueuedPacketIsTaken`, `FirstExpiryIsHandled`,
`GrowthEnds`, `AnswersAreTaken`, `RegistrationsAreAcked`, `ShortScriptIsPrinted`), and what
the five runs of section 4 contradict. Every invariant and every refinement that a passing
run checks is a theorem.

## 6. Plan

In order of what matters most to the server:

1. What `data_extract`, `data_concat` and `data_reverse` put where `NoKeyIsAName` does not
   hold.
2. `CapLoad`, the encodings of lengths and tags in `bc_gp.c` and `fm_Util.c`, with
   their widths, against reference definitions.
3. A composition of `TsmVm` and `TsmRouter` from packet to answer.

## 7. Not modelled

The agents (programs of their own, two of them unfinished: they use members their types
do not have); `tsm_cfg.c`, which the `main` that is built does not call, and whose
record the daemon reads one member of, `port`, that nothing sets; logging, memory and
socket wrappers (I/O without state); `fm_List.c`, whose lists are sets or sequences in
the models of their users; the contents of APDUs, keys and cryptograms. Two data byte
codes of one CCB at the same time are a data race inside the hash table, whose outcome the
source does not determine.
