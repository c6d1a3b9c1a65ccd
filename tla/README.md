# TLA+ models of the VSRV programs

The repository is a collection of small C programs, one exercise in POSIX system
programming each. They share no code (but `main.c` and `msgqueue.c`, which are one
program); what they have in common is that each is a protocol between threads,
processes, descriptors or signals that is easy to get wrong and hard to test. There is
no documentation beside the code: what a program promises is said by what it prints,
and the properties below quote those lines where they refer to one.

The specifications model the programs in which several actors meet and check them with TLC
on small instances. Every safety property that is checked and holds is also proved with
TLAPS, for every value of the constants.

## 1. Inventory

State, operations and hard parts of every program. "M" marks a modelled one.

| | program | actors and state | operations | what is hard |
|---|---|---|---|---|
| M | `msgqueue.[ch]` | threads; a ring `buffer`, `head`, `tail`, `count`, `dropped`; semaphores `empty`, `full`; a mutex | `mymsgput`, `mymsgget`, `mymsqdrop`, `mymsgdestroy` | tokens and messages differ between the critical section and the post; a drop must wake everybody who waits, from inside the mutex, while tokens move |
| M | `main.c` | two producers, two consumers, main | calls of the queue in loops of constant length, `break` on drop | puts and gets have to balance, or somebody waits for ever |
| M | `proxy2.c` | main and workers; list `head`/`tail`, `shutdown`, descriptors | `thread_pool_add_job`, `worker_thread_func`, shutdown | ownership of a descriptor, wake-ups, shutdown without the mutex |
| M | `pr12task1.c` | producers and workers; `task_queue`, `last_task`, `task_count`, ids | `add_task`, `get_task` | limit of the list, count against list, wake-ups |
| M | `pr12task2.c` | main and handlers; `requests`, `last_request`, `num_requests`; *two* mutexes | `add_request`, `get_request`, the handler's second look | the list and the condition have different mutexes |
| M | `pr13task3-1.c` | philosophers; one mutex per fork | lock in an order that depends on the parity | circular waiting, starvation |
| M | `pr13task3-2.c` | philosophers; forks, `table_mutex`, a condition | take both or none, wait, put down and broadcast | lost wake-ups |
| M | `pr15task1.c` | five workers; four semaphores | make, assemble | parts invented or lost, the line standing still |
| M | `pr13task2.c` | owner and cats; `food_amount`, two conditions | fill and broadcast, eat and signal | signals to somebody who does not wait |
| M | `pr13task4.c` | barber and customers; `waiting_customers`, `barber_sleeping`, `served_customers`; *two* mutexes | sit down, cut | one counter under two mutexes |
| M | `pr7t7.c` | the process, its handler and the clock | `my_sleep` | the alarm between test and `pause`, an alarm set before |
| M | `proxy_server.c` | a poll loop; `fds`, `connections`, `nfds` | accept, hang-up, `proxy_data`, `close_connection` | two arrays changed during the scan over them; descriptor numbers given out again |
| M | `proxy.c` | a select loop; slots, `max_fd`, `read_fds` | accept, `handle_read`, `close_connection` | stale sets, reused numbers, a buffer that is full |
| M | `http_client_select.c` | a select loop; screen, keys, socket, terminal mode | print up to a page, pause, read on | the page ends in the middle of a buffer |
| M | `pr13task1.c` | generator and two calculators; `number`, `number_ready`, one condition | generate, calculate, wait | two kinds of waiters on one condition, a number overwritten before it is used |
| M | `pr10t1.c`, `pr11task3.c` | threads or processes; one counter, a mutex in one phase | increment, a read and a store | how much is lost without the mutex |
| M | `pr10t2.c` | processes of several runs; a segment, a semaphore with `SEM_UNDO`, both found by key | set up, increment, remove | a run that finds what another, killed or still working, has left |
| M | `pr11task1.c`, `pr11task2.c` | two writers and a reader of one structure | copy, compare, stop | torn copies |
| M | `pr11task4.c` | worker threads and main; `shared_result` | work, create, join | sums read and reset between groups of threads |
| M | `pr9t1wr.c`, `pr9t1re.c` | writer and reader; a text and a flag in shared memory | send and wait, show and lower | kills at every point, a flag left over, the end of the input |
| M | `pr9t2se.c`, `pr9t2re.c` | senders and receiver; a System V queue | send, receive, remove | the queue is removed behind others, and created anew |
| M | `pr8t3.c` | child and parent; a pipe | write, read and print | two writes read as one |
| M | `pr14t1-*.c`, `pr14t3-*.c`, `pr14t4-*.c` | a server and its clients; sockets | line and answer | a client that goes before its answer kills the server |
| | `pr8t1.c`, `pr8t2.c`, `pr8t4.c`, `pr14t2.c` | one exchange over a pipe or socket pair | | nothing can happen in two orders |
| | `pr7t1.c` .. `pr7t6.c` | signals | | handlers that print or count, one process and its user |
| | `pr4*`, `pr5*`, `pr6task1.c`, `hello.c`, `text.c`, `child_process.c`, `parent_process.c` | straight-line I/O, `fork` and `exec` | | nothing that outlives a call |

Programs do not interact with one another. Within a program the interaction is shared
memory with mutexes, conditions and semaphores (all the thread programs), or system calls
whose answers the environment chooses (the event loops and `my_sleep`).

## 2. The modules

| modules | program | what they are |
|---|---|---|
| `MsgQueue` | `msgqueue.c` | put, get and drop, called in any order by any number of threads |
| `MsgQueueApp` | `main.c` | the threads around the queue; extends `MsgQueue` |
| `BoundedChannel` | | what the queue promises: a closable FIFO channel of limited length, put and get atomic |
| `LinkedList` | the lists | the walk from `head` along `next`, as a recursive function, the sequence it yields, and when a list is well formed |
| `WorkQueue` | | what the three list queues promise: items are handed out first in first out, each to one free worker |
| `ThreadPool`, `TaskQueue`, `RequestQueue` | `proxy2.c`, `pr12task1.c`, `pr12task2.c` | each implements `WorkQueue` |
| `Dining` | | neighbours never eat together |
| `ForkTable`, `OrderedForks`, `TryForks` | `pr13task3-1.c`, `pr13task3-2.c` | the forks, and the two ways of taking them; each implements `Dining` |
| `ProductionLine`, `Cats`, `Barber`, `MySleep` | `pr15task1.c`, `pr13task2.c`, `pr13task4.c`, `pr7t7.c` | one module each |
| `ProxyServer`, `SelectProxy`, `HttpPager` | `proxy_server.c`, `proxy.c`, `http_client_select.c` | the event loops |
| `NumberGen`, `SharedCounter`, `SemCounter`, `Employee`, `ThreadJoin` | `pr13task1.c`; `pr11task3.c` and `pr10t1.c`; `pr10t2.c`; `pr11task1.c` and `pr11task2.c`; `pr11task4.c` | threads and processes that count, copy and join |
| `Mailbox`, `SysVQueue`, `Pipe`, `EchoServer` | `pr9t1*.c`, `pr9t2*.c`, `pr8t3.c`, `pr14t1*.c` with `pr14t3*.c` and `pr14t4*.c` | processes that send one another texts |
| `MC*` | | instances for TLC; `MCListQueues`, `MCExercises`, `MCEventLoops` and `MCProcesses` hold several programs, of which the initial state chooses one (`program`), so that one run asks the same kind of question of all of them |
| `MsgQueueProofs`, `ChannelProofs`, `MsgQueueAppProofs` | `msgqueue.c`, `main.c` | theorems about the queue, the channel it is, and its use; each extends the one before |
| `ListQueuesProofs`, `PhilosophersProofs`, `ExercisesProofs`, `EventLoopsProofs`, `ProcessesProofs` | the others | theorems about the other programs. Each extends the `MC` module of its name; `PhilosophersProofs` extends `MCExercises`, and `ExercisesProofs` extends it |

`PROJECT.json` maps every definition to its lines. Some conventions hold everywhere:

* **Grain.** A thread's step goes up to the next place where another thread can see or
  change something. Where all accesses to the data of a critical section are under its
  mutex, the section is one action (`TaskQueue`, `Cats`, `TryForks`); where anything is
  read or written without the mutex, or posted or signalled inside it, it is several
  (`MsgQueue`: every semaphore operation, see below; `ThreadPool`: test and wait are separate because
  main writes `shutdown` without the mutex; `Barber`: a load and a store of
  `waiting_customers` are separate because the two sides hold different mutexes).
* **Conditions.** `pthread_cond_signal` wakes one waiting thread or nobody,
  `pthread_cond_broadcast` all; a woken thread has to get the mutex and tests again (or,
  where the code has an `if`, does not). A thread may also wake for no reason, at most
  `MaxSpurious` times in a behaviour (any number of times in `TryForks` and `Cats`, whose
  states stay finite without a bound).
* **Threads** have a program counter with the name of the place in the code. Sleeps have no
  duration: they only say that a thread may be somewhere else for a while.
* **Data** are what the properties tell apart: a message is an id and a length, a request
  its number, a buffer its length, a response the numbers of its bytes and which of them
  are newlines. `BUF_SIZE - 1`, `bufsize - 1`, `MAX_MSG_LEN - 1` are kept, as limits.
* **Environment.** Failing calls (`malloc`, `sem_wait`, `poll`, `select`, `connect`),
  hang-ups, resets, keys, and which free descriptor number the kernel gives out (the lowest
  in the event loops, any in `ThreadPool`) are actions or choices of their own.
* **Mutants.** A definition introduced by a comment "Mutant:" is not part of the
  specification; it is the definition after it with a plausible bug. Put in the place of
  that definition, TLC must find the property violated that `PROJECT.json` names beside it.
  They keep the properties from being satisfied by accident.

### Correspondence, program by program

* `MsgQueue`. `head`, `tail`, `count`, `dropped`, `buffer` are the fields of `queue_t`;
  `empty` and `full` the values of its semaphores, `mutex` its owner. `PutCall` .. `PutPost`
  are the statements of `mymsgput` in their order, with `PutRefused` and `PutRepost` for the
  branch after a drop; the same for get. `DropReadEmpty`, `DropPostEmpty`, `DropReadFull`,
  `DropPostFull` and `DropPostBoth` are the two `sem_getvalue` with their loops of posts: the
  value read (`sem_val`) goes stale while other threads take and post. The posts of one loop are
  one action: no thread reads the semaphore in between, and a post that comes earlier takes
  nothing from anybody.
* `MsgQueueApp`. `i` and `at` are the loops of `producer_func` and `consumer_func`; `log` is
  what a consumer prints. `main` creates, joins and destroys. A `sem_wait` that is
  interrupted is left out here, as `main.c` has no signal handler. `main.c` has no call of
  `mymsqdrop`; the thread that makes it is external, and in `MsgQueueAppMain` there is none.
* `ThreadPool`. A job is its descriptor (one job per descriptor lives at a time); `next` is
  the link in the job. `open` is what the kernel has open; `Accept` gives out any number
  that is closed, at most `MaxConns` times.
* `TaskQueue`, `RequestQueue`. Lists are the pointers of the code, not sequences: `Link` and
  `Unlink` set `last_task` or `last_request` as the code does, and the properties compare
  the list with its counter.
* `OrderedForks`, `TryForks`. `forks[p]` is the owner of the mutex to the left of `p`.
* `ProductionLine`. `sem` holds the four semaphores' values (the finished product has none),
  `i` the rounds, `holds` how many parts of a product a shop has taken.
* `Cats`, `Barber`, `MySleep`. Variables as in the code. In `MySleep` the clock `now`, the
  pending `timer` and the delivery of SIGALRM are external; the process may be held up at any
  step, for `MaxDelay` seconds in all. `started`, `cancelled` and `late` only record history: when
  `my_sleep` was called, when it called `alarm(0)`, and how long after that no alarm was set.
* `ProxyServer`. `fds`, `connections`, `nfds`, `i` as in the code: an event is `none`, `error`
  (POLLERR, POLLHUP, POLLNVAL) or `in`; a poll returns any events, an entry whose descriptor
  is closed has `error`. `mate` remembers who was connected with whom. `i--; continue` and
  the loop's `i++` cancel out, so that an entry moved to `i` is looked at in the same scan.
* `SelectProxy`. `connections` as in the code without `remote_fd`, which nothing sets and
  which is -1 for ever. `waiting` are the unread bytes of a client, `hungup` says its end
  was closed. `Interrupted` is a select that fails with EINTR and leaves all the sets as
  they were before the call, so that every watched descriptor looks ready.
* `HttpPager`. One `Round` is one turn of the loop from select on: a key, a recv, or both.
* `NumberGen`. Everything shared is under the one mutex, so `Generate`, `Calculate` and
  `WaitForNumber` are whole critical sections; `calc` says who is in `pthread_cond_wait`.
* `SharedCounter`. `Read` and `Store` are the two accesses to `global_counter`; `Enter` takes
  the mutex in the phase `test_safe_counter`, `EnterUnsafe` nothing. The child and the parent
  of `pr10t1.c` are two such counters whose program goes straight to the unsafe phase.
* `SemCounter`. A run is one start of the program, with a parent and a child. `shm_key` and
  `sem_key` are what the two keys lead to; a segment or semaphore is named by the run that
  created it, so that one created after a removal is a different one, as with the kernel's
  identifiers. Actions are the system calls in their order, and the load and store of
  `increment_counter_with_sem`. `Kill` stops a process anywhere; the kernel then adds back
  what it had taken from the semaphore (`Undo`). `counted` and `spoilt` only record history.
* `Employee`. The structure has `Units` parts, a part of employee `e` has the value `e`, and
  `CopyUnit` copies one. `with_mutex` chooses `pr11task2.c`.
* `ThreadJoin`. `stage` runs through the join demonstration and the two modes; `Create` and
  `Join` are main's loops, `Operate` and `Add` the read and the write of `shared_result`.
  Sums are in units of `base_value`'s factor (10 or 5), which no property tells apart.
* `Mailbox`. Text and flag are two variables, since their stores are two stores. `CrashWriter` and
  `CrashReader` kill a side at any place; it is started again by its first action.
* `SysVQueue`. `generation` counts the queues that had the key; `msg_id` is the one a process
  knows, and `Valid` says that it is still there.
* `Pipe`. A message is its number; `Read` takes all there is, which fits into `message[100]`.
  `merged` records the messages that a read gave behind another one.
* `EchoServer`. `toServer` and `toClient` hold whole lines (a line is smaller than every
  buffer). `kind` chooses the pair: what differs is a send to a client that is gone (SIGPIPE
  at once on a UNIX socket, accepted by TCP, where a second one cannot happen because at
  most one line is under way, `LockStep`), and what a client shows when the answer does not come.

## 3. What is checked

Six runs pass and six show a disagreement.

| run | shows | instance, and why it is enough |
|---|---|---|
| `MsgQueue` | `TypeOK`: indices inside the ring, no count and no semaphore below 0, and no text longer than its slot or the reader's buffer. `TokenInv`: free and used tokens, messages and callers always add up. `SlotReady`: whoever is in the critical section of a queue that is not dropped has a slot. `DropWakesAll`: after a drop nobody waits without a token left or about to be passed on. `DroppedIsFrozen`: nothing changes in a dropped queue. | 2 producers, 2 consumers, 1 dropper, 2 slots: both sides can fill and block, two of a kind wait at once, and a drop finds the queue empty, full and between |
| `MsgQueueApp` | `ExactlyOnce`, `InOrder`: what was put is got once and in order by the two consumers together. `AllThreadsFinish`: with a drop, main gets past its joins. `ImplementsChannel`. | 1 producer with 3 puts, 2 consumers with 2 gets, 1 dropper: more attempts than slots on both sides, texts longer than the reader's buffer |
| `ListQueues` | `CountMatchesList`: count, head, tail and links are one list within its limit, never read when empty. `FdOwnership`: each open descriptor has one owner, each closed one none. `StartedInOrder` (ids without gaps, also when tasks are rejected), `NoMissedSignal` (two mutexes, no gap), `AllDone` (also: every connection accepted is served), `ImplementsWorkQueue` of all three. | 2 producers with 2 rounds, 3 workers, limit 2; 3 requests; 3 workers, 2 descriptors, 3 connections: the lists empty and fill again, a number is used again while others are in the list |
| `Exercises` | `PartsConserved`, `LineFinishes`; `NobodyMissesOut`, `HungryCatsAreCalled`; `ChairsBound`; `AlarmsKept` (a sleep is not cut short; an earlier alarm is lost exactly when it falls due before the sleep could end, and else set again for its time plus the seconds held up without an alarm), `AwakesOrMissesAlarm` (the gap before `pause` is the only place where `my_sleep` can stay). `NoCircularWait` of the ordered forks; `WaitsForNeighbour` of the other table; `NobodyForgotten` (whoever is hungry eats, at the other table tries again) and `ImplementsDining` of both. | 3 products; the amounts of `pr13task2.c` (10, 1, 1, 5) with 3 cats; 3 customers for 1 chair; an alarm after 5 with a sleep of 3 and delays of 6 in all, so that it fires before, during and after the sleep; the five philosophers of the code |
| `EventLoops` | `InStep` (the two arrays of the poll proxy, and the listener in them), `EveryOpenFdIsPolled`; `OneSlotPerFd`, `HangupsAreNoticed` (a client that hung up is, and one that did not is cut off only with a full buffer); `PagesAreFull`, `TerminalRestored`; `InBounds` (no index or length outside its array in any of the three). | 5 entries (two pairs and the listener) and 4 numbers, 3 accepts: numbers are used again and the table is full; 2 slots, 3 clients; 6 bytes with 4 newlines and a screen of 2 lines: three pages |
| `Processes` | `OneToken`: the semaphore of `pr10t2.c` is one token whoever is killed. `CountsAreExact`: the counters of `pr10t2.c`, `pr11task3.c`, `pr10t1.c` and the sums of `pr11task4.c` are what they should be: what can be lost without a lock has a bound (two increments always survive), and a run of `pr10t2.c` that resets the counter in the middle of another's increment makes it too high, never too low. `NeverTorn`: with the mutex no copy mixes two employees. `NothingSkipped`: lines of the mailbox and the System V queue come out once and in order, except for the kills and the removal that each names; of the pipe, exactly the messages that a read gave behind another one are left out. `LockStep`: an answer is always that to the line sent last. `NoSleeperForNumber`. `EverybodyFinishes`: each of the nine gets to its end or waits for its user. In the mailbox that holds for the reader and for the writer's wait; a writer killed before excuses a reader that looks at a lowered flag, and a writer whose reader has ended. | 2 overlapping runs with one increment each and a kill; 3 counters with 2 increments (two others between a read and a store); 3 parts and 2 comparisons; an even and an odd number; 3 threads with up to 2 operations; 3 lines, 2 kills; 4 messages as in `pr8t3.c`; 3 clients with 2 lines; 2 senders with 2 lines for a queue of 2 |
| `MsgQueueAppMain` | `main.c:82` "all threads have finished" is not reached: 30 gets for each consumer, 40 puts in all, no drop. | 2 puts, 3 gets for each of two threads: the same relation |
| `ThreadPoolShutdown` | a worker between its test and its wait misses the broadcast, and main joins it for ever (`proxy2.c:227`). | |
| `ProxyServerForward` | `close_connection` leaves the other entry of the pair with closed descriptors; with a number given out again it forwards to somebody else (`proxy_server.c:72`). | |
| `BarberDay` | the day need not end: a signal sent under the other mutex falls between the barber's test and its wait (`pr13task4.c:57`), against `pr13task4.c:98`. | 2 customers, no wake-up without reason: the missed wake-up is all this instance shows |
| `HttpPagerEnd` | what was received behind the newline that fills the screen is never shown (`http_client_select.c:204`), against `:223`. | |
| `PipeMessages` | what the parent reads behind another message is never printed (`pr8t3.c:40`), against `:50` "All messages processed". | the four messages of the code |

`CHECK_DEADLOCK FALSE` stands where a program ends (`ListQueues`, `Exercises`, `EventLoops`,
`Processes`, the applications) or where all callers may find the queue without a dropper
empty or full (`MsgQueue`: a model of a library, whose callers may stop). The philosophers
never end; that they do not stop either is `NoCircularWait` and `NobodyForgotten`.

The last line but one of `pr7t7.c`'s test, "Awake! Previous alarm remaining time preserved" (`:63`),
is what `AlarmsKept` holds for an alarm of 10 seconds and a sleep of 3, unless the process is held
up so long that the alarm falls due first; it is not counted as a disagreement. A customer of
the barber turned away (`pr13task4.c:72`) is not counted in `served_customers` either, which
the instance of `BarberDay` does not get to.

The six disagreements are not repaired in the models: the passing runs have the same
actions, and their properties hold nevertheless. So `ChairsBound` holds although updates of
the counter are lost, and `InStep` although stale entries stay in the table.

### Fairness

Weak fairness of every thread's own steps: the scheduler runs every thread, a lock that
stays free is got. It is asked for each thread as a whole, not for each action, where the
places of a thread exclude one another. Beyond that:

* `OrderedForks` (its part of `NobodyForgotten`) has strong fairness of taking a fork: a philosopher
  sleeps for half a second or more before locking a fork again (`pr13task3-1.c:29`), so that
  one who waits for it gets it before. `NoCircularWait` needs none.
* `ThreadPool`: `Handle` is fair, that is, clients send or close in the end. No connection
  ever has to come, and malloc or select may always fail.
* `MsgQueueApp`: the dropper drops in the end. `MsgQueueAppMain` has no dropper.
* `HttpPager`: the server ends its answer, and the user types a space again and again
  (strong, as the typed keys are bounded); what else is typed, and when, is free.
* `TaskQueue`, `RequestQueue`: main's last sleep is taken to be long enough, as the code
  itself does (`pr12task1.c:173`); that it need not be is a matter of durations.
* `SelectProxy`: the server runs. Clients owe nothing. EINTR may come any number of times.
* `MCProcesses`: each thread or process that can go on does (`Process(k)`, weak). Of the mailbox
  these are the reader and the writer, but not the user who types its next line. No mutex is
  fair, so `MainEnds` of `Employee` allows main to wait for a mutex that is free again and
  again. Users are not made to type, nobody is made to be killed or started, and the generator
  of numbers is not made to go on: `Settled` says for each program what is owed without them.

## 4. What is proved

Every invariant and every action property that a passing run checks is also a theorem, for
every value of the constants, and so are the three refinements (`ImplementsChannel`,
`ImplementsWorkQueue`, `ImplementsDining`). The proofs use `Init` and `[Next]_vars` only; no
theorem needs the fairness conditions of its specification. Where a run holds several
programs, the theorem is about `MCSpec`, for any of the programs, and follows from one
about each program. An invariant is seldom inductive as it stands; what had to be added to it
is the content of the proof, and named below.

### Assumptions

They are named in the modules that declare the constants, and TLC evaluates them on every run.

| assumption | says | because |
|---|---|---|
| `ThreadsAssumption`, `SizesAssumption` (queue) | finite, disjoint sets of callers; a ring of at least one slot, buffers of at least one byte | `main.c` has four threads; the sizes are positive macros |
| `AppAssumption` | main creates every thread once; each put has an id of its own; a text is not empty, and one character of it fits in slot and buffer | `main.c:10-14`, `main.c:70-73` |
| `ListQueuesAssumption` | finitely many producers and descriptors, at least one worker; no identity is also a null pointer | `proxy2.c:153`, `NUM_HANDLER_THREADS` |
| `PhilosophersAssumption` | at least two philosophers | one would lock the same fork twice |
| `FoodAssumption`, `ChairsAssumption`, `TimesAssumption`, `ProductsAssumption` | amounts, chairs and times are counts; a cat eats no more than what has to be left for it; `my_sleep` is not called with 0 | the macros of the programs |
| `SizesAssumption` (`ProxyServer`), `SelectProxyAssumption`, `HttpPagerAssumption` | descriptors and sizes are counts; the select proxy has fewer slots than the kernel has descriptors, and relays less than its buffer holds; a page has a line and a read at least one byte | the macros of the programs |
| `SemAssumption`, `CountersAssumption`, `EmployeeAssumption`, `NumbersAssumption`, `MessagesAssumption` | counts are positive, finitely many counting threads, a structure of at least two parts | the macros of the programs |

### The queue: `MsgQueueProofs`, `ChannelProofs`, `MsgQueueAppProofs`

* `MsgQueueProofs`. An inductive invariant `IInv`, over types that leave signs and lengths open
  (`Types`): a thread is
  between lock and unlock exactly when it owns the mutex (`MutexInv`); one that is changing the
  ring keeps a drop out, and only a drop under way posts for one (`DropInv`); the tokens on
  `empty`, those that callers hold or owe, and the messages add up to `MAX_QUEUE_SIZE` while the
  queue is not dropped, to no less afterwards, and the same for `full` (`TokenInv`); `count`
  stays within the ring (`CountInv`); and `DropWakesAll`. `TokenInv` alone is not inductive: a
  put between its test of `dropped` and its increment must know that no drop comes in between,
  which the mutex says, and after a drop the bounds of `count` no longer follow from the tokens.
  How one move changes the number of threads at given places is a lemma (`MoveCount`) of its
  own. `Tokens`, `SlotsReady`, `DropWakes` and `Frozen` follow from `IInv`. With `LengthInv`, what a
  text may measure on its way through the two cuts, so does `TypeCorrect`: that `count` is never
  below 0 is no fact about types but follows from the tokens.
* `ChannelProofs`. `ChannelImplemented`: the queue is a `BoundedChannel`. A put or a get takes
  effect when `head` or `tail` has moved and `count` follows; every other step stutters. Beside
  `IInv` and `SlotReady` this needs the ring (`RingInv`, theorem `RingIsWhole`): `tail` is
  `head + count` modulo the size, a message in its slot is not yet counted until `tail`
  moves, and the one copied out is still the oldest until `head` does. Lemmas about `Contents`,
  the ring read as a sequence, say that moving `tail` appends to it and moving `head` takes its
  first, which is where the remainders are dealt with.
* `MsgQueueAppProofs`. `AppUsesQueue`: the threads of `main.c` call the queue as `MsgQueue`
  says any threads may, so its theorems carry over (`AppTokens`, `AppChannel`). `AppInv` says
  for every message that was put where it is (`NoneLost`), that no two consumers have the same
  one (`UniqueInv`), and that what a producer put first is ahead of what it put later, in the
  ring, in the consumers' hands and in their logs (`OrderInv`). `NoOvertaking` (`InOrder`) and
  `EachOnce` (`ExactlyOnce`) follow; the second because a ring with nothing in it and idle
  consumers leave only the logs.

### The lists: `ListQueuesProofs`

What `Chain` collects by walking along `next` is compared with a sequence of distinct nodes in
which each points to the one after it (`IsList`). That the walk finds this sequence and no
other is proved by a least counterexample (`NatLessThanWellFounded`, `WFMin`), since induction
over the steps is not to be had; from then on a proof only appends to and takes from a sequence.

* `TaskInv`: ids go out in the order drawn, so that the tasks taken and those in the list are
  0, 1, 2, .. without a gap, and the counter is their number; it gives `CountsAlwaysMatch`, for
  the two programs with a counter, and `TasksStartInOrder`.
* `ReqInv`: as above, and nobody sleeps, or is about to, while a request is in the list and no
  signal is due. That needs to know who holds which of the two mutexes (`NoSignalIsMissed`).
* `PoolInv`: list, workers' hands and main share no descriptor, and have all that are open
  (`Owners`), for which one has to know where a worker holds the mutex and where a descriptor
  (`PoolPlaces`); `EveryFdHasOneOwner` is the property.
* `ListsAreWorkQueues`: each step of each program appends, takes the first, or leaves the
  sequence alone.

### The tables: `PhilosophersProofs`

* `pr13task3-1.c`. The invariant (`OrderedInductive`) is that forks and places agree
  (`HoldsForks`) and that a fork is held by one of its two users. For `NoCircle`, follow the
  chain of who waits for whom: whoever blocks somebody has at least one fork, so if it waits, it
  waits for its second fork; and of two such philosophers in a row both are even and the second
  sits to the right of the first (`OnlyEvenWait`). Two even neighbours exist only where the
  table closes, for an odd N, and three in a row nowhere.
* `pr13task3-2.c`. Forks and places agree (`BothOrNone`), and every sleeper has a neighbour
  that eats: putting forks down wakes all sleepers, so that a stale one cannot stay
  (`NoLostWakeup`).
* `OrderedDining` and `TryDining` map eating to eating. `NobodyWaitsInACircle`,
  `NobodySleepsThrough` and `NeighboursTakeTurns` in `ExercisesProofs` state all this for the
  specification that the run checks.

### `ExercisesProofs`

* The line: the balance for any number of products (`LineConserves`), no product before its
  parts (`PartsFirst`), nothing left on a semaphore when main destroys it (`AllUsed`). Added: a
  shop that holds parts has a product to finish, and main destroys last.
* The cats: `NobodyMissesOut` is inductive with the types (`NoWakeupIsMissed`).
* The barber: `ChairsSuffice`, although updates of the counter are lost. A customer between its
  test and its store has seen a free chair (`ChairsLeft`) and is alone among the customers
  (`OneAtTheDoor`); the barber, under the other mutex, only writes smaller numbers.
* `my_sleep`: `SleepsAndRearms`. The invariant follows the two alarms: what is left of the
  earlier one is known exactly from `alarm(0)` on (nothing, if it has fired by then), the new one
  comes late enough, and the time between the two without an alarm is counted. From these it is
  exact when the earlier alarm is lost, and how late the one set again is.

### `EventLoopsProofs`

* `proxy_server.c`: `ArraysInStep` and `NoFdIsForgotten`, for any table and any reuse of
  numbers; added is that every used entry but the listener's has recorded a pair. Closing moves
  the last entry to the place of the closed one: that this keeps both arrays in step is one lemma
  (`ClosingKeeps`), for the two actions that close.
* `proxy.c`: `SlotsMatchFds`; added is that a slot not in use holds no descriptor and that no
  more clients are in the backlog than have connected. While a slot is free a free descriptor exists,
  by counting. `LiveClientsAreKept` is the safety half of `HangupsAreNoticed`, and an action
  property: a client that has not hung up is cut off only when its buffer is full.
* `http_client_select.c`: `PagesCountExactly`. The bytes received have not been shown before
  (`Pager!TypeOK`), so that the newlines among them that are printed add to those shown; and
  printing stops at the first newline that fills the page, so never beyond it.
* `IndexesInBounds` for all three.

### `ProcessesProofs`

* `pr10t2.c`: `TokenIsOne` (`OneToken`) for any number of runs, increments and kills. Added: what
  a run has found at each place (a semaphore is used only under the name of a run that created
  it, and only after it looked it up), and that nobody is beyond its wait at a semaphore before
  the creator's SETVAL: without it the SETVAL could make a second token. `NoIncrementIsLost`:
  from the one token follows that at most one process is between its load and its store
  (`OneInside`), so that a segment has all increments, whoever is killed, unless two runs work on it with
  different semaphores; a reset between the load and the store makes it too high and never too
  low, for what is stored is at least what has been counted since.
* `pr10t1.c`, `pr11task3.c`: under the mutex the counter is the number of increments done
  (`SafePhase`). Without it, it is at most that, and at least 2 in the end unless everyone counts
  to 1 (`UnsafePhase`): whoever stores for a second time has read a counter that was not 0.
* `pr11task1.c`, `pr11task2.c`: `NeverMixed` for any number of parts. Who copies holds the mutex
  (`Exclusive`), and how far a copy has got (`Whole`): the parts a writer has done are its own,
  those main has read are those still in the shared structure, which outside a writer's
  critical section is one employee.
* `pr11task4.c`: `shared_result` is the sum of what each thread has added (`Sums`), whose members
  are summed in any order; a thread inside the mutex has read the present value.
* `pr13task1.c`: `NobodySleepsBeside` is inductive with the types.
* `pr14t*.c`: `AnswersInTurn`. The line of a client that waits is in exactly one of three places:
  on its way, in the server's buffer, on its way back (`InTurn`).
* `pr9t1*.c`: lines come out in order (`MailOrder`), and three debts are kept (`MailDebts`): a line
  shown again, a line not shown and a show of "exit" are each paid for by a kill or an end of
  input, also when it is not shown yet but bound to be (`Again`, `Unread`, `ExitShown`).
* `pr9t2*.c`, `pr8t3.c`: what is out, in the receiver's hands and in the queue are three stretches
  of the order sent (`SysVOrder`, `PipeOrder`). In the pipe each message that has left it is
  printed, about to be (`Held`) or merged (`PipeShown`).
* `NothingLost`, `NothingSkippedOver`, `ProcessesTokens`, `ProcessesNeverMix` and
  `ProcessesDoNotSleep` are these facts as the run states them.

### Model-checked only

What needs fairness: `AllThreadsFinish`, `AllDone`, `NobodyForgotten`, `EverybodyFinishes`,
`LineFinishes`, `HungryCatsAreCalled`, `AwakesOrMissesAlarm`, `HangupsAreNoticed` (but its safety
half) and `TerminalRestored`. Weak and strong fairness are defined by ENABLED, which the prover
does not reason about, and a sequence of threads each of which must go on is a proof by induction
over what is left. Also the six disagreements, which are counterexamples of an instance.

## 5. Not modelled

* Programs without an M in the inventory: they run in a straight line, or (`pr7t1.c` ..
  `pr7t6.c`) have one process, a handler that prints and the user's keys; there is no second
  actor whose step could come at the wrong time and no promise to hold against it.
* `demonstrate_trylock` of `pr11task3.c` (one thread, one outcome) and
  `demonstrate_thread_identification` of `pr11task4.c` (it prints identifiers).
* In `pr10t2.c` a run may attach a segment before, and look for the semaphore after, another
  run has removed both: then one segment has two semaphores, and with a third run two
  processes may be inside. `CountsAreExact` excepts such a segment, and the run has two
  starts only; `OneToken` is about each semaphore and is proved for any number of runs. Two
  runs of `pr10t1.c` at once share the segment as well, and it has no lock to speak of.
* In `pr9t1wr.c` a line of 1023 characters, whose text reaches up to the flag without a
  terminating byte: a matter of the print, not of the protocol. In all programs an access to a
  shared variable is taken to be one access to memory, in the order written (`volatile` or
  not): what the compiler may do to the unprotected ones is not modelled, except that
  `SharedCounter` and `Barber` split an increment.
* The keys of `http_client_select.c` are bytes: the end of standard input, and ^C, which ends the
  process with the terminal as it is, are left out.
* Set-up before a loop starts (sockets, arguments, URLs, terminal flags), the wording of what
  is printed, and `STATE_CACHED_RESPONSE`/`handle_write` of `proxy.c`, which is never reached.
* SIGPIPE, which ends `proxy2.c` when a client closes early (in `ProxyServer` it is the action
  `Killed`, in `EchoServer` of `SendToNobody`): a listed hazard. Descriptors above FD_SETSIZE in
  `proxy.c`, whose table is far smaller.

## 6. Plan

The order in which the modules were written, the most important first: queue, application,
channel; list queues; tables; line, cats, barber, `my_sleep`; event loops; counters, copies
and joins; mailbox, System V queue, pipe and sockets; and the theorems in the same order. All
programs with more than one actor have a module, and all safety properties a theorem. What is
left:

1. Abstract specifications of the mailbox and of the System V queue (a channel that repeats
   or loses only at a kill), next to `BoundedChannel`, with the refinements proved from
   `MailInv` and `SysVInv`.
2. A specification common to the three event loops of what a closed descriptor may still be
   used for, so that the disagreement of `ProxyServerForward` is stated once.
