# A TLA+ development of virthttp

virthttp is an HTTP server in front of libvirt: it maps requests on
`/libvirt/domains` and `/libvirt/networks` to calls of libvirt and answers in
JSON. This directory holds TLA+ modules that model its logic, TLC
configurations that check them on small instances, and TLAPS proofs for every
value of the constants. Paths below are those of the repository, relative to
`src/`; `include/` and `src/` are its own directories.

`PROJECT.json` maps each definition to the lines it models, lists the runs, a
plausible bug for each property that the property catches ("mutants", the
definitions whose comment begins with "Slip"), the hazards, and the theorems.

## 1. The system

### Components

| Component | Where | State | Operations |
|---|---|---|---|
| `main()` | `src/main.cpp` | the configuration; `ioc`; one `AsyncStore` | start the listener; run `max(1, http_threads)` io threads |
| `TcpListener` | `include/wrapper/protocol_support/tcp_listener.hpp` | acceptor | `do_accept`, `on_accept` |
| `Session` | `include/wrapper/protocol_support/http1/Session.hpp` | strand, buffer, `req_`, `res_` | `do_read`, `on_read`, `SendLambda`, `on_write`, `do_close` |
| `handle_request` | `.../request_handler.hpp` | none | refuse, HEAD, launch, retrieve, answer |
| `AsyncStore` | `include/wrapper/handlers/async/async_store.hpp` | `elems`, `last_id`, `mut` | `launch` and its lambda, `value_if_ready`, `gc` |
| key encoding | `.../async/async_handler.hpp` | none | `hex_encode_id`, `numeric_id_match`, `hex_decode_id`, `handle_async_retrieve` |
| `handle_json` | `include/wrapper/handler.hpp` | connection, `objs`, `obj`, `JsonRes` | gates, resolve, dispatch, loop over objects |
| `Resolver` | `include/wrapper/solver.hpp` | none | one object by a search key, or all with flags |
| `JDispatch` | `include/wrapper/dispatch.hpp` | none | by JSON type: the value, or its items |
| `depends` | `include/wrapper/depends.hpp`, `src/wrapper/depends.cpp` | `outcomes` | `check_depends`, `handle_depends` |
| domain, network handlers | `include/wrapper/handlers/` | a reference to `obj` | `create`, `query`, `alter`, `vacuum` |
| domain actions | `include/wrapper/domain_actions_table.hpp` | none | name, memory, max_memory, autostart, power_mgt, send_signal, send_keys |
| `JsonRes` | `include/json_utils.hpp` | results, messages, errors | `result`, `error`, libvirt's last error |
| owning classes | `include/virt_wrap/` | `underlying`, a libvirt pointer each | construct, move, copy, assign, destroy, `ref` |
| bindings | `include/virt_wrap/impl/`, `utility.hpp`, `TypesParam.hpp` | none | some 260 methods, of which the handlers use about 40 |
| parsers, negotiation, flags | `include/urlparser.hpp`, `include/wrapper/decoder_support/`, ... | none | pure functions of their input |
| flat map | `include/flatmap.hpp` | one or two vectors | insert, assign, `operator[]`, erase, find |
| enumerations, logger, type traits | `include/virt_wrap/enums/`, `include/logger.hpp`, ... | tables | sequential |

### How they interact

A connection has a `Session`. Its handlers run on any io thread, one by one in
the session's strand. `on_read()` calls `handle_request()` and, through
`SendLambda`, starts the write; `on_write()` starts the next read or closes.
`handle_request()` is synchronous: unless the target has `?async`, it runs
`handle_json()` to its end on the io thread. With `?async` it moves the request
into a closure that `AsyncStore::launch()` runs on a thread of its own, and
answers with a key; `/async/<key>` then retrieves the result. The store is the
only state of virthttp that several threads change.

`handle_json()` opens a libvirt connection of its own, resolves the target to
libvirt handles, and calls a handler for each. The world it works on is
libvirt's, which other requests, other clients and the guests change at any
moment. Errors go to the `JsonRes` of the request, together with libvirt's last
error, which libvirt keeps per thread.

### What is hard

* **Concurrency.** Two io threads and any number of task threads share the
  store; part of `launch()` runs outside its mutex. Sessions share io threads.
* **A world that changes.** An object that was listed is gone when it is
  queried; the state that a prerequisite tested is not the state when libvirt
  is called; libvirtd goes away.
* **Partial failure.** One of several objects, items or actions fails, and the
  answer must say which; exceptions cross threads through futures; nothing
  catches one on an io thread.
* **Delivery.** Clients hang up between launch and key, key and result.
* **Stale values.** A request that was moved from; libvirt's last error; the
  index in `depends`, which is one into the outcomes so far.
* **Memory of a C library.** What libvirt allocates has an owner only by
  convention; lists are counted and fetched in two calls, between which they
  change; every function has its own idea of what a status means.
* **Limits.** A store that is full, keys that wrap and are used again, an
  expiry that overflows.

## 2. The modules

| Module | Models | State | Lines of argument |
|---|---|---|---|
| `AsyncResults` | what the store promises | `status`, `ticket`, `down` | abstract |
| `AsyncStore` | `AsyncStore` | `elems`, `last_id`, `mut`, where each io thread and each task is, the clock | implements `AsyncResults` |
| `AsyncStoreProofs` | | | 11 theorems |
| `HexId` | the key on its way to the client and back | the shifted copy, the text, the decoded value | |
| `RequestText` | `TargetParser`, `CSVIterator`, `target_get_composable_flag()`, `handle_compression()`; extends `HexId` | the text that is left, and what was read of it | |
| `RequestTextProofs` | | | 5 theorems |
| `Server` | listener, sessions, io threads, `handle_request()` | per connection: operations, strand, `res_`; per thread: the session it is in | uses `AsyncResults` as its store |
| `ServerProofs` | | | 5 theorems |
| `HandleJson` | `handle_json()`, resolvers, dispatch, domain and network handlers, the handles of a request | the connection, the handles and who owns them, the loops, the answer; libvirt's objects | |
| `HandleJsonProofs` | | | 8 theorems |
| `PatchActions` | dependencies between actions, the outcome of each action, libvirt's last error | `outcomes`, `errors`, `lasterr` | |
| `PatchActionsProofs` | | | 7 theorems |
| `PowerMgt` | one action in detail: `power_mgt` against a domain that changes | the domain, what each request has read of it | |
| `PowerMgtProofs` | | | 3 theorems |
| `Ownership` | the special members of the nine classes that own something of libvirt's | `underlying` of every variable, libvirt's reference counts | |
| `Bindings` | what every method of the bindings makes of libvirt's answer; extends `Ownership` | the call, its buffer or array, the blocks nobody has freed | |
| `BindingsProofs` | | | 8 theorems, 3 of them about `Ownership` |
| `AssociativeMap` | what an associative container promises | `map`, `ret` | abstract |
| `FlatMap` | the four containers of `flatmap.hpp` | their vectors, and what the last operation returned | implements `AssociativeMap` four times |
| `FlatMapProofs` | | | 6 theorems |

`MCAsyncStore`, `MCServer`, `MCHandleJson`, `MCPatchActions`, `MCPowerMgt`,
`MCFlatMap`, `MCRequestText` and `MCBindings` name the sets of requests, keys or
items, and the symmetries, for TLC.

### AsyncStore

The grain is the mutex's: a `lock_guard` region is one step, since every access
to `elems` and `last_id` but one is inside such a region. The exception is the
test of the size in `launch()`, which `Refuse` and `Admit` make a step of its
own; `LockForLaunch` takes the mutex. The search of `get_free_id()` has one
step per key (`ProbeTaken`, then `Insert`), as it is a loop that may not end.
`StartFails` is `std::async` that cannot start a thread. A task goes through
`FcnReturns`, `Housekeep` (the two lines under the mutex) and `BecomeReady`, or
through `FcnThrows`, which skips the housekeeping. `value_if_ready()` is
`MissingEntry`, `StillRunning` or `Extract`, with any key a client may write,
its own or not; it rethrows a task's exception, which ends the process
(`terminated`).

`elems[id]` in the lambda is `operator[]`: `Housekeep` makes an entry without a
future when there is none. That this never happens is `NoOrphans`, not a guard.
`InitExpire` is -1 because `seconds::max()` overflows to a second before the
epoch when it is converted to the clock's nanoseconds.

`gc()` is called by nothing. `NextWithGc` adds a caller, and the kindest one.

### Server

Asio performs reads and writes outside the io threads (`ReadDone`,
`WriteDone`, ...); a completion handler waits in the session's strand until an
idle io thread runs it (`Handler`). `on_read()` is `OnRead`, which takes the
thread, and the step that answers, because `handle_json()` lies in between;
meanwhile all other sessions go on. A session is destroyed when the last handler
that refers to it starts no operation: `session[c]` is "over" then. The request
that a task's closure took away is read again as an empty one
(`ReplyMoved`). A launch accepts any free key of the abstract store: which of
them it is, and why it is free, is `AsyncStore`'s part, and `Refinement` is what
lets `Server` use `AsyncResults` in its place. The client is not sent the key but
what `hex_encode_id()` makes of it (`Told`), from key 16 on another number.
`taken` is no variable of the code: it remembers which connection took a result.

### HandleJson

One request. `Vanish`, `Appear` and `LoseDaemon` are the rest of the world, and
take part between any two calls of libvirt. Handles have numbers in the order
in which they are opened; `objs` and `obj` say who owns them and `open` which
ones libvirt has not freed, so that a handle that is freed twice or never shows
up as a difference between `open` and `Owned`. Calls that libvirt may refuse for
reasons of its own may always fail. The queries that read more than once are more
steps than one where the reads differ in what a failure leads to: the info of a domain
and then its OS type (`ReadInfo`, `ReadOsType`), three properties of a network and then
its bridge (`DescribeNetwork`, `ReadBridge`). "undefined" is where the code has
undefined behaviour: a null pointer where RapidJSON wants a string, a member of an
object that has none, a member added to what is no object, and `GetString()` of a value
that is none, as of a `request` of `power_mgt` (`AlterMistyped`). `launch_security_info`
is a "list", as its element is built in the same way.

### PatchActions and PowerMgt

`PatchActions` is every PATCH on domains: the loop over domains, the loop over
actions, `check_depends()`, and per action whether it is called and with what
outcome and error. `kind` abstracts an action to what its handler can do.
`PowerMgt` opens up the action that reads before it writes: `GetInfo`, then the
prerequisite and the flags (`Refused`, `Passed`), then `Call` or `CallFails`,
with `Changes` in between.

### Ownership

The variables of a program hold objects of one class (`cls`). `Objects` are
addresses, which libvirt hands out again once the last reference is gone, so that
an owner that was left behind comes to own a stranger's object. The classes
differ by their assignment: those of `Resetting` destroy the left side, take the
pointer and null the source, in this order (`MoveOnto`, with both sides possibly
the same variable); those of `Swapping` swap; `Stream` has a copy and a move of
its own; `TypedParams` has none. A connection is also referred to by libvirt's
own objects (`Lend`, `GiveBack`), and `GetConnect` takes the reference that
`getConnect()` needs.

Five operations do not keep the count: the move of a `TypedParams`, the copy of a
`Connection`, a move onto a `Stream`, a `Stream` that is copied onto itself as
its last owner, and `Connection::ref()`, which nothing undoes. The model does
them (`slip` says which) and ends there, as what follows, a double free in the
end, has no meaning.

### Bindings

The methods of all classes are listed by name, class by class in the order of the
source, under the shape of their translation; a shape is what a method does with
an answer, and methods of one shape differ by the libvirt function that they call. The
steps of a call are libvirt's calls and what is between them: `Count` sizes a
buffer, other clients add or remove items (`OthersAct`), `Fill` fills it,
`ReturnBuffer` refuses, converts or gives it; `FetchArray` has libvirt allocate
an array, `ReturnArray` gives, copies or adopts it. Two methods have libvirt write more
than they made room for (`Overflow`): `getVcpuPinInfo()`, whose maps are longer than a
byte when there are more CPUs than a byte has bits (`CpusPerByte`), and may be
`getCPUStats()` of several CPUs. `UseAndDrop` is the caller,
who reads every item and lets the answer go. Item i of an answer is block i,
`blocks` are those that nobody freed yet. A method that looks an object up or
makes one is `Obtain`, and between two calls the program moves its handles about
(`Operate`). A call that ends in `fault`, or leaves a block behind, is the last.

### HexId

A 32-bit key is a function from places to nibbles, so that shifts by multiples
of four are what they are in the code and no arithmetic beyond TLC's integers is
needed.

### RequestText

A behaviour reads one text: a target, a value of `Accept-Encoding`, or a key,
which is `HexId`'s. A step is a match of a regular expression or a round of a
loop, so that what one match leaves is what the next one starts from
(`todo`). Targets are sequences of characters, and the regular expressions are
operators on them; a header is a sequence of words, commas and weights. The
properties read the same text in another way, as fields between separators, and
compare. `Compress` is `libdeflate::compress()`: it fails, or the body is replaced, or
there is no room. Its buffer is as long as the body and libdeflate is told of the
greater `compress_bound`, so that text that gets longer is written past the end, and
`resize()` then fills what was written with zeros, if the program gets so far.

### FlatMap

Each operation is applied to the sorted and the unordered container, over pairs
and over two vectors, in one step, so that the results of all four can be
compared. `insert()`, `emplace()` and `try_emplace()` differ in how they get at
an entry and not in what they do with it: `Insert` is all of them. `Store` is `operator[]` with
the assignment that its reference is for. An iterator in a result is the entry
it points at when it is returned; `find()` and `count()` are one action. `std::lower_bound` is
`LowerBound`, a choice that is only unique when the keys ascend. The parser of a target and the
negotiation of the encoding use `flatmap`, which `RequestText` has as a function; nothing uses the other three at this
commit.

## 3. Runs

| Run | Instance | What it shows |
|---|---|---|
| `async_all` | 2 io threads, 4 tasks, 2 keys | keys, entries and results are never mixed up, an overfull store included; the store implements `AsyncResults`; unless a launch searches a full store, every launch returns and every task is retrieved; ids are incremental |
| `async_full` | 2 threads, 4 tasks, 3 keys | finding: a launch gets into a full store |
| `async_gc` | 1 thread, 2 tasks, 3 keys | finding: `gc()` discards what has not expired |
| `request_text` | all targets of up to 4 characters after the slash, or up to 5 in the queries or in a value; headers of up to 5 words; 256 keys of nibbles 0 and 10 | parts, queries, flags and encodings are those a reader finds; the decoder reads a hexadecimal number; keys below 16 come back |
| `hexid_roundtrip` | the same keys | finding: greater keys do not come back |
| `server_all` | 2 connections, 2 threads, 2 requests each of 7 kinds | one thing at a time; answers fit and are in order; sessions end for a reason; a result reaches one client, once, or is lost with the one whose connection took it |
| `server_answered` | 2 connections, 1 thread | every request is answered |
| `handle_all` | 2 objects, all requests with up to 2 items | one owner per handle; all freed; the answer accounts for each object |
| `patch_all` | up to 3 actions, with 9 dependencies or of 6 kinds, 2 domains | dependencies are respected, and nothing else is skipped; failures are reported; libvirt's error is that of the action |
| `power_all` | 2 requests of up to 2 actions | refusals and calls have their reason while the action is at work |
| `bindings_all` | 3 addresses, 3 variables, 9 classes; every method on up to 3 items | references are counted; memory goes wrong, is left behind or is not delivered by the calls that are named, and by no other; answers are read as they were meant |
| `flat_map` | 4 keys, 2 values, any operations | keys in order, each once; the layouts agree; entries keep their positions; each container is a map |

### Bounds, and why they are enough

* Two keys and four tasks in `async_all`: `launch()` refuses at one entry (the
  code refuses at `numeric_limits::max()`, one less than the number of keys), so
  that the store gets full, gets overfull by the race of two threads, is searched
  in vain, and keys wrap and are used again. `async_full` and `async_gc` have
  three keys.
* The clock has two values where expiries are told apart, and stands still where
  they are not (`MaxTime`). `async_gc` lets it pass an expiry.
* Two threads, two connections: everything that is shared is shared by pairs.
  Two requests on a connection are what pipelining and `close` need. The keys of
  `server_all` and `server_answered` are 0 and 16: one that is told as it is, and one
  that is told as the other.
* Nibbles 0 and 10: a digit and a letter. Each nibble goes through the same
  code, and all eight places are there.
* Texts of four or five characters over an alphabet of the separators, a letter
  and a digit: two queries of one name with values, three values with an empty
  one before, between or behind them, a fragment behind each of them. What a
  match starts from is a suffix of the text, so that longer texts repeat these.
  Headers of five words have three encodings, or two with a weight.
* Two objects and two items: the first and the one after it, which is where
  handles are moved over one another and loops end early.
* Four keys: an entry before, at and behind the one that an operation works on,
  and a last one that is none of them. No bound is needed on the number of
  operations.
* Three items: none, one, and a first that is not the last; a count that is
  larger, smaller or equal to what is fetched. Three variables on three addresses:
  an assignment from, onto and apart from a third owner, and an address that is
  used again. A byte of a map of CPUs has two bits (`CpusPerByte`; eight in
  libvirt), so that three CPUs are more than it has room for.
* Three actions: a dependency on an earlier, on the same and on a later one, and
  a chain of two; two domains, so that outcomes do not carry over.

The type invariants of `AsyncStore`, `HandleJson`, `PatchActions`, `PowerMgt`,
`Server` and `Ownership` are proved (section 5) and not run; so is that of
`RequestText`, `TextsOK`.

Symmetry is used in runs of invariants only. `CHECK_DEADLOCK FALSE` stands where the program
really stops: the process was terminated, the tasks are all retrieved, the
clients have sent everything, the request is over, a call has gone wrong.

### Fairness

* A thread inside `launch()` and a task's thread go on (`WF`): the system
  schedules them. A running task ends, as libvirt's calls return. Weak fairness
  on the mutex is enough because launches are finitely many.
* A client asks for its key until it gets the result (`WF` of `Extract`).
* `NothingStuck` and the fair part of `ImplementsResults` are conditional on
  `[]FullStoreRefuses`: a launch that searches a full store holds the mutex for
  ever (finding 1), and then nothing can be promised. That the condition is met by
  one io thread is a theorem, `OneThreadNeverSpins`.
* In `Server`, the network moves (`WF`), and a handler that is ready again and
  again gets a thread (`SF`: Asio's queue is first come, first served, so that a
  busy thread does not pass over a session for ever).
* Nothing is assumed of clients that connect, send or hang up, nor that an
  exception is thrown or not.

## 4. Findings

Each is a run that ends in a counterexample.

1. `async_full`: `launch()` tests the size before it locks. With two io threads
   both may pass for the last place and take the last two keys. The size is then
   beyond the limit, which the test is for equality with: the next launch passes
   as well, finds no key, and searches for ever with the mutex held.
   With one io thread, the default, this cannot happen (`OneThreadNeverSpins`).
2. `async_gc`: the comparison of `gc()` is the wrong way round. `gc()` is not
   called at this commit.
3. `hexid_roundtrip`: `hex_encode_id()` shifts by 16 bits per digit instead of
   4, so that from the 16th asynchronous request on clients get a key that is not theirs.

Some weaknesses have no line in the repository that says otherwise; they are
exceptions that properties have to make instead:

* `EachAccountedFor`: a subquery that nobody has makes `query()` return `SKIPPED`,
  where `handlers/base.hpp` promises `SUCCESS` or `FAILURE`, and the client is
  told of success without a result.
* `FailuresReported`: `send_keys`, and a `send_signal` without its arguments,
  fail silently.
* `LibvirtErrorFits`: after them, an error may go with another action's libvirt
  message.
* `UndefinedForAReason`: a domain that vanished before its OS type is read is a
  null pointer for a JSON string; a network that is named, and has no bridge or vanished
  before it is read, is another; `fs_info`, `launch_security_info` and DHCP leases build
  their elements on JSON nulls, which RapidJSON asserts against; a PATCH body that
  is no action dereferences the end of an object; and a `request` that is no string,
  or a flag that is none, is read as one.
* `RefusedForAReason`, `CalledForAReason`: `getInfo()` ignores the result of
  `virDomainGetInfo()`, and `isActive()` takes the error value -1 for true, so that both
  properties hold only up to moments in which libvirt does not answer.
* `FirstAppearance`: `k=v=w` is two queries, `k` and `w`, and in a target `/?x`,
  which has no path, the slash is taken for the question mark and the query is
  named `?x`.
* `FlagsAsListed`: an empty value refuses the whole list, unless it is the last.
* `EncodedAsAsked`: `gzip;q=0` gets gzip, as a weight is only looked at for
  `identity`; a `*;q=0` forbids nothing; and a weight behind a blank is not seen.
  `handle_request()` ignores what `handle_compression()` returns, so that an
  answer whose encoding is forbidden is sent all the same. A body that compresses
  to more than its own length has no room in the buffer of `libdeflate::compress()`;
  if the program survives, it is sent under the name of the encoding and is not
  what that name says.
* `OwnersCounted`: the five operations of `Ownership` that do not keep the count,
  and `getAllDomainStats()`, which owns domains that libvirt frees with their
  records.
* `MemoryForAReason` (`Misuses`): a list that shrank since it was counted, in a
  vector whose blanks are uninitialised and freed; views of structures laid over
  an array of pointers; deleters that run off their array; DHCP leases whose
  strings are freed while their copies are returned, which the `dhcp-leases`
  subquery then reads; `getAllDomainStats()` past the first record; parameters
  that are deleted by the local object they are returned from; the maps of
  `getVcpuPinInfo()`, which has one byte for the map of each CPU. The last are always
  wrong when there are more CPUs than a byte has bits. `getCPUStats()` of several CPUs
  may be written past its buffer, too, but its parameters are wrong already.
* `NothingLeft` (`Leaves`): strings returned as, or copied from, a bare pointer;
  structures that are copied and forgotten; `TypedParams` of libvirt's own.
* `ListsDelivered` (`Lost`): wrappers that take a number of items for an error, so
  that only an empty list arrives; `blockStats()`, which takes the status 0 for an
  error and loses what it asked for; names of defined domains, sized by the number of
  the active ones.
* `AnswersTrue`: `setTime()`, `setUserPassword()`, `interfaceStats()` and
  `StorageVol::download()` say yes when libvirt failed; `Domain::isActive()` takes
  a failure for a yes.
* `AnswersFitRequests`: an asynchronous request loses its packet id and its
  "Connection: close"; and its answer names the key of its task only below 16.

## 5. Proofs

The theorems hold for all values of the constants under the `ASSUME`s of the
modules: sets of any size, `NKeys` at least 1, sentinels that are no members of the sets
they are used with. TLC evaluates those assumptions on every run. Three say more:

* `BindingsAssumption`: the addresses and the variables include `1 .. N`, as a list
  of N items has to go somewhere, libvirt's answers are not `Garbage`, and a byte
  of a map has at least one bit.
* `TargetsAssumption` and `HeadersAssumption`: a target starts with a slash
  (`handle_request()` turns the others away), and a blank follows each comma of
  a header; why is said there.
* `FlagsAssumption` and `CodingsAssumption`: no name of a flag is empty or has a
  comma (the tables in `virt_wrap/enums`), and the three encodings that
  `handle_compression()` looks for are words of the kind that its pattern matches.

### AsyncStoreProofs

The inductive invariant `Inv` is `TypeOK`, `OneSearch`, `TicketsKept`,
`NoOrphans`, `ExpiryFollowsTask` and `JobsHeld`. The two directions between
tasks and entries (`TicketsKept`, `NoOrphans`) need each other: `Housekeep`
writes under the key of the task, which is only its own entry by
`TicketsKept`, and `Extract` leaves no task without an entry only because no two
entries have the same task. `JobsHeld`, that two threads never launch the same
task, keeps `Insert` from giving a task two entries. `Inv` is proved for
`SpecWithGc`, and with it for `Spec`.

* `AnswersAreRight` is about a step, and is proved from `Inv` before it.
* `Refinement`: `Spec => Results!Spec`, one step at a time under the mapping of
  `clientStatus`. Only the safety half of `ImplementsResults`; the fairness of
  `AsyncResults` remains with TLC.
* `KeysAreIncremental`: `IdsIncremental`, with the invariant `ProbesInOrder`: a thread
  that searches has found every key taken between the last one that was given and
  the one it looks at. While it searches it holds the mutex (`OneSearch`), so that nobody
  gives a key away or takes an entry out behind its back; only `Insert` gives keys.
* `OneThreadNeverSpins`: `FullStoreRefuses` if there is at most one thread. Its
  invariant `Room` says that a thread that has passed the test still has a free
  key, which takes a count of the entries.

### PatchActionsProofs

`Inv` adds `SuccessWasCalled` to the checked invariants: only an action that was
called has outcome `SUCCESS`. Without it an outcome `SUCCESS` does not imply
that the dependency ran, and `ChainHolds` is not inductive. On top of `Inv`,
`Reported` says that errors are about actions that were reached, so that the
next one has none before it is reached; and `Leftover` that a last error nobody
took is of an earlier action on the same domain, `send_signal` or `send_keys`,
with nothing since then that calls libvirt (`MessagesFit`).

### PowerMgtProofs

`Watched` connects what an action holds with what it has seen: the state of the
domain now is in `seen`, and so is the one that was read, unless libvirt did not
answer. From it `CalledForAReason` is an invariant and `RefusedForAReason` a
property of the steps that answer.

### ServerProofs

`Phase` says where a session is: before it is accepted, reading, with a request
in its strand, in a handler, writing, with a response written, failed, or over;
in each, what its operations, its strand, its threads and its response are and
how many answers its client has. That the phases exclude each other is
`OneThing`; that the response in each has the number and the headers of the
current request (`Fit`) gives `AnswersFitRequests` as clients receive it
(`GotFits`). A retrieved key still is the key of its task, as a task that is no
longer new keeps its key (`Steady`). Keys are any natural numbers: of the answer to a launch
the theorem says that it names the key exactly when that is below 16.

For `ResultReachesOne`, a result that has left the store has a place: the response
that a session is about to write, or the nth that a client received (`At`). `Once`
says that it is at one of them at most, and at one unless the client of
the connection in `taken` hung up; `WriteDone` moves it, the other steps leave it (`OnceMoved`, `OnceKept`,
`OnceLost`). A response does not overwrite another because a session that
reads, or is in a handler, has none left (`Clear`). This needs that bodies and the
absence of a response can be told apart (`BodyAssumption`), and that the bound on
requests is a number.

### BindingsProofs

The first half is about `Ownership` on its own. `OwnersCounted` is inductive with the
types (`Inv`). The work is in counting: what an assignment does to the number of
variables that hold a pointer, with both sides equal or not, is a set of lemmas on
cardinalities (`HeldType` and what follows). Each of the operations that slip is
shown to break the count, so that the exceptions are no wider than they need be;
`NoTwoOwners` follows for the classes that cannot be copied.

The second half is about calls, on lists of any length. `IInv` is `Inv` and `CallInv`,
which says for each phase of a call what its shape has allocated (`blocks`,
`array`), asked for and been told, and, once an answer is held, what the answer is:
one disjunct for each family of shapes (`StringHeld`, `BufferHeld`, `ArrayHeld`,
`CopyHeld`, `ParamsHeld`). The four checked properties speak of calls that are over;
without what holds in between they are not inductive. The last step
of each family then either misuses or leaves a block and is a method of
`Misuses` (eight kinds) or `Leaves`, or does not. Of a buffer that is written past
its end (`Overwritten`), the step is `Fill`, and `told` and `asked` say whether it was.
`MisusedForAReason`, `LeftForAReason`,
`ListsReachTheCaller`, `AnswersSayWhatWasSaid` and `CallsCountOwners` all follow
from `IInv`. A call that makes handles starts when the program has none (`Bare`),
so that the handles an array or a list brings are counted one by one.

### HandleJsonProofs

`Inv` adds `Phases`: which of `conn`, `objs` and `obj` may hold anything in each
phase. It is what makes the closing of the connection in `ListThrows` and
`Return` leave nothing open. The proof that `TakeObject` and `Create` preserve
`HandlesOwned` is where the order "destroy, then take, then null the source" of
the move assignment is used.

`Answered` is the invariant of what is reported: results and errors carry the object and the
item the loops are at (`PlaceOf`), nothing is reported before
the loops start (`NothingYet`), and in a creation what was created lies before where
the loop is (`CreatedBefore`). It gives `CreationStops` and `RefusalsDoNothing`.
`Accounts` is that of `AllAccountedFor`, with one case for each verb: `Places` says where the
loops are; of a GET or DELETE, the objects up to `i` have one result or error
each (`ObjectsDone`); of an array of networks, each item before `k` has, unless a
creation before it failed (`ItemsDone`). An answer grows by a
report on the present object or item only, which is what makes "one" out of "at least one".
`Reasons` is that of undefined behaviour: the loop goes through the handles in the order in
which they were opened (`InOrder`), an info that is garbage is of an object
that vanished, and only a network that is named gets as far as its bridge.

### RequestTextProofs

What a loop over a text computes would take an induction over sequences, but an
invariant of the loop does as well: each says that there is a position p in the
text, that `todo` is the text from p on, and that what has been read is what a
reader sees before p. The fields between separators that the properties speak of
are the intervals that lemmas find from the left (`UpToFrom`, `FieldFrom`,
`NextWord`, `NextPart`, `NextQuery`): a match takes the next field, whole, and when
there is no match there is no field left.

* `TextsOK`: everything is a text. It rests on what the library knows of `SubSeq`.
* `FlagsInv` gives `FlagsAreThoseListed`. Reading a value looks past commas, and
  stepping on takes one away: the two agree only up to an empty value, where the
  list is refused.
* `CodingsInv` gives `AnswersAreEncodedAsAsked`: `accepted` has the words before p, the
  identity with its last weight. `CompressEncodes` says what `Compress` leaves: the body in
  its format or, under the same header, what had no room.
* `KeyInv` gives `SmallKeysTravel`: for any nibbles, how much of the key is written
  or read. A key below 16 is one nibble, which is all that `hex_encode_id()`
  gets right.
* `PartsInv` gives `PartsAreThePath`; the nth part is the nth field, by a count of the
  fields before it.
* `QueriesInv` gives `FirstOfAName`: the map has the names of the queries before p, each with
  the value of the first query of that name. `QueryRead` says that `match()` and
  `remove_prefix(1)` leave what stands between the question mark and the fragment.

### FlatMapProofs

From `Keys` being integers and `Default` a value. The lemmas say what the
operations on vectors do to positions (`InsertAtIs`, `RemoveAtIs`,
`MoveLastIntoIs`), that they commute with `Zipped` (`ZipInsert` and its like), and
what they do to the set of entries (`Adds`, `Drops`, `Sets`). That
`LowerBound` and `FindEqual` choose anything at all needs a least position, which
`LeastNatural` gets from the well-foundedness of inclusion on finite sets.

`Inv` is `SortedInv` and `BagInv`: the vector of pairs is what split storage
zips to, its keys ascend or are distinct, and the results are the same. It gives
three of the properties and `SortedKeys` at once. `ContainersAreMaps` is a simulation of each
operation by the operation of that name in `AssociativeMap`, under
`Range(flat)` and `Range(bag)`; it needs `Inv`, as removing one position removes all
of a key only when it is there once. The containers in split storage have the
same entries and results, and so implement the map, too (`SameStep`).

### Only model-checked

* Liveness: `NothingStuck`, `RequestAnswered`, and the fair
  part of `ImplementsResults`. The proof system has no rules for fairness that
  its installed backends can use.
* The three findings, which are counterexamples.
* Deadlock, and what a key of 16 or more becomes on its way (`hexid_roundtrip`).

Every safety invariant and action property of the runs is a theorem.

## 6. What is external

libvirt (its objects, its last error, which calls it refuses), the guest, other
clients of libvirt, HTTP clients, Beast and Asio, the clock and the scheduler
are not under `src/` and are modelled from how the code uses them.

## 7. Not modelled, and why

* **`URLParser`**: nothing uses it. White space in targets, which Beast does not
  let through, is left out of `RequestText`.
* **Exceptions of allocation** in `FlatMap`, and iterators that a caller keeps
  across operations. `EntriesStay` is about positions. An iterator of
  `unordered_split_flatmap` is one (`flatmap.hpp:896`); one of `unordered_flatmap`
  is the vector's (`flatmap.hpp:831`), which `push_back()` invalidates when it
  reallocates.
* **Values** of arguments and results: no property tells them apart. Whether one
  is right, wrong or missing is modelled.
* **Enumerations**: their tables are fixed at compile time; how a name is looked up
  in one is in `RequestText` (`Known`, `Bit`). Nothing uses `EnumSetIterator`.
* **Bindings**: the arguments they pass on, what is in a `CpuMap` (how long it is, is
  modelled), and the constructor of `TypedParams` from a container, which no method needs.
* **Type traits**: fixed at compile time. **Logger**: pure output.
  **config.ini**: read once before anything runs. **Compression** itself: libdeflate's.

## 8. Plan

Modelled and checked: every component but those of section 7. Worth doing next:

1. **Composition**: `Server` with `AsyncStore` in the place of `AsyncResults`
   on the smallest instance, so that the race of `async_full` is seen from a
   client, and the theorem that `Refinement` carries `ResultReachesOne` over.
2. **Proofs** about the findings: that a key of 16 or more never comes back, and
   that the expiry is what `gc()` compares the wrong way round for every entry.

## 9. How to run

    tlc -workers 2 -config AsyncStore_all.cfg MCAsyncStore
    tlapm AsyncStoreProofs.tla

Each run's module and configuration are in `PROJECT.json`.
