# Verification of ferriot

ferriot is a C++ LwM2M client library. This directory holds TLA+ models of its
client, transport, objects and codec, TLC
configurations that check them on small instances, and TLAPS proofs of the
properties that matter most for every instance. Paths below are relative to
`src/`; `PROJECT.json` maps every definition to the lines it models.

## 1. Inventory

| Component | State | Operations | Hard behaviour |
|---|---|---|---|
| Client: registration (`src/client.cpp`, `include/lwm2m/client.hpp`) | `state_`, `registrations_` (location, `expires_at`), `connections_`, `reconnecting_`, `reconnect_attempts_`, `reconnect_ssid_`, `next_reconnect_time_` | `register_with_server`, `update_registration`, `deregister`, `poll` with `check_registration_updates`, `check_connection_health`, `try_reconnect` | one `state_` and one reconnection for all servers; `send()` dispatches requests of the server while it waits, so handlers run inside operations; client and server count the lifetime separately; retries, backoff, a 16-bit attempt counter |
| Client: threads (same files) | `running_`, `event_thread_`, `lifecycle_mtx_`, `mtx_` (recursive) | `start`, `stop`, `run_event_loop`, callbacks | `stop()` releases `mtx_` between its parts; callbacks that call `stop()`; joining the event thread |
| CoAP exchange (`src/transport/coap_client.cpp`) | `ctx_`, `session_`, `psk_identity_`, `psk_key_`, `connected_`, `next_token_`, `current_response_`; for all connections `coap_init_count` | `connect`, `disconnect`, `send`, `poll`, session events | nested sends on one connection, timeouts against late answers, process-wide reference count |
| Firmware Update object (`src/objects/firmware_update.cpp`) | atomics `state_`, `update_result_`; `package_data_` | writes of package and URI, execute, `download_complete`, `update_complete` | CoAP thread, download thread and application use the two atomics without a lock |
| HTTP downloader (`src/transport/http_downloader.cpp`) | `downloading_`, `cancelled_`, `download_thread_`, the file | `start_download`, its thread, `cancel` | joining the previous thread, cancellation, many error paths |
| Server and Security objects (`src/objects/server.cpp`, `security.cpp`) | instance tables, `next_instance_id_` | create, delete, read, write, execute | instance ids at the end of 16 bits; Lifetime and the update trigger act on the registration |
| TLV codec (`src/codec/tlv.cpp`) | none | encode, decode | length forms, widths of ids and integers |
| Request dispatch (`src/client.cpp:354-704`) | objects by id | `handle_incoming_request`, `process_*` | partial failure of a composite write |
| Device, Connectivity, Location objects (`src/objects/device.cpp`, `connectivity.cpp`, `location.cpp`) | fields, error code list; `position_`, `has_position_` | read, write, execute, setters, `update_position` | fields written by the application and read by the event thread, without a lock; multiple resources |
| Types, resources, `Result` | none | path parsing, conversions | out-of-range ids |

The interactions: the event thread calls `Client::poll()`, which calls
`CoapClientImpl::poll()` of every connection; a request found there is
dispatched to an object, whose handler may call back into the client (Server
object, resource 8: `update_registration`). Each operation of the client sends
through `CoapClientImpl::send()`, whose I/O loop dispatches such requests too.
The Firmware Update object calls the application's `start_download`, which
starts the downloader's thread, which reports to `download_complete()`.

What makes the components correct: the reported state does not claim a
registration that is not there; the client's deadline does not outlive the
server's; a registration that should stand comes back after any failure that
ends; retries and backoff are bounded; `stop()` returns and has the client for
itself when it tears it down; no thread object is destroyed unjoined; no
coordinate of an invalid position is answered; a
firmware package that counts as downloaded is there; every download ends and
the object learns of it. Section 6 of this file, and `hazards` in
`PROJECT.json`, list what can go wrong, line by line.

## 2. Modules

| Module | Models | Extends |
|---|---|---|
| `ClientRegistration` | the client's registration life, the `send()` stack and its servers | |
| `ClientRegistrationProofs` | theorems about it | `ClientRegistration`, instantiates `Recursion` |
| `ClientLifecycle` | threads and locks of the client | |
| `ClientLifecycleProofs` | theorems about it | `ClientLifecycle` |
| `HttpDownloader` | the downloader and its thread | |
| `FirmwareUpdate` | the object, composed with the downloader | `HttpDownloader` |
| `FirmwareUpdateProofs` | theorems about the composition | `FirmwareUpdate` |
| `SendContract` | abstract: what a call of `send()` promises | |
| `CoapClient` | the connections: libcoap's count, sessions, credentials, tokens | instantiates `SendContract` |
| `CoapClientProofs` | theorems about it | `CoapClient` |
| `LwM2MTypes` | `Result`, resource values, path parsing | |
| `TlvCodec` | the TLV encoder and decoder | `LwM2MTypes` |
| `LwM2MObjects` | Server, Security, Device, Connectivity, Location | `TlvCodec` |
| `ObjectDispatch` | requests of a server and the application's calls on the objects | `LwM2MObjects` |
| `Recursion` | nothing: induction over the naturals for sets, and what a recursive function equals | |
| `TlvCodecProofs` | theorems about the codec | `TlvCodec`, instantiates `Recursion` |
| `ObjectDispatchProofs` | theorems about requests and calls, and the lemmas about the objects' operations they rest on | `ObjectDispatch`, `TlvCodecProofs`, instantiates `Recursion` |
| `LocationObject` | the Location object between threads: a read against `update_position()` | |
| `LocationObjectProofs` | theorems about it | `LocationObject` |
| `MC...` | what TLC instantiates | the model of that name |

Operators whose names end in `Mutant` are faulty versions of the definition
that follows them. No specification uses them; they are there to show that each
checked property notices a plausible mistake (`mutants` in `PROJECT.json`).

### ClientRegistration

All operations hold `mtx_`, so two of them never interleave. What happens
during one of them happens while `send()` waits, and that is where the model
has its steps: an operation is split at each `send()` into the part before
(`RegisterSends`, `UpdateSends`, `DeregisterSends`, or `...Fails` /
`...Unsent` if nothing is sent) and the part after (`EndRegister`, `EndUpdate`,
`EndDeregister`). `deregister()` erases the registration, runs
`on_deregistered` and then sets `state_`: in between its frame stays on the
stack as `erased` (`Leaving`) until `DeregisterDone`. The end of `stop()` is
`StopClears`, under `mtx_`, and `StopReports`, without it.

- `calls` is the stack of sends in progress. A handler dispatched by a waiting
  `send()` may push another one. `send()` overwrites `current_response_` and
  clears it on return, so an interrupted send on the same connection never sees
  its answer: its frame becomes an `orphan`.
- `phase` is the owner of `mtx_`: nobody, an application call, or the stages of
  `poll()` (`pump`, `updates`, `reconnect`) and of `stop()` (`stop`, and
  `report` when `mtx_` is free again).
- `ttl[s]` counts down to `expires_at`; `-1` is past it. `srvTtl[s]` is the
  server's own countdown, `knows[s]` says that our location still names its
  registration. `wait` counts down to `next_reconnect_time_`.
- `mode[s]` is what the path and the server do: `up`, `down` (nothing gets
  through), `sick` (refuses). It changes at any time.
- `wanted`, `raised`, `polled` and `ops` are history: what the application has
  standing, whether a longer lifetime was written than was announced, whether
  the loop turned in this tick, and the number of calls and requests so far.

The application's calls, the server's requests (`ExecuteUpdateTrigger`,
`WriteLifetime`, `DeleteServerInstance`), session events, server restarts and
time are actions of their own. Servers, network and clock are external.
Tokens are abstracted to "an answer reaches the send it belongs to, or
nobody", which is what the comparison of tokens achieves; observation, payloads
and the registration path are not modelled. There is one application thread,
and its callbacks and the handlers of requests call nothing but
`update_registration()` (the update trigger): a `stop()` from a callback, the
event thread's own, and what several application threads do to one another are
in `ClientLifecycle`.

### ClientLifecycle

Each thread has a `pc`. A section under `mtx_` that waits for nothing is one
step taken while the mutex is free or the thread's own (it is recursive); `mtx`
is held across steps only in callbacks, in `poll()` and in `deregister()`.
`start()` is one step under `lifecycle_mtx_`; `stop()` is several: take the
lock, join, collect the ids, deregister one by one, tear down, report.
`deregister()` asks the server (`asked`, with the id in `target`), erases the
registration and is in `on_deregistered` (`erased`), then sets `state_`;
meanwhile the lock-free `state_` can be read, and the callback may call
`stop()`, which returns to where `caller` says. `joinable` is
`event_thread_.joinable()`: assigning over it ends all threads in
`"terminated"`, as `std::terminate()` does. Registrations succeed or fail
freely, `poll()` may lose one and reconnect. `selfStopped` is history: the event
thread has stopped itself and nobody joined it since. `AppCalls` and
`CallbackStops` say what the application does, so that a run can ask about a
certain use.

### HttpDownloader and FirmwareUpdate

`start_download()` is four steps (claim, join, reset, spawn), the thread four
more (open, transfer, judge, report), and `cancel()` may come at any time. The
report is the object's `download_complete()`: a look at `state_`, then a store,
then another. `write_resource(1)` runs `start_download()` and stores
`Downloading` afterwards. The application ends an update it was asked for by
`update_complete()`, two stores and the clearing of the package, each a step.
`source` is history: whether the current package was pushed or pulled. The
code leaves it to the application to connect the two (its example does not,
and has no downloader). The model supposes the connection that their interfaces
are made for: `start_download` goes to one `HttpDownloader` with one
destination, its `on_complete` to `download_complete()`, and the other callbacks
are set. The outcomes of curl are two: all the bytes have been given to the
stream, or a failure (an error page and an empty body are failures, as the code
judges them). The stream's `close()` is not looked at, so that a success may
have written all of the file or all but the tail of the buffer (`Written`).

### CoapClient and SendContract

`ClientRegistration` supposes that an answer reaches the `send()` it belongs to
or nobody. `CoapClient` shows it, one level down.

- `connect()` and `disconnect()` are split at the accesses to the atomic
  `coap_init_count` (`pc`: `cleanup`, `init`, `startup`, `setup`), since the
  code starts and cleans up libcoap apart from counting; the other calls
  (`resolve`, `undo`) are the ends a `connect()` can come to. `Alone` is what
  `Client::mtx_` grants: no two connections of a client are in them at once.
- `conf` is the `ConnectionConfig` made from a Security instance
  (`to_connection_config`), `psk` what `setup_dtls_psk` stored, `session` the
  protocol and the credentials the session was made with. `NoContext` is the
  one failure after which the count is not taken back; `leaks` counts it.
- `stack[c]` holds the `PendingResponse` of every call of `send()` on `c`: a
  call waits in `poll_once`, where a request may be dispatched whose handler
  calls `send()` again on the same thread. `current[c]` is
  `current_response_`, the index of one of them or 0. `net` is what became of a
  request; an answer may arrive once it was given, at any time, repeatedly.
  `ended` is history: what the call with a token returned.

`SendContract` says that a call ends once, with the answer to its own request,
which the server must have given, or with an error. The refinement mapping
takes the tokens on the stack for the open calls (`OpenCalls`), the answered
requests for those heard of (`HeardCalls`) and compares the token a call
returned with its own (`EndedCalls`): a wrong one has no abstract counterpart.

### LwM2MTypes, TlvCodec, LwM2MObjects, ObjectDispatch

The codec works on sequences of bytes, because what can go wrong in it are its
forms and widths; a double is its image of eight bytes. A time is counted in the
ticks of `system_clock` (`TicksPerSecond`); the encoder truncates it to seconds
(`Seconds`), the decoder multiplies them again, in 64 bits (`deserialize_time`),
and `Received` is what is left of a value after both. `decode_impl` is a
recursive function of the bytes and the depth. An object's state is a record of
its fields; Server and Security have a table of instances and
`next_instance_id_`. `OfType` says what the C++ types of a `ResourceValue` hold,
`Sendable` which of them a record can carry: those whose text has less than 2^24
bytes. `Holdable` says what Device and Connectivity hold for a resource, one
value or the list of a multiple one, of which a read gives the first, as in the
code. The five objects share the operators the code has as virtual functions
(`read_resource`, `write_resource`, `list_resources`, ...), each with a case per
object. `Fields` gives each resource its C++ type, and a write casts to it (`%
2^w`, with `Mod32` in place of 2^32, which TLC's integers cannot hold).

A request is handled under `Client::mtx_` and waits for nothing, so it is one
step: `Get`, `Put`, `Post` and `Delete` parse the path, run the handler and keep
the exchange in `exch`, and `Reply` sends it off. Two things are not decided by
the state: `fixes`, what the application's position provider answers to each
resource of Location that is read, and `Unassigned`, the response code where the
code assigns none (a path of four numbers), which is any code. The trigger of
an update (`/1/x/8`) and the reboot callbacks are seen from here as a success;
what the former does is in `ClientRegistration`. The application's calls are
steps between requests; `update_position()` is not one of them but the subject
of `LocationObject`, so the position of this module comes from the provider
alone. `wrapped` is history: the tables in which an instance
65535 has been created, after which `next_instance_id_` is 0 again (`Wraps`).

`InstanceWriteAppliesValid` speaks of the resources a server meant to send
(`items` of a body). A body may have raw bytes after them (`tail`); the property
is claimed where those are records that a write to an instance passes over, since
a resource encoded in the tail is written after the items and may rightly
replace what they wrote. The tails that do not decode, and bodies that were cut,
make the request a bad one, which `OthersKept` covers.

### LocationObject

`update_position()` stores `position_` and `has_position_` on whatever thread
calls it, without a lock; `read_resource()` runs under `Client::mtx_`, which
keeps reads from one another but not from it. A store is one step for each
member of the position and one for the flag, in any order, since nothing
orders the accesses of two threads (`left` is what a thread has still to
write). A read asks the provider and stores what it gives (`Refresh`), looks at
the flag (`Check`) and reads one member (`Use`). A position is a set of members,
each of which says which fix it comes from. `alone` and `disturbed` are history:
whether two threads have met since the last one began, and whether they ever
met without a store having been completed alone since. They say when the code
is right: a single meeting can leave the flag of one position with the members
of another, and only the next undisturbed store repairs it.

## 3. Runs

Passing runs:

| Run | Asks | Bounds | Distinct states |
|---|---|---|---|
| `Reg_one` | `IteratorsValid`, `RegisteredMeansRegistered`, `BoundedSkew`, `RetriesBounded` | one server, all faults, lifetime 4 and writes of 2 and 6, two retries, nesting 2, four calls or requests | 577 thousand |
| `Reg_two` | `RegisteredMeansRegistered`, `ConnectionlessOnlyWhileReconnecting`, `BoundedSkew`, `BackoffBounded` | two servers, unlimited retries with a counter modulo 4, nesting 2, three calls | 1.3 million |
| `Reg_alive` | `EventuallyKeptAlive` | one server, nesting 2, three calls | 60 thousand |
| `Life_any` | `TypeOK`, `TeardownUndisturbed`, `ReportedStateSettles`, `TerminatesOnlyAfterSelfStop`, `StopReturnsUnlessCallback`, with callbacks that stop on the event thread and on one of the others | two application threads, two servers, all calls | 24 thousand |
| `Coap` | `TypeOK`, `LibcoapInUse`, `CredentialsMatch`, `ConnectedHasSession`, `NoDangling`, `ContractKept`, `SendsEnd` | two connections, two calls of `connect`, two tokens each, four accounts | 77 thousand |
| `Requests` | `TypeOK`, `DecodesWhatWasSent`, `AnswerDescribesObject`, `PositionFromValidFix`, `ErrorsNotMasked`, `ChangedReadsBack`, `InstanceWriteAppliesValid`, `OthersKept`, `CreatedUnlessWrapped` | three requests or calls, 25 paths, 7 bodies | 151 thousand |
| `Fota` | `DownloadedMeansFile`, `DownloadAwaited`, `ThreadJoined`, `DownloadEnds` | none: the model is finite | 6.3 thousand |
| `Loc` | `InvalidNotAnsweredUndisturbed`, `PositionWhole` | two threads that call `update_position()`, two members, two valid fixes and an invalid one | 88 thousand |

Runs that find the code at odds with what a comment, a test or the README says:

| Run | Property | What happens |
|---|---|---|
| `Reg_dereg` | `NoUnaskedRegistration` | `deregister()` during a reconnection of the same server: `try_reconnect()` registers again |
| `Reg_hol` | `ReachableServerRecovers` | one unreachable server keeps `reconnecting_` set, and `check_connection_health()` ignores all others meanwhile |
| `Life_deadlock` | `StopReturns` | a callback on the event thread calls `stop()` while another `stop()` holds `lifecycle_mtx_` and joins the event thread |
| `Fota_stuck` | `ObjectSettles` | the download ends before `state_` becomes `Downloading`; the completion is ignored and the object waits for good |

Other ways in which the code falls short, which the models contain and the
passing properties mark out rather than deny:

- A callback on the event thread calls `stop()`, which leaves `event_thread_`
  unjoined; the next `start()` assigns over it and the program ends in
  `std::terminate()`. `TerminatesOnlyAfterSelfStop` says that it ends so in no
  other case.
- `on_registered`, with `mtx_` held on an application thread, calls `stop()`, which
  joins the event thread, which waits for `mtx_`; and an `on_deregistered` inside
  `stop()` that calls `stop()` waits for the `lifecycle_mtx_` of its own thread.
  `StopReturnsUnlessCallback` says that these and `Life_deadlock` are the only
  ways to wait for good.
- In `on_deregistered`, and before the last line of `stop()`, the state may be
  `Registered` without a registration (`RegisteredMeansRegistered`,
  `ReportedStateSettles`).
- `close()` cannot flush its buffer, nobody looks, and the download is reported a
  success (`Written`, `DownloadedMeansFile`).
- An `update_position()` between a read's test of `has_position_` and its use of
  `position_`: an invalid coordinate is answered. `InvalidNotAnsweredUndisturbed`
  and `PositionWhole` say how far such a meeting reaches.
- A read gives the first value only of a multiple resource, one answer having
  room for all (`encode_multi_resource` is called nowhere):
  `AnswerDescribesObject` is about the first values (`FirstValues`).

### Bounds, and why they are enough

`MaxOps` bounds application calls and server requests, not the environment:
modes change, servers forget, sessions close and time passes without limit.
Three or four calls suffice for start, register and then one or two of update,
deregister, stop, trigger, write or delete in any order, the sequences the
properties tell apart. `MaxDepth` 2 is one send inside another, the first depth
at which an answer can be taken away; a third repeats it. Two servers show what
sharing `state_` and the reconnection does. Lifetimes are a few ticks, longer
than `SendTimeout` so that an update can be answered, and short enough to
expire. `AttemptMod` 4 makes the attempt counter wrap within a run, as 2^16
attempts do. In `Coap`, two connections share the count and two sends nest or
follow one another, so that an answer can be late for one and early for the
other; the accounts are plain CoAP, complete and incomplete PSK credentials, and
a mode that is none. The theorems below hold without any of these bounds.

In `Requests` the values carry the weight: the bodies hold integers at the ends
of each width, texts of 0, 7, 8, 9, 255 and 256 bytes, ids of 255, 256 and
65535, all resource types, values of the wrong type before and after right
ones, nesting deeper than `kMaxTlvDepth`, and a body cut short; the paths have
every form from none to five segments, an unknown object, an id of 65536, a word
and empty segments. Three steps make an instance, write it and read it, or wrap
a table's next id (the application asks for instance 65535) and create twice.

In `Loc`, two movers are one to meet a read and one to meet the other; a third
would only repeat it. Two members tell a whole position from a mixed one, and of
the fixes two are valid, so that two valid ones can mix, and one is not. Movers
and members are interchangeable, and so are symmetric. The clock of `Requests`
has two ticks a second, so that there are times between two seconds.

`CHECK_DEADLOCK FALSE` is set in `Life_any` and `Life_deadlock`, where the program
may end, by `std::terminate()` or with all threads waiting, and in `Requests`,
where nothing is left to do once the bound is reached.

### Fairness

- `ClientRegistration`: the event loop turns (`WF` of `PollBegin`, `Holder`),
  because it is a thread that sleeps for `poll_interval`; `send()` has a timeout
  and so returns (`SF` of `Return`: requests dispatched inside may interrupt it
  repeatedly); a server that is up handles what reaches it; time passes.
  Nothing is assumed of the application, the server's requests or the network.
- `ClientLifecycle`: a thread that can go on does, and a mutex that is free
  again and again is granted (`SF`), since the event thread sleeps between polls
  without holding `mtx_`; an answer comes or `send()` times out, and callbacks
  return. Nothing is assumed of what the application calls.
- `CoapClient`: `WF` of `SendReturns`, since the loop of `send()` looks at the
  clock after each `coap_io_process`. Nothing is assumed of the server.
- `FirmwareUpdate`: `WF` of the download thread, which curl's timeouts
  (30 s to connect, 60 s of low speed, one hour in all) keep from waiting for
  good, and of the CoAP thread inside a handler.

## 4. Theorems

| Theorem | States | For all |
|---|---|---|
| `ClientRegistrationProofs!TypeCorrect` | `Spec => []TypeOK` | servers, lifetimes, thresholds, retry configurations, depths |
| `...!RegisteredCorrect` | `[]RegisteredMeansRegistered` | the same |
| `...!IteratorsCorrect` | `[]IteratorsValid` | the same |
| `...!SkewBounded` | `[]BoundedSkew` | the same |
| `...!RetriesCorrect` | `[]RetriesBounded` | the same |
| `...!ConnectionCorrect` | `[]ConnectionlessOnlyWhileReconnecting` | the same |
| `ClientLifecycleProofs!TeardownCorrect` | `[]TeardownUndisturbed` | threads, servers, callbacks that stop |
| `...!ReportedCorrect` | `[]ReportedStateSettles` | the same |
| `...!TerminationOnlyAfterSelfStop` | `[]TerminatesOnlyAfterSelfStop` | the same |
| `FirmwareUpdateProofs!DownloadedCorrect`, `AwaitedCorrect`, `JoinedCorrect` | `[]DownloadedMeansFile`, `[]DownloadAwaited`, `[]ThreadJoined` | behaviours of any length |
| `CoapClientProofs!LibcoapCorrect` | `[]LibcoapInUse` | finite sets of connections, any accounts, any number of calls |
| `...!CredentialsCorrect` | `[]CredentialsMatch` | the same |
| `...!ConnectedCorrect` | `[]ConnectedHasSession` | the same |
| `...!NoDanglingCorrect` | `[]NoDangling` | the same |
| `...!ContractCorrect` | `Spec => ContractKept`, the refinement of `SendContract` | the same |
| `...!TypesCorrect` | `[]TypeOK` | the same |
| `ClientRegistrationProofs!BackoffCorrect` | `[]BackoffBounded` | any delays, multipliers and widths of the attempt counter |
| `ClientLifecycleProofs!TypesCorrect` | `[]TypeOK` | threads, servers |
| `TlvCodecProofs!DecodeTyped` | the decoder gives an error or well-formed records | all sequences of bytes, all depths |
| `...!ValueRoundTrip` | `decode_resource` undoes `serialize`, but for the fraction of a second of a time | all values a record can carry, any resolution of the clock |
| `...!DecodeRecords` | the decoder undoes a row of encoded records | any number of records of any type, id and length, whatever follows them |
| `...!DecodeInstance`, `DecodeInstances` | the decoder undoes `encode_instance`, once or in a row | any resources that fit one record |
| `ObjectDispatchProofs!TypesCorrect` | `[]TypeOK` | requests, bodies, positions, settings and any number of steps |
| `...!ErrorsNeverMasked` | `[]ErrorsNotMasked` | the same |
| `...!DecodedAsSent` | `[]DecodesWhatWasSent` | the same |
| `...!PositionsValid` | `[]PositionFromValidFix` | the same |
| `...!AnswersDescribe` | `[]AnswerDescribesObject` | the same, tables and texts of any size |
| `...!OthersAreKept` | `Spec => OthersKept` | the same |
| `...!CreatesUnlessWrapped` | `Spec => CreatedUnlessWrapped` | the same |
| `...!WrittenIsRead` | `Spec => ChangedReadsBack` | the same |
| `...!ValidIsApplied` | `Spec => InstanceWriteAppliesValid` | the same |
| `LocationObjectProofs!UndisturbedCorrect` | `[]InvalidNotAnsweredUndisturbed` | any threads, members and fixes |
| `...!WholeCorrect` | `[]PositionWhole` | the same |

The assumptions are those on the constants: `ConstantsAssumption` (naturals, a
non-zero denominator and counter width, modes that include `"up"`),
`LifecycleAssumption` (the threads are distinct), `CoapAssumption` (finitely
many connections, bounds that are naturals), `Mod32Assumption` (`uint32_t` holds
the default lifetime, and no more than 32 bits), `RequestsAssumption` (paths and
bodies are sequences, and what a server sends are values a record can carry) and
`CallsAssumption` (what the types of the objects' C++ interfaces allow the
application: ids of 16 bits, fields within their widths, a ResourceValue or
a list of them for each setter of Device and Connectivity, and fixes whose time
fits the clock), `TicksAssumption` (the clock ticks) and `LocationAssumption`
(the values of its constants are distinct). TLC evaluates them in every run of
the module that declares them. `BoundedSkew` says nothing of a
registration for which the server wrote a longer lifetime: the client schedules
by it, its updates do not announce it (`raised`).

**Registration.** The inductive invariant is `TypeOK`, `StackOK`,
`RegisteredMeansRegistered` and `SkewInv`. `StackOK` says that what nests in a
send are updates, that nothing is nested in a deregistration that has erased its
registration, and, by `IteratorsValid`, that any other update or deregistration
on the stack is of a registered server; without it the end of an update could
report `Registered` after the registration went. `IteratorsValid` is what the
code relies on when it keeps an iterator into `registrations_` across `send()`.
`RegisteredMeansRegistered` excepts the two moments at which the code really
says `Registered` of nothing: in `on_deregistered` (an update nested in the
DELETE's `send()` may have set the state back) and between the last two blocks
of `stop()`. `BoundedSkew` is not inductive:
when `EndUpdate` restarts `ttl` one has to know that the server restarted its
own no longer ago than this send has waited. `AnswersOK` says that of every
answered frame, `LifetimeOK` that the server's lifetime is at least the one the
client schedules by unless a longer one was written, `ServerTtlOK` that a
countdown does not exceed its lifetime. Each action is then one case; what a
push or a pop does to the frames is stated once in lemmas (`PushIsPush`,
`PopFacts`, `InheritsPush`, `InheritsPop`). `ConnectionCorrect` adds that the
registration a reconnection is at is the one whose connection it dropped.

**Threads.** `OwnersOK` ties the owner of `lifecycle_mtx_` to the stages of
`stop()` between its lock and its report, so only one thread is in them;
`HandleOK` ties `joinable` to where the event thread is. `TeardownUndisturbed`
follows with them by induction. `ReportedStateSettles` adds `AskedOK`: whoever
waits for the answer of a deregistration still finds it registered. Its
exceptions are the threads that are `Leaving`, between the change of
`registrations_` and that of `state_`; a `stop()` called in that window keeps its
caller in it. `TerminationOnlyAfterSelfStop` adds `JoinPending`, an unjoined
thread implies `running`, a `stop()` that holds the lock, or a `stop()` that the
event thread made itself (`selfStopped`). The theorem says that the
last is the only way to `std::terminate()`.

**Firmware.** `FotaInv` adds to the three properties that `start_download()`
runs only inside the write of a URI in the Idle state (`CoapOK`), that success
is reported of what its own transfer wrote (`VerdictOK`; whether `close()` wrote
the tail is another matter), and that nobody changes the state
between `download_complete()`'s look and its store (`DoneOK`).

**Connections.** Three inductive invariants, each over the variables it needs.
`LinkInv`: `Counted` says that the count is the number of connections with a
context, plus those between `fetch_add` and their context, plus `leaks`;
`Phases` relates `up` to the stage a connection is in, and `Exclusive` that only
one is in any. `LibcoapInUse` follows, but is not inductive without the
count. `SessionInv` adds that stored credentials are those of the `connect()`
under way or of the session (`Stored`, `SessionHeld`). `SendInv`: tokens on a
stack are distinct and were taken (`Distinct`, `Untaken`), `current` is the top
or nothing, what a pending response got is its own token and was answered
(`RightAnswer`), and a call that ended with an answer ended with its own
(`Own`). For the refinement, every action is then a step of `SendContract` or
leaves the mapped variables alone.

**Backoff.** `Backoff` is a recursive function of the attempt, so its bound is an
induction over the attempts: `Backoff[n] <= MaxBackoff` for `n > 1`, from the
clamp after each multiplication, and `InitialBackoff` before (`BackoffClamped`).
`BackoffBounded` is then kept by each action that sets `wait`.

**Induction over data.** `Recursion` makes it available: `SetInduction` is
induction over the naturals for a set of them, so it has no predicate as a
parameter, and `Fixpoint` says that a recursive function is what its definition
says, provided that its body looks only at arguments of a smaller rank. A proof
module instantiates it with the body, the domain and the rank of one definition
(`Body <- ReadBody`, ...) and then proves by `SetInduction` what it needs. This
serves `decode_impl` (rank: the number of bytes left), `Number`, `BigEndian`,
`FlattenSeq`, `ReadInstance` and `WriteInstance`.

**Codec.** `HeaderBack` says that `parse_header` undoes `Header`, form by form:
the type byte is taken apart again (`TypeByteBack`), then the id and the length.
`DecodeFirst` follows for one record and any bytes after it, and `DecodeRecords`
by induction over the records. `IntRoundTrip` and `UintRoundTrip` say that the
width chosen for an integer holds it and its sign (`ShiftSteps`,
`NumberOfBigEndian`). The ticks of a time that was encoded fit 64 bits again,
since truncation makes nothing larger; the seconds of another sender may not. A
value of 2^24 bytes or more is beyond all of this: its
length loses its top byte.

**Requests.** The inductive invariant `Inv` is `ObjsOK` (each object is in a state
its handlers can work with: tables with complete fields within their widths, a
value of its type for each resource of Device and Connectivity, an error list
that is not empty and masks nothing, a position that is valid if there is one
and that the provider has given), `FreshOK` (unless a table has
wrapped, its ids are below `next_instance_id_`) and `ExchOK` (what is answered is
a code, to a body that was sent). `TypeOK` alone is not inductive: nothing in it
says that a Device's list masks nothing when an error is added, or that a
creation finds its id free. What a handler may do to its object is said once
(`EffectOK`: the instances it does not name are kept, as is `Fresh`) and proved
of each operation (`CreateEffect`, `WriteEffect`, `ReadEffect`, ...), then of each
handler (`HandlerOK`); `HandleStep` and `CallStep` carry it to a step of the
specification, from which `Inv`, `RefusedChangesNothing` and `OthersStay` follow
together in `NextInv`. `SentFirst` says that the records of a body begin with
those that were sent (`DecodeItems`). With it `WrittenIsRead` is one case per
object (`ReadsBack`; `NarrowKeeps`: the cast loses nothing that fits), and
`ValidIsApplied` an induction over the records (`Applied`): the last one that fits
a field wins, and those that fail leave it. `PositionsValid` reads one resource
after the other and keeps that each is a coordinate of a valid position
(`InstanceMeasured`); that at most 22 of them fit one record (`MeasuredFit`) is
what makes the answer decode to them (`DecodeInstance`). It supposes that the
provider is the only source of the position, see **Location**.

**Answers.** `Values` is what an object holds for a resource, one value or those
of a multiple resource, read off the state and not off the code that answers.
`FirstValues` takes the first of each, which is all that an answer says of it.
`AnswersDescribe` shows in four steps that it says that and nothing else.
`list_resources` names every resource that can have a value, and none twice
(`ListEach`, `ListAll`); reading one resource succeeds exactly if `FirstValues`
has a pair for it, and gives that pair (`ReadSays`; of an empty error list it
would give an error code the list does not have, but `Inv` has that it is never
empty). By induction over the list, what `ReadInstance` reads enumerates
`FirstValues`: each pair once (`CoversNext`, `ReadEnumerates`), so that their
number is its cardinality (`Counted`). A value of its C++ type is decoded to
what is `Received` of it whatever its size (`ValueSerialized`,
`FittingReceived`), and a record is at least as long as its value
(`EncodedLonger`, `FlatLonger`): if the whole answer has fewer than 2^24 bytes,
each value and each instance in it fits a record. Then `DecodeInstances` gives
one record for each instance of the table (`SetToSeqOK`: the loop over
`list_instances` meets each once), with its resources as children
(`InstanceDescribed`). A read leaves the object's state alone, so what is
described is also the state in which the answer is sent: the calls of the
application are atomic here (section 5).

The bound on the answer is part of `AnswerDescribesObject`, since the property
is false without it: an object whose texts add up to 2^24 bytes or more is
answered with an instance whose length does not say so, and the assumptions
rightly put no bound on what a server may write.

**Location.** `IInv` adds to the two properties that at most one thread is at work
while nobody has met (`OneBusy`), that what such a thread has written is what it
is storing, member by member (`Progress`), that the flag a read has found set is
still set when it goes on (`Checked`) and that an answer exists only while it is
given (`Answering`). A store completed alone makes the position whole again
whatever it found, which is how `disturbed` ends (`StoredStep`); that a thread
comes in while another is at work is how it begins (`MoveStep`, `ReadStep`).

Only model-checked: the liveness properties (`EventuallyKeptAlive`,
`StopReturnsUnlessCallback`, `DownloadEnds`, `SendsEnd`), which need fairness
and `ENABLED`. Every invariant and every action property of a passing run is
proved.

## 5. What is not modelled, and the plan

What is left, in the order in which it is planned:

1. An abstract `Registration` (absent, held, lost) that `ClientRegistration`
   implements, and the proof of it.
2. Downloads chained from `on_complete`, and several destinations.

Not modelled, and why:

- `process_discover` and link formatting: no request is ever passed to it, and
  it would change no state.
- The building of messages (options, content formats, blocks) and the parts of
  an answer: the model keeps which request an answer belongs to.
- The setters of Device (`add_error_code` included) and Connectivity race with the
  event thread, which reads strings and vectors without a lock: such a race has
  no outcome to enumerate, and the calls are modelled as atomic. The position of
  Location is made of numbers; its race is modelled, in `LocationObject`.
- Calls of `deregister()`, `stop()` or `register_with_server()` by a handler or
  callback inside another operation's `send()`, in `ClientRegistration`; stops
  from callbacks are in `ClientLifecycle`, except those from `on_state_change`
  (a stop there would meet the same locks as the others).
- More than one application thread in `ClientRegistration`: `mtx_` keeps their
  operations apart, and what it does not keep apart is in `ClientLifecycle`.
- Two `Client`s in one process, which share `coap_init_count` with no common
  lock: `Alone` is the mutex of one client, and without it `LibcoapInUse` fails.
- The reads of a resource instance (`/3/0/11/0`): the code does not reach
  `read_resource` for them and leaves the response code unassigned.
- The Firmware Update object's plain reads and the Resource builder
  (`include/lwm2m/resource.hpp`), which keep no state that others use.

Left out for good: formatting of link lists and payloads, logging, the
progress numbers of a download, TLS configuration, libcoap and libcurl
themselves, examples, tests and build files.

## 6. Hazards

`PROJECT.json` lists each at its line. In short: handlers that run inside
`send()` and change the state their caller reads afterwards; two deadlines for
one registration; one reconnection for many servers; an operation of the
application against a reconnection of the same server; `stop()` in parts, from
callbacks and against itself; a registration that goes before the state that
speaks of it; a position stored and read without a lock; a file whose end may
not have been written; thread objects that are assigned; two atomics
where one state is meant; counters and ids at the end of their width; values
that change form by length, width or sign; writes that fail in part; a pointer
to a local variable, checked flags and stored credentials that may outlive what
they stand for; answers that come late. A hazard without a property says why it
has none. Some properties hold because they say where the code's guarantee ends:
`BoundedSkew` leaves out a registration for which a longer lifetime was written
(`raised`), `BackoffBounded` the first delay, `RetriesBounded` counts by the
code's own counter, `CreatedUnlessWrapped` a table that has wrapped,
`ChangedReadsBack` an integer that does not fit its field (which the code cuts
to its width), `LibcoapInUse` a context that could not be made.

Smaller ones that the models reach or rule out and no property is about: a URI
written between the two stores of a failed `download_complete()` gets that
download's result; a `cancel()` before `cancelled_` is reset is lost; `stop()`
clears without a deregistration what is registered between its parts;
a server that writes `/1/x/0` takes the instance away from its registration (as
`DeleteServerInstance` does); a length of 2^24 is cut to three bytes, which no
CoAP payload has; tokens start again in a new connection, which has a new port.

## 7. Checking

    tlc -workers 2 -config Reg_one.cfg MCClientRegistration
    tlc -workers 2 -config Life_any.cfg MCClientLifecycle
    tlc -workers 2 -config Fota.cfg MCFirmwareUpdate
    tlc -workers 2 -config Requests.cfg MCObjectDispatch
    tlc -workers 2 -config Coap.cfg MCCoapClient
    tlc -workers 2 -config Loc.cfg MCLocationObject
    tlapm ClientRegistrationProofs.tla
    tlapm ClientLifecycleProofs.tla
    tlapm FirmwareUpdateProofs.tla
    tlapm CoapClientProofs.tla
    tlapm Recursion.tla
    tlapm TlvCodecProofs.tla
    tlapm ObjectDispatchProofs.tla
    tlapm LocationObjectProofs.tla
