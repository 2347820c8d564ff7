# A TLA+ model of protobuf-qml

protobuf-qml lets a QML program use Protocol Buffers and gRPC. A generator
(`src/compiler`) turns a `.proto` file into JavaScript, a QML plugin
(`src/lib/protobuf`) provides messages, buffers and the method types, and a second
plugin (`src/lib/grpc`) carries calls over gRPC. This directory models the eight
kinds of call object, four on the client and four on the server, with the QML types in
front of them; the life of servers, services, channels and method objects; a unary call
from one end to the other; the generated message fields; and the tasks and buffers that
turn messages into bytes.

## 1. Inventory

Two threads run in a client process and two in a server process. The *QML thread*
runs the program, its callbacks and all QML wrappers. The *IO thread* (one per
`Channel`, `base.cpp:32`; one per `GrpcServer`, `server.cpp:81`) loops on a gRPC
completion queue and calls `process(ok)` on the call object that the completion
names. Signals emitted on the IO thread reach the QML thread through a queued
connection, in order, at a later time. `serialize` and `parse` with a callback work on the
process's thread pool and answer in the same way.

| Part | Code | State | Operations | Module |
|---|---|---|---|---|
| client callbacks | `ClientMethod.qml`, `method.h/.cpp` | `_tag`, `callbackStorage`, the queued signals | `call`, the four signal handlers | ClientCallbacks |
| client unary | `unary.h/.cpp`, `UnaryMethod.qml` | one call data object per call | `write`, `process` | ClientUnary, UnaryEndToEnd |
| client server-streaming | `reader.h/.cpp`, `ReaderMethod.qml` | status of the call | `write`, `process` | ClientReader |
| client client-streaming | `writer.h/.cpp`, `WriterMethod.qml` | `calls_`, status, `requests_`, two mutexes | `write`, `writesDone`, `timeout`, `set_timeout`, `process`, `deleteCall` | ClientWriter |
| client bidirectional | `reader_writer.h/.cpp`, `ReaderWriterMethod.qml` | `calls_`, status, three flags, `requests_` | `write`, `writesDone`, `set_timeout`, `process` | ClientBidi |
| server call store | `server_calldata.h` | `cdata_`, `tag_`, its lock | `store`, `remove`, `getUnsafe` | ServerStore |
| server unary | `server_unary.h/.cpp`, `ServerUnaryMethod.qml` | status | `respond`, `abort`, `process` | ServerUnary, UnaryEndToEnd |
| server client-streaming | `server_reader.h/.cpp`, `ServerReaderMethod.qml` | status, tag | `respond`, `abort`, `process` | ServerReader |
| server server-streaming | `server_writer.h/.cpp`, `ServerWriterMethod.qml` | status, `queue_`, mutex | `respond`, `abort`, `end`, `process` | ServerWriter |
| server bidirectional | `server_bidi.h/.cpp`, `ServerReaderWriterMethod.qml` | status, `queue_`, `ref_count_`, tag, mutex | `respond`, `abort`, `end`, `process` | ServerBidi |
| server lifecycle | `server.h/.cpp`, `server_method.h/.cpp` | `services_`, `started_`, queue and thread; `server_`, `methods_`, the injected implementations | `start` with its two signals, `registerService`, `set_server`, `set_methods`, `inject`, `shutdown` | ServerLifecycle; `shutdown` with calls in progress: the server modules |
| client channel | `base.h/.cpp`, `credentials.h/.cpp` | channel, queue, IO thread | `ensureInit`, destructor | ClientLifecycle |
| method objects | `method.h/.cpp` | channel, name, descriptors, `impl_` | setters with `deinit`, `ensureInit`, `write` | ClientLifecycle |
| conversion | `v4/descriptor.cpp`, `v4/v4util.h`, `conversions.cpp`, `descriptors.cpp` | none between calls | message <-> JS value | ScalarField, OneofField, RepeatedNumbers, RepeatedMessages |
| parse/serialize tasks | `v4/descriptor.cpp` | tasks in a thread pool | `parse`, `serialize`, `run`, `onDone` | ConversionTasks, MessageIO |
| buffers | `buffer.cpp`, `file.cpp`, `memory.cpp` | file or byte array, `file_` | `serializeTo`, `parseFrom`, `set_size`, `clear` | BufferChannel, MessageIO |
| message runtime and generator | `message.js`, `src/compiler` | field arrays, oneofs | generated accessors, constructor, merge | RepeatedNumbers, RepeatedMessages, OneofField, Message |
| plugins, logging, examples, tests | | | | no behaviour over time |

What makes this code hard is not its size:

* **Pointers across threads.** A call object deletes itself on the IO thread
  (`delete this`), while the QML thread looks it up by tag and uses the pointer,
  sometimes after it released the lock of the map (`writer.cpp:218`,
  `server_bidi.cpp:48`).
* **One operation at a time.** gRPC wants at most one operation of a kind in flight
  for a call. Whether to send or to queue is decided from `status_`, by both threads.
* **Two locks in opposite orders** in the server's bidirectional method.
* **Late events.** Signals are queued, so the program writes, ends and sets timeouts
  of calls that are over, and a tag may get a second call object.
* **A single call object per server method.** If its successor is not created, or
  the call can no longer be reached through the store, the method is blocked for all
  clients, and `shutdown()`, which waits for calls on the QML thread, never returns.
* **Callbacks within callbacks.** `start()` and `write()` of a buffer emit signals whose
  handlers may do anything, call again included, before they return.
* **Raw pointers to replaceable objects.** A call in flight keeps the method object that
  made it, which a setter of the holder deletes.
* **Two copies of a field.** A repeated field is a view of a larger buffer, or an array of
  objects beside an array of their raw arrays; a oneof leaves old values behind.

What each part promises, in a sentence, is the comment above each property; the
hazards in `PROJECT.json` point at the lines where it could go wrong.

## 2. Modules

`ClientCallbacks` and `ServerStore` hold what the four methods of a side share and
are extended by the method modules. `OutgoingStream` is an abstract specification
that three methods are shown to implement. `UnaryEndToEnd` composes `ServerUnary` and
`ClientUnary`; `MessageIO` composes `ConversionTasks` and `BufferChannel`; `Message`
composes the four sorts of field, and `MC_Message` gives it a symmetry set and an enum.
Modules ending in `Proofs` hold theorems.

### Calls

**ClientCallbacks.** `call()` is `NewTag`; an emitted signal is appended to `signals`,
`Deliver` is the event loop taking the oldest. The handlers are as in
`ClientMethod.qml`: an empty message is dropped, a tag without callback is ignored,
an error or a refused operation calls the callback first and forgets it afterwards
(`unwinding`), because the code does so in a `finally`, and the program can act
meanwhile. `heard` is a history of what the program was told.

**ClientUnary, ClientReader.** The call objects of these two are touched by the QML
thread only when they are created. A completion is an action with every outcome.

**ClientWriter.** A QML operation is two steps, lookup (`BeginXxx`) and member function
(`EndXxx`), since `calls_mutex_` is released in between. `process()` is one step, since
it holds `mutex_`, except at FINISH, where `calls_` is changed and the object deleted
in steps that the QML thread can see. If the object is deleted between lookup and
use, reading it is undefined: `EndWrite` then returns an arbitrary value.

**ClientBidi.** Every QML operation holds the map's lock throughout: one step. gRPC is
assumed to follow its rules until the code breaks them (`Misused`); the model stops
there, and three properties say "unless misused".

**ServerStore.** `StoreAndEmit` is `store()` followed by the data signal, `Remove` is
`remove()`. Tags start at 2, as in the code. `known` are the tags with which the
handler was called; only those can be answered.

**ServerBidi.** `respond()` holds the store's lock while it waits for the call's
`mutex_`, `process()` holds `mutex_` while `onData` waits for the store's lock. Both are
two steps, with the guards of the locks, so that the two orders meet if they can.
`refCount` and `outstanding` (operations gRPC still has to complete) are separate
variables: that they agree is a property.

**ServerWriter.** `abort()` takes no lock. `process()` is two steps when a request
arrives, because the handler may run before the call is FROZEN.

**ServerReader, ServerUnary.** No lock at all: `respond()` and `abort()` remove the tag
and then check the status, two steps.

In all server modules `Shutdown` is `GrpcServer::shutdown()`, which blocks the QML
thread until every call object is deleted (`InShutdown` is a guard of every step of
that thread). After it, a completion of a waiting request has `ok` false.

**OutgoingStream** says what a stream promises about the messages the program gives it:
they go to gRPC in the accepted order, each at most once, and nothing after the end
marker. The mapping is the two history variables `accepted` and `handed`.

**UnaryEndToEnd.** The variables of ServerUnary and, through `C == INSTANCE ClientUnary`,
those of the client, with gRPC between them: `rpc` says where each call of the client is,
`serves` which call a call object got, `reply` what it was finished with. The client's
arbitrary outcomes are replaced: a response arrives only if the server's handler gave it
(`Arrives`), and a call may fail on the client's side at any time (`Fails`), of which the
server learns nothing. Each joint action is an action of one side with what gRPC does.

### Lifecycles

**ServerLifecycle.** Everything on the QML thread. `start()` is a stack of frames:
`BeginStart` emits `starting`, `RegisterService` is the handler of one connected service,
then `StartTooEarly`, `StartRefused` or `StartAccepted` is the rest of `doStart`, which on
success emits `started`, heard by one service after the other in `StartProcessing`. Between
any two of these the program's handlers may change, move or destroy services, or start
another server. `StartProcessing` asks whatever implementation the method has then: a handler
that starts another server which still lists the service gives it that server's, and the call
waits there. Without an implementation (the assertion) or with one whose queue a handler has
shut down (undefined behaviour) there is no step. `dangling` are the waiting calls whose
implementation was deleted; `strayed` the services taken from a server that lists them and has
not started, which are those that two servers may list.

**ClientLifecycle.** The setters of a method holder and its `deinit`; `ensureInit`, which
makes the implementation and, through it, the channel's queue and IO thread; calls in
flight that keep a pointer to the implementation; the local `write()` of a buffer channel,
which is a frame on `writing` until its callbacks return; the destructor of a channel,
which blocks the QML thread until the IO thread has seen the last call.

### Messages

**RepeatedNumbers.** The typed array is a `length` and a `buffer` that outgrows it; the
generated methods change them as the code does. `asked` is the sequence a program expects.
**RepeatedMessages.** Both arrays of the code, `_name` and the raw array, over a pool of
objects whose `content` they share. **OneofField.** The case number `which` and the stored
values `held`, with the old ones left behind. **ScalarField.** Integers on the way through
`setFieldValue` and `getFieldValue`. `Half32`, `Half64` and `Exact` stand for 2^31, 2^63 and
2^53; TLC takes 2^3, 2^7 and 2^7, which keep the order of the first two. Each has an action for the
message being sent (serialized, parsed, constructed) and the first three one for a copy.
**Message** puts them together; a behaviour works on one field, since fields share nothing.

**ConversionTasks.** A call of `serialize` or `parse` with a callback makes a task with its
own copy, the pool runs `PoolSize` at a time, `done` is queued, `OnDone` calls the callback
unless its context is gone; a call that finds nothing to convert returns without a task and
never calls it (`CallRefused`). **BufferChannel.** `write()` of a file or memory buffer is a
frame: opened, then told or failed while its callback runs, in which the program may start
another; descriptors are the lowest free number, as in POSIX. **MessageIO** joins the two:
the event loop does not deliver while a `write()` is in progress, the pool goes on.

Operators whose comment starts with *Slip* are variants of the definition below them,
with a mistake somebody could make there (a dropped reference, a stack for a queue, a
missing successor). No specification uses them. `PROJECT.json` lists for each property
a slip that breaks it, so that one sees that the property says something.

## 3. Runs

`tlc -config <name>.cfg <module>` for each row; the module has the run's name, but for
Message (module MC_Message) and ServerUnaryCalled (module ServerUnary). Deadlock is not
checked: a program may stop making calls, and does so when a bound is reached.

| Run | Bounds | States | What it shows |
|---|---|---|---|
| ClientWriter | 1 tag, 2 objects, 1 message and the empty one, 5 operations | 370 000 | `GrpcContract`: one operation in flight. `ImplementsStream`. `ResultHonest`: one result, success only if everything was sent. `DanglingOnlyWhenOver`. `EndedIsForgotten` |
| ClientBidi | 1 tag, 2 objects, 2 messages, 4 operations, 2 ends, 1 read | 100 000 | `OneInOrder`: one operation, order, as long as gRPC's rules are kept. `EndIsLast`. `HalfDuplex`. `EndedIsForgotten` |
| ClientReader | 2 tags, 2 reads | 56 000 | `StreamIntact`, `ToldTheEnd`, `EveryCallForgotten` |
| ServerBidi | 2 objects, 2 messages, 2 reads, 2 writes | 160 000 | `CallsSafe`: reference count, live pointers, one live call. `NoLockCycle`, `ImplementsStream`, `EndedIsFreed`, `ShutdownReturns` |
| ServerWriter | 3 objects, 2 messages, 2 writes | 260 000 | `CallsSafe`, `LostOnlyByAbort`, `ImplementsStream`, `EndedIsFreed` |
| ServerReader | 3 objects, 2 reads | 7 000 | `CallsSafe`, `DroppedOnlyIfEarly`, `AnsweredIsFreed` |
| UnaryEndToEnd | 3 objects, 2 calls, 2 requests, 2 responses | 110 000 | `HearsItsAnswer`: the answer heard is the one to this call. `CallsSafe`, `TakesNextClient`, `EveryCallForgotten` |
| ServerLifecycle | 2 servers, 1 service, 4 starts each | 970 000 | `CallsAnchored`, `EveryoneListens`, `RefusedOnce` |
| ClientLifecycle | 2 holders, 1 gRPC and 1 buffer channel, 3 implementations, 3 calls | 450 000 | `ImplsSafe`, `DestroyReturns` |
| Message | numbers 0..2 in at most 4 elements; 3 messages of 3 objects; a oneof with one case of each sort; Half32 = 8 | 6 500 | `RepeatedKept`, `OneofAsChosen`, `NumberKept` |
| MessageIO | 2 tasks, 2 threads, 3 buffer calls nested at most twice, 2 contents | 1 400 000 | `HearsItsOwn`, `EveryTaskAnswered`, `NothingLeft`, `ReadBack` |
| ServerUnaryCalled | 1 object | small | a disagreement between code and README, section 6 |

Why the bounds are enough: a client's tags do not influence each other except through
the signal queue, and one tag with two call objects is what is needed for a late
operation to make a second object under a used tag. Five operations allow write, end
and a late operation on each side of the deletion. A server method has one live object
at a time; two or more objects give a successor while the old call's signals are still
queued. Two reads and two writes give an empty, a non-empty and a shrinking queue in
each status. The payload `e0` is a message with no field set, which the code treats
differently from any other. End to end, two calls are enough for an answer to reach the
wrong one. Two servers let a service move between them and one start within the other's;
four starts give one that comes too early and the refusal that follows, twice over, or a
success after each. Two holders can share a
channel, and with three implementations one is replaced while the calls of another are in
flight. A field of four numbers is long enough for a buffer to grow twice. Two nested
writes are what is needed for the inner one to overwrite the outer one's `file_`.

## 4. Fairness

Weak fairness of the completions of each call (gRPC completes what it was given, the IO
thread's loop takes it), of the second steps (a thread that has started an operation
finishes it; the scheduler runs every thread) and of the event loop. Nothing is assumed
of the program: it need not write, end, answer or shut down. In the server modules, a
client sends at most `MaxReads` messages, and then half-closes or goes away; a client
that keeps a stream open for ever is outside the liveness properties.

`UnaryEndToEnd` assumes the same of both processes, and that gRPC ends every call, with the
server's answer or with a failure: it need not wait for a handler that never answers.
`ClientLifecycle` assumes that the IO threads run and complete what they have
(`DestroyReturns` rests on it: the destructor waits for the thread, not for the program).
`MessageIO` assumes that the pool's threads run, that the event loop delivers, and that
`write()` and the callbacks it makes return, since all of them are plain calls.
`ServerLifecycle` and `Message` have safety properties only.

## 5. Proofs

`tlapm <module>.tla` checks each of the eight proof modules. The theorems hold for any
number of call objects, tags, messages, reads and writes, from the assumptions named in the
modules (null is not a call, not a message; the bounds are numbers).

*ServerStoreProofs* has one lemma for each operation of the store and the signal queue,
which the server proofs cite.

*ServerBidiProofs*: `RefCountExact`, `PointersLive` and `OneLiveCall` (together `CallsSafe`)
and `NoLockCycle` are invariants, and the method implements `OutgoingStream`. The argument:

* A call that the IO thread stores has no tag yet (`Storing`), so the QML thread cannot
  reach it; the call for which `respond()` waits has one. Hence the lock orders never meet
  on one call, and nobody changes the call while it waits to be stored.
* A new tag is larger than every tag in use (`TagsOld`), so `store()` does not bring back a
  tag that `abort()` or `end()` has removed (`Removed`).
* When the IO thread takes the end marker from the queue and finishes a call, no tag and no
  pending operation of the QML thread names that call (`EndQueued`). This is what makes it
  safe that only `abort()` takes an extra reference.
* Every response that was accepted is handed over or queued, in order (`HandedInOrder`), and
  only a finishing call has handed over its end (`EndHanded`): so the next response handed
  over is the next one accepted, and none follows the end, which is the refinement.

*ServerReaderProofs*: `CallsSafe` of the method that has no lock. `PointersLive` needs that
the QML thread alone knows the call it answers (`Alone`), that a new object starts clean
(`Fresh`), and that a call without a tag has not lost an answer (`DroppedHadTag`). What can
go wrong without a lock is then an answer that is thrown away, and nothing worse.
`DroppedOnlyIfEarly` says when: the end of the messages is sent in the step that sets FROZEN, a
call never leaves FROZEN but for DONE (`EndedIsClosed`), and no two calls have the same tag
(`OneTagEach`); so a call whose end the handler has heard is not in the status in which
`EndAnswer` gives up.

*ServerWriterProofs*: `CallsSafe`, `LostOnlyByAbort` and the refinement of `OutgoingStream`.
The QML thread has removed the tag of the call it ends or aborts, and still finds that of the
call it answers (`Looked`); a call whose end is queued is known to nobody but the IO thread
(`EndQueued`); a new tag brings back none that was removed (`TagsOld`); a call waits for its
request, or in READ for the handler that is running, until it is FROZEN (`Serving`, `Fresh`).
So `abort()`, which takes no lock, finds no call that is gone, and a call that cannot be
reached any more is one it gave up or one that is about to finish.

*ClientStreamProofs*, the client-streaming method: `GrpcContract`, `DanglingOnlyWhenOver`, `ResultHonest` and the
refinement of `OutgoingStream`, across the deletion of a call object by one thread while the
other holds a pointer to it. The argument:

* `calls_` has exactly the live calls that the IO thread has not yet taken out of it
  (`Listed`), and a call is deleted in FINISH only, which it reaches when gRPC refused it or
  after its end was handed over (`Working`, `Over`): hence the two ways in which the pointer
  that the QML thread holds can dangle.
* Every message accepted is handed over or queued, in order, and nothing is handed over after
  the first end (`HandedInOrder`); a response comes only from a call in FINISH that was ended
  (`ResponseEnded`): so success means that everything was sent.
* A tag hears one result (`OneResult`), because behind a response or a first result the next
  signal of that tag is `closed`, which is queued or will be before anything else of the tag
  (`Sealing`).

The server-streaming method, in the same module (`ReaderInvariance`): `StreamIntact` and
`ToldTheEnd`. `StreamIntact` gives each message a place in the line formed by what was heard
and the queued signals; delivering a message leaves its place as it is, dropping another signal
moves the rest up. It is inductive because the callback is there as long as messages or
their end are queued (`Listening`), for which nothing may follow closed, and only closed an
error (`Following`, `Announced`). Past the last read the callback was told, or will be, and
still listens (`Ended`): so it is not forgotten before.

*ClientBidiProofs*: `OneInOrder`, `EndIsLast` and `HalfDuplex`. Each step starts from a state
in which gRPC was not misused, since the model stops there. The map has every call that is not
past FINISH (`Listed`), and an object that does not exist is as it will start (`Fresh`). A call
reads only after its WritesDone was handed over (`WritesFirst`), hence the half duplex. Behind
a `dataEnd` comes no message and no second one of the tag before `closed`, which is queued or
will be (`Sealing`); with tags that have no past (`TagsOld`) the end is the last thing heard.

*UnaryEndToEndProofs* starts with the two sides on their own. The server: `OneOperation`,
`AlwaysFrozen` and `OneLiveCall` are invariants. Two facts make them inductive. `Unshared`: a
call is reachable in one way only, by one tag or by the QML thread that has removed it;
without it, an answer could leave a second tag behind for the call it finishes. `Fresh`: an
object that does not exist yet starts clean. The client: a callback is forgotten unheard only
after a failure or an empty response. The result of a completed call is in `signals` before
anything else of its tag (`Awaited`), and a tag has no signal before its call completes
(`Untold`).

Then the composition: every joint step is a step of the server or leaves it alone, and
likewise for the client (`ServerSpec`, `ClientSpec`), so the invariants of the two sides hold
in the composition as they were proved. On top of them, `HearsItsAnswer`: no two call objects
serve one call, an object's tag was stored for the call it serves, and the reply it was
finished with is the handler's first answer to that tag; what is queued or heard on the
client's side came from there.

*ObjectProofs*, the server: `CallsAnchored`, `EveryoneListens` and `RefusedOnce`, for any
number of servers, services and starts, with any nesting of the starts in each other's
handlers. The starts in progress are of different servers, and who is still to be signalled
is attached to the server (`OwnFrames`, `RestConnected`). A service listed by a server it is
not attached to was taken from it (`ListedElsewhere`), so the start of one server replaces
the implementation of another's service only if that has strayed (`FoundStrayed`). A service
attached in time is registered or will be (`Registered`), and listens or will be told to
(`Listening`). An implementation uses the queue of a running server that lists its service
(`AtRunning`), and so does a call: that is the server the service is attached to, or the
service has strayed (`CallsAnchored`). A refused start leaves an empty list, which only one start at a time fills
(`Cleared`). That last invariant showed that refusals of starts which gRPC never saw must not
count as "in a row": too early, refused, too early, refused is possible.

The client: `ImplsSafe`. No two holders share an implementation, so a setter, which deletes
its own, cuts off only calls of its own holder (`OwnImpls`); an implementation for a gRPC
channel finds its thread made, and no call waits on another sort (`ThreadMade`).

The fields (`FieldsInvariance`), for any lengths, values and widths, each sort by an invariant
of its own, since a step works on one of them:

* *Numbers.* The view is what the program asked for, and beyond it the buffer is 0 unless
  `clear` left old elements there; on that rest `add` and `resize` depend.
* *Messages.* The two arrays are the same sequence of objects, each holding the content wanted
  at its place; an object that is placed is new, so changing one element changes no other.
* *Oneofs.* The entry of the current case is the value chosen (`Current`), on which a copy
  depends; and what the current case may be after a choice of undefined (`Followed`).
* *Scalars.* A tagged integer fits 32 bits and any other the type of the field (`Tagged`), so
  that every wrap on the way is undone.

Tasks and buffers (`IOInvariance`). A task's copy is the message as it was at the call; done is
queued once and for a task that has not been told, and a callback that was called belongs to a
task that is deleted: so each hears its own, once. Of the buffer calls in progress no two have
the same descriptor, and `file_` is none or that of the innermost call that has a stream
(`FileIsInnermost`): so
the channel's second `close` finds nothing that belongs to another call (`NothingLeft`).
`ReadBack`, an action property, follows since what is stored is what was last told, unless a
failure came between.

Model-checked only: all liveness properties (`EndedIsForgotten`, `EveryCallForgotten`,
`EndedIsFreed`, `AnsweredIsFreed`, `ShutdownReturns`, `TakesNextClient`, `DestroyReturns`,
`EveryTaskAnswered`), because reasoning about fairness and ENABLED is beyond this prover.

## 6. Disagreements

*ServerUnaryCalled* ends in a counterexample: a request without any field set does not reach
the handler, although the README says it is called "for each incoming request", and the method
is blocked, its only call object being FROZEN.

Others are part of the modelled behaviour; the properties are stated around them:

* `server_writer.cpp:150`: `abort()` removes the tag and returns true, but the call data
  ignores it unless FROZEN. The call is lost and the method blocked; `LostOnlyByAbort` says
  that nothing else has this effect.
* `unary.cpp:73`: an error status that comes with `ok` true is emitted as data, dropped as an
  empty message, and the callback is not called (`Failed` in ClientUnary).
* `reader_writer.cpp:130`: a second `end()` is handed to gRPC as a second WritesDone; and in
  `reader_writer.cpp:56` a failed WritesDone calls Finish and falls through to the next
  operation (`Misused` in ClientBidi).
* `writer.cpp:140`: a `write()` after an `end()` that is still queued is accepted and never
  sent (`SuccessMeansSent` therefore counts up to the end marker).
* `server_method.h:51`: a service that is connected in a handler of `starting`, when
  registration is over, hears `started` and has no implementations: the assertion fails.
  `EveryoneListens` leaves such services out (`late`).
* `server_method.cpp:57`: `started` is heard after other handlers of the same signal. If one of
  them starts a second server that still lists the service, its call waits at that server, not
  at the one it is attached to (`CallsAnchored` says that only a strayed service can meet this);
  if one of them shuts the server down, `startProcessing` uses a deleted queue.
* `server.cpp:26`: a start without address or credentials leaves the services registered, and
  a second start registers them again, which gRPC refuses; that refusal clears the list
  (`RefusedOnce`). A service destroyed while it is listed leaves a dangling pointer.
* `method.h:177`: a setter of a holder deletes the implementation its calls in flight emit
  through ("Is it safe at any time ??"); `ImplsSafe` says that only a setter does.
* `field_generator.cpp:279`: the replacement setter of a repeated number field keeps the tail
  of a longer array; `:405`: after `clear`, `resize` uncovers old elements (`spoilt`).
  `resize` of a repeated string field refers to a name the function does not have.
* `field_generator.cpp:475`: the comment says that a field set to undefined clears the whole
  oneof; the code then makes that field the current case, whatever its type, with nothing to
  send or, of a message type, a message with nothing set. `OneofAsChosen` claims nothing of a
  oneof in that state (`unsure`).
* `descriptor.cpp:764`: a parse failure is told with the same first argument, null, as a
  success. A task whose context is gone is never deleted.
* `descriptor.cpp:120`: a `parse` with a callback whose argument is no bytes, and a `serialize`
  whose argument is no message that converts (`:32`, `:37`), or either without a descriptor
  (`:25`, `:71`), returns like a call that started a task, and its callback is never called
  (`EveryTaskAnswered` is about the others).
* `file.cpp:66`: after a stream has closed its descriptor the channel closes the same number
  again. Nothing reopens it in between on this thread, but another thread of the process may.
  `clear()` of a file does nothing. `file.cpp:96`: a failure to write on closing is logged only.

## 7. Not modelled

* Deadlines: `timeout` is written into a context after the call was started; its value
  influences only gRPC. That `set_timeout` creates a call is modelled.
* The target and the credentials of a channel, values on which nothing else depends; a start of
  a server within its own start.
* Strings, bytes, booleans and floating-point values of messages: each is passed through by one
  call of the library. The tree of descriptors (`conversions.cpp`, `descriptors.cpp`): tables
  filled once. Enum numbers without a value, for which the library's lookup gives null.
* Text generation for services, enums and files; registration of plugins, logging, server
  credentials, the table of error codes: no behaviour over time.
* Null messages from a failed conversion: the wrappers pass only values that convert.
* `closed` and `unknownError` of server calls: they carry `tag_`, which no constructor
  initialises, and reach no call.
* The map of handlers on the server side is never cleaned; `ended` takes the program to
  have registered an "end" handler.
* `error()` without a code throws in the wrapper, because `PB.Errors` is undefined, and
  changes nothing.
* The bidirectional client's objects are never freed; nothing else depends on it.
* Wrap-around of the 32-bit tag counters.
* An IO thread that is told to shut down while the QML thread is between the lookup and the use
  of a call: the two lifecycle modules take a call as one thing (in flight, then over), and the
  call modules take the server or channel as one thing (up, then down).

## 8. What is left

1. *Proofs*: `ImplementsStream` for the bidirectional client, up to misuse.
2. *End to end* for the streaming kinds, as for the unary one: a message read on one side is the
   next one written on the other, and both sides agree on the outcome.
3. *Conversion* of strings and bytes in repeated fields (`descriptor.cpp:665` sets where it
   should add).
