# Remote Collaboration: a TLA+ verification project

The repository lets an Android tablet (the *client*) show and answer the calls
of an Android phone (the *server*) over the local network. Its own logic is some
3,600 lines of Java under `src/Collaboration/`: a connection library used by
both ends, and an application on either end. The sound goes through a vendored
copy of WebRTC's voice engine (`src/webrtc_backup/`, C++), driven through JNI.
This project models the Java logic and the part of the engine on which its
correctness rests (the life of threads, channels and devices), model-checks both
with TLC on small instances and proves the most important properties with TLAPS
for every value of the constants.

## 1. Inventory

| Part | State it keeps | Operations | Hard behaviour |
| --- | --- | --- | --- |
| Socket data sender, heartbeat (`SocketDataSenderThread`, `HeartbeatThread`) | a list of tasks used as a stack, a stop flag, a timer | `addMessage`, `addHeartbeatPackage`, `stopRuning`, `run` | wait/notify between three kinds of threads, stop without notify, streams closed under a write |
| Authorization (`ApplicationManager.mAuthorizer`, `AuthorizeCheckerActivity`, `KnownDeviceSaver`) | one result and one device for all requests, the saved devices | `authorize`, `checkPass`, `checkFail`, `setAuthorize` | several workers blocked on one monitor, the user's answers, use of fields outside the lock |
| Server connections (`SocketServerConnectionThread`, `ConnectionThreads`, `ServerConnection`, `Connection`) | pool of 5 threads and a queue of 128, map name -> connection, map name -> status | accept, run, receive, send, verdict, stop | names assigned after the start, shared names, full queue, lost tablets |
| Client connection (`SocketClientConnectionThread`, `Connection`) | the current thread, one status, per-thread status and stop flag | `start`, `stop`, announcement, `run`, status report | replaced threads that live on, checks not atomic with their use, late answers, timeouts |
| Discovery (`BroadcastSenderThread`, `BroadcastReceiveThread`) | list of broadcasts, UDP socket, flags | add, stop, send, receive | lost and repeated datagrams, second bind, stop without notify, a field tested and then used |
| Call control, phone (`CollaborationService`, `PhoneUtils`) | the phone's call state, audio | `onCallStateChanged`, `onMessage` | one state for several calls, states reordered on the way, an exception that ends the connection |
| Call control, tablet (`PhoneMsgListener`, `InCallUIService`, `CallManager`) | list of events, handler, floating windows, call table | `onMessage`, `setHandler`, messages, buttons | a list filled by one thread and emptied by another, a service started late, the death of the process |
| Audio manager (`AudioManager`, JNI `VoE_*`) | the engine, one channel number | `prepareAudio`, `startAudio`, `stopAudio` | every call may fail and results are ignored |
| Voice engine: module thread (`ProcessThreadImpl`, `ThreadPosix`) | the registered modules, a lock, `alive_` and `dead_` | start, stop, register, deregister, process | a lock held while waiting for a thread, time limits that give up |
| Voice engine: channels (`ChannelManager`, `ChannelOwner`) | reference counts | create, get, destroy, let go | the last holder deletes, on his own thread |
| Voice engine: `VoEBaseImpl` | device, initialized | `Init`, `Terminate`, `CreateChannel`, `DeleteChannel` | callbacks of the audio device while it is taken down |
| Protocol (`PhoneProtocol`, `CommonProtocol`) | none | pack, parse | none |
| Rest of WebRTC, platform patches | | | third-party code |

How they interact: the phone's `Connection` starts the accepting thread and
announces its address by UDP; the tablet's `Connection` starts a connection
thread for an announcement. Each end of a socket has a reading thread and a
sender. The tablet's thread reports UNAUTHORIZED, whereupon `Connection` sends
an authorize package; the phone's pool thread calls `authorize()`, blocks until
the user answers, sends PASS or FAILED and marks its connection. Heartbeats
from the phone every 10 s, answered by the tablet, keep both 15 s read timeouts
from expiring. Application data then goes as JSON strings: the phone's call states
to the tablet, the tablet's ACTIVE (accept) and DISCONNECTING (reject) to the
phone. On accept the tablet starts the voice engine, whose module thread and
audio device thread then run beside the main thread; the end of the last call
stops it.

What makes each part correct:

- sender: no lost wakeup; each message attempted at most once and reported as
  it was; a stop that reaches the running thread ends it, soon;
- authorization: nobody is admitted by a stale approval; an answer decides the
  device it was given for; no worker is blocked for ever;
- server connections: a verdict reaches its own connection only; a connected
  tablet is listed; one that is turned away leaves no trace; the pool's threads
  come back;
- client connection: the status shown is true of some thread; the thread in use
  has asked to be authorized; ended threads stay ended; an announcement starts
  a new thread, and leaves a connected one alone except in one race;
- discovery: the two ends find each other; a tablet that was started listens; a
  stopped receiver hears nothing;
- call control: windows and audio belong to calls, calls whose end was reported
  are forgotten, an accepted call is answered;
- voice engine: nothing is used after it was deleted, nothing is deleted twice,
  `Terminate()` leaves nothing behind, every call returns.

`PROJECT.json` lists the hazards, each at its line, with the properties that
watch it.

## 2. Modules

| Module | Models | Composes |
| --- | --- | --- |
| `AtMostOnceSender` | the abstract promise of a sender | |
| `SocketDataSender` | `SocketDataSenderThread`, `HeartbeatThread`, the owner's `releaseServerSocket` | implements `AtMostOnceSender` (`AtMostOnce`) |
| `Authorizer` | `authorize()`, the dialog, `KnownDeviceSaver` | |
| `ServerConnections` | accepting thread, pool, `ServerConnection`, the server's half of `Connection` | contains `authorize()` as "any time, any answer" and senders as the set of packages given to them |
| `ClientConnection` | connection threads and the client's half of `Connection` | the phone is external |
| `Discovery` | both broadcast threads of both ends, the broadcast half of `Connection` | the TCP connection is one flag, UDP is external |
| `VoiceEngine` | `AudioManager`'s calls and what they do to the engine, as functions | |
| `Calls` | `CollaborationService`, `PhoneMsgListener`, `InCallUIService`, `CallManager` | contains `VoiceEngine`, and two senders as stacks |
| `ProcessThread` | `ProcessThreadImpl` on `ThreadPosix` | |
| `ChannelManager` | `ChannelManager`, `ChannelOwner`, `Iterator` | |
| `VoiceThreads` | `VoEBaseImpl` on its caller's thread, the audio thread, the module thread | composes `ProcessThread` and `ChannelManager` and implements both (`ImplementsComponents`) |
| `MC*` | constants and symmetry for TLC | |
| `*_proofs` | theorems and lemmas | |

Names are the source's. `PROJECT.json` maps every definition to its lines.
Definitions whose name carries an underscore suffix and whose comment begins
with "Slip" are mutated forms of the definition after them: what a plausible
mistake in that code would look like, used to show that the properties notice.

**SocketDataSender.** `mMessageTask` is the list; a task is its identifier, a
heartbeat is -1 and has no listener. The Java monitor is held exactly while
`pc = "writing"`; every other critical section is one step, and `wait()` splits
`run()`. `Object.wait` may wake spuriously. The owner closes the streams and
then sets the flag; a server connection that ends by an exception does so twice.
The history `heard` says that `stopRuning` was called after `run()` had cleared
the flag, and `late` counts the tasks taken since.
`mThreadStop` is not volatile; the loop enters a monitor between two tests, so
the model lets `run()` see the flag at its next test.

**Authorizer.** A request is one call of `authorize()`. Fields shared by all
calls are shared here, and a step ends wherever another thread can come
between: after each field assignment, at the lock, at `wait()`. Names and macs
are what `Utils.getDeviceName` and `getDeviceMac` extract; the digest is taken
to be free of collisions. Android may bring an existing dialog to the front
instead of creating one (`FLAG_ACTIVITY_NEW_TASK`), and the Back key may close
a dialog without an answer. The saved devices of an earlier run of the program
are any set (`Init`).

**ServerConnections.** A connection's place in `run()` is `pc`; it is handed to
a pool thread before it has a name (`acceptAndExecute`, `setThreadName`,
`onNewConnection`, `putConnection` are separate steps). `changeConnectStatus` is
two steps: the status of the connection first (`runOpen`,
`setAutorizeCheckPass`), the entry in `mNetWorkInfos` by the listener afterwards
(`runOpened`, `reportApproved`); `approved` is the connection whose report is
under way. Map keys are records of
a class and a value, because `get(0)` in the code is about the class of the key.
A full queue throws and ends the accepting thread; the connection is then
`"rejected"`.

**ClientConnection.** `start()`/`stop()` (main thread) and announcements
(broadcast thread) test a status first and use `mSocketClientThread` later, so
each is split there; an announcement tests twice (`onBroadcast`, then
`onBroadcastReplace` or `onBroadcastKeep`) and then starts what the field holds.
`Thread.start()` on a thread that was started before throws, and nobody catches
it: the process ends, all its threads `"killed"` (`startConnectionAgain`). The
status of `Connection` begins as what `checkPort` leaves: `NOT_INIT`, or one of
three conflict errors, which the model does not tell apart. A thread's status is
set before it is reported, and the authorize package is sent after the lock of
the report is released. The phone may answer on any connection:
`ServerConnections` shows that it does so when it cannot name the connection.
`getDeviceName` and `getDeviceMac` are taken not to be empty, as on an Android
device.

**Discovery.** Generation 0 is the phone's pair of threads, generations 1, 2,
... those of the tablet's calls of `start()`, which never end the older ones. A
port is held by at most one open socket of an end. `stopReceive` is split
between the test of the socket field and its use, because the receiver's
`finally` block sets the field to null: the main thread may die there (`main =
"crashed"`). All datagrams of a kind are equal, so the network is a set of
kinds, of which copies are taken. A sender's test of `mThreadStop` and its send
are one step. The end of the tablet's process by a second `start()` of a
connection thread is left to `ClientConnection`. The histories `hasty` and
`lost` say what would excuse that the ends do not meet; `stopped` says which
receivers a `stop()` has closed.

**VoiceEngine.** The engine is a record; each JNI function maps a record to a
record, with a Boolean for each step that may fail (`Outcomes`: one failure in a
start). `VoE_StopListen` calls `StartReceive` in the code, and so it does here.
A channel that cannot be created makes `VoiceChannelTransport` assert, which ends
the process (its file undefines `NDEBUG`).

**Calls.** The two senders are stacks, as `SocketDataSender` has them. Numbers of
call states are converted as `Call.java` does it. `jsonList` is used by two
threads without a lock, so `isEmpty`, `remove(0)` and `add` interleave, and two
at once may lose or double an element (`deliverMsgBothRemove`, `onMessageAdd`).
An empty list makes `remove(0)` throw: in the reader's thread that ends the
connection, in the main thread the process (`processDies`), which Android starts
again. `mHandler` is not volatile; the model lets a thread see it at once.
The phone may have several calls, one of them ringing (call waiting), but
Android keeps one state for all and reports it only when it changes
(`callsBecome`). RINGING comes with its caller's number; IDLE, which comes once
for all calls, with any number; the number that comes with OFFHOOK is read by
nobody. `missed` (calls that ended without an IDLE that names them, or whose IDLE
was lost or came too early) and `raced` are histories.

**ProcessThread.** Each start makes a new `ThreadPosix` object, numbered.
`EventPosix::Wait` has a time limit and no loop around its condition variable:
it may return at any moment, so events need no variable. `Start()` returns 0
even if `pthread_create` failed (a `bool` is compared with `>= 0`). The path by
which a created thread's `Start()` returns false (`result |=`,
`thread_posix.cc:178-194`) cannot be taken with the constant arguments the
applications use, and is left out.

**ChannelManager.** `held[h]` is what a holder `h` refers to; `ref_count` is
counted as the code counts it, and `HeldXorDeleted` relates the two.

**VoiceThreads.** Each step is a step of `ProcessThread`, of `ChannelManager`, of
both (`~Channel` deletes and deregisters), or of neither; `call` is the place of
the API's caller, serialized by the engine's `crit_sec()`. The audio thread may
be the last to let go of a channel, and then runs `~Channel`.

## 3. Runs

Passing runs:

| Run | Bounds | Shows |
| --- | --- | --- |
| `sender` | 3 messages, 2 queued heartbeats, both kinds of sender | invariants, refinement of `AtMostOnceSender`, that every message is attempted although heartbeats never cease (`Drains`), that a stop of the running thread is obeyed after one more task (`AtMostOneAfterStop`), and that a stop after `run()` began ends a server's thread |
| `authorizer` | 2 requests of 2 devices | `NoStaleApproval` with spurious wakeups; `DialogsMatchWaiters`, `SoleVerdict` without; `EveryCallReturns` |
| `server` | 2 connections, 2 threads | `VerdictsStayApart`, `ConnectedIsListed` |
| `server_queue` | 3 connections, 1 thread, queue of 1 | `TypeOK`, `TurnedAwayLeavesNoTrace`: shared names, a full queue and the death of the accepting thread |
| `server_pool` | 2 connections, 1 thread | a silent tablet frees its thread, the queue is served |
| `client` | 3 threads | the safety properties of the client (`StartedAgainOnlyIfLetIn` and `StatusOfCurrentThread` among them), and that every thread told to stop, or left by its phone, ends |
| `discovery` | 2 starts of the tablet, 1 waiting answer beyond which queries are not repeated | `StartedIsListening`, `NoBroadcastLeftBehind`, `TheyMeet`, `StopIsFinal` |
| `calls` | 2 numbers, 2 calls, perhaps both at once, 2 clicks, 2 call states on their way | `AudioOnlyDuringCalls`, `WindowsAreCalls`, `EndedCallsAreForgotten` |
| `voice_threads` | 2 module threads, 1 channel, 3 holders | `DeletedThreadIsOver`, `VisitedModulesExist`, `HeldXorDeleted`, `TerminatedIsClean`, `EveryVoECallReturns`, `StopEndsModuleThread` |

Why these bounds are enough: each hazard needs at most two actors of a kind
beside a third that arrives (two messages and a heartbeat on the stack, two
blocked workers, two connections for one name and a third for the full queue, a
thread created by `start()`, one replaced and its successor, an old receiver and
a new one, two calls of which one is forgotten too late, two states of which the
second overtakes the first, two clicks of which the first leaves a channel
behind, a module thread left behind and its successor, a channel that three
holders share). Every invariant and every action property of the passing runs is
moreover proved without bounds (section 5). In `calls` numbers are symmetric;
the other runs use no symmetry beyond what their MC modules state.
`CHECK_DEADLOCK FALSE` is set throughout: bounded numbers of messages, requests,
sockets, threads and calls are used up, and a stopped thread rests.

Runs that show a disagreement between the code and what the repository says
(each quoted in `PROJECT.json`, "findings"):

| Run | What TLC finds |
| --- | --- |
| `sender_stop_race` | a release before the sender's first instruction is undone by `mThreadStop = false`; thread and timer live on |
| `authorizer_saved` | the box "Always allow this connection" saves a device that was not shown |
| `calls_answered` | a call accepted on the tablet is not answered: `getNetWorkInfo` is null on a server, and the exception closes the connection first |

More facts the modelling brought out are kept in the properties' wording.
`VerdictsStayApart` needs its two provisos: beyond `MAX_THREAD_SIZE` accepted
connections names are shared, and an authorize package that is handled before
`setThreadName` is answered to everyone. `StopsOnceRunning` is stated for the
server's sender: a client's sender asleep in `wait()` is never woken by a stop.
`StopEndsThread` leaves out a thread that has not begun `run()`, whose
`initRunningArgument` clears the flag; three threads have to race for that.

`AtMostOneAfterStop` counts from a `stopRuning` that comes after `run()`'s first
line: an earlier one stops nothing (`sender_stop_race`), and between the close
of the streams and `stopRuning` any number of tasks may be taken and fail.
`ConnectedIsListed` leaves room for the report that is under way, since status
and list change under different locks. `StartedAgainOnlyIfLetIn` shows the only
case in which a thread is started again: it was let in between the two tests of
an announcement. `TerminatedIsClean` speaks of the step in which `Terminate()`
returns: no module thread is in use by then, but if `Stop()` gave up after ten
seconds the one it left may still run, without a module to call
(`StopEndsModuleThread`: if it had begun, it ends).

`EndedCallsAreForgotten` excludes the calls that no IDLE named and those whose
end was lost with a connection or overtook their beginning, because the code
keeps those: the first of two calls to end gets no event of its own. `TheyMeet`
holds for ends that listen before they broadcast and for a network that loses
nothing.

Remarks on the source that need no run:

- The comments "We just need one connection"
  (`SocketServerConnectionThread.java:67`,
  `SocketClientConnectionThread.java:157`) no longer describe the code: the
  accept loop does not test for connections, and every announcement during a
  pending authorization adds a client thread.
- The test at `Connection.java:328` is inverted, and reads a status servers never
  update; the object it lets through is only logged by both applications.
- A spurious wakeup in `authorize()` leaves a dialog on the screen that then
  answers for a later request, which is why `SoleVerdict` excludes it. With two
  workers blocked, `notify()` wakes either, so that the approval of one device
  can admit the other, whose dialog was cancelled.
- A client thread that is let in between the two tests of an announcement
  (`Connection.java:296` and `299`) is neither left alone, as line 297 says
  ("Thread is connected. Do nothing."), nor replaced: line 308 starts it again,
  `IllegalThreadStateException` leaves `BroadcastReceiveThread.run`, which catches
  only `IOException`, and the tablet's process ends (`startConnectionAgain`).
- A client thread that becomes connected between the second test and the
  replacement in `Connection.onNewDataReceived` (lines 299 and 304) is replaced
  all the same; it lives on beside its successor.
- After a rejected connection nothing accepts: `SocketServerConnectionThread`
  leaves `mThreadRunning` true (line 82 is skipped), and nobody starts another.
- The tablet may broadcast before its own socket is bound
  (`Connection.java:192-197`, "Setup 1, Listen", "Setup 2, Send"), since the
  receiving thread binds it later; nothing is sent again, and the tablet then
  waits for an announcement that may not come.
- `stopReceive` may meet a field that has just become null
  (`BroadcastReceiveThread.java:36-37`) and kill the main thread.
- `dismissFloatUI` takes the handler back only if there is no call, but is called
  before the call is removed: by `WindowsAreCalls` the branch is dead, and the
  handler of a service that has stopped itself goes on being used.
- `PhoneUtils.endCall` ends whatever call the phone has, not the one rejected.
- Each click on Accept leaks the channel of the click before; only `Terminate`
  silences it. A failed `Init` leaves its module thread running, and the next
  `Init` fails for that until `Terminate`. Lines 58-60 of
  `process_thread_impl.cc` are unreachable.

## 4. Fairness

Weak fairness of each thread's own steps: the JVM schedules runnable threads.
The heartbeat timer fires while it is armed. A read returns, by an object or by
the socket's timeout (`setSoTimeout` on both ends). Nothing is assumed of the
user, of the other device, or of callers: liveness that depends on the user says
so in its premise (`EveryCallReturns`, `QueueIsServed`).

`Drains` has the premise that again and again the sender is back from its last
write with no heartbeat queued (`HeartbeatsAreWritten`): heartbeats come every
10 s for ever on a live server, but a write takes less. `TakeMessage`, the step
that takes a message from the top of the stack, has strong fairness: between two
heartbeats the sender gets the monitor. Without either the stack starves a
message. Messages of the application are finitely many (`MaxMessages`).

In `VoiceThreads` the steps that need a lock have strong fairness: the module
thread takes and frees the lock of the module list again and again, and a
pthread mutex is taken at last by a thread that waits for it. The audio callback
returns; that it comes is not assumed, and neither is a call of the API. Time
limits may expire at any moment, but a thread that polls also sees what it polls
for. `Discovery` and `Calls` are checked for safety only (`Spec`): UDP and the
user guarantee nothing, and `TheyMeet` and `EndedCallsAreForgotten` are stated of
quiet states instead.

## 5. Proofs

All theorems are checked by TLAPS to the last leaf. Assumptions are the named
`ASSUME`s of the component modules (natural-number bounds, finite sets of
requests and of connections, a null value outside the sets: `NullAssumption`
says that Java's `null` is neither a pool thread's name nor a `NetWorkInfo`) and
nothing else. The larger inductive invariants (`Sole`, `Apart`, `OneThread`,
`NoTrace`, `Closing`, `Meeting`, `EndsInv`) were checked by TLC on the
components' instances before they were proved.

- `SocketDataSender_proofs`. The type invariant is inductive. `NoLostWakeup` is
  inductive with it: both adders notify, and `run()` waits only on an empty
  list. `AtMostOneAfterStop` needs that a stop heard by the running thread stays
  (only `RunStart` clears the flag), and where `run()` can be when a task has
  been taken after it. `EveryMessageAccounted` rests on lemmas about the
  elements of `Append` and of a prefix of a sequence (`ElementsOfAppend`,
  `PrefixProperties`, `ElementsOfFront`). `ImplementsAtMostOnce` shows that
  initial states map to initial states and each step to `Accept`, `Attempt`,
  `Close` or a stutter; it uses the previous invariant, since a taken task must
  be pending exactly once.
- `Authorizer_proofs`. `NoStaleApproval` is not inductive: `ApprovalInv`
  adds that, while a call waits or has been woken, a TRUE in `mCheckResult` means
  that OK was pressed since that call began to wait. The reset of the field
  under the lock before `wait()` is what makes it so. `DialogsMatch` counts: with
  finite sets of requests, the step that adds a waiter adds a dialog or an
  abandoned one, and an answer removes one of each; it needs that waiters and
  dialogs are finite and that a spurious wakeup is remembered. `SoleVerdict`
  speaks of a call that has returned; `Sole` says what holds of it on the way: a
  call nobody overlaps is the only active one (`Alone`), so the shared fields are
  its own, and finds the screen empty, which is where `DialogsMatch` is needed:
  no call waits, so there is no dialog (`ScreenIsEmpty`). From the answer to the
  return `mCheckResult` is that answer (`Undisturbed`).
- `ServerConnections_proofs`. `TurnedAwayIsUnknown` follows from `NoTrace`: a
  connection outside the pool is in no table, and the one being registered is in
  the pool. `Queued` says that the connections that wait are the queue's. For the
  verdicts, `Apart` follows a connection through
  its registration: up to `MAX_THREAD_SIZE` accepted connections names are given
  in order and not twice (`NamesApart`), a name in `mConnectionMap` leads to the
  connection that has it, which is listed by then (`MapApart`), a CONNECTED one
  has its own verdict (`ConnectedApart`), and a verdict is addressed by the name
  the connection had when its package came (`SentApart`). That
  `onNewConnection` precedes `putConnection` is what the induction uses. A
  connection that has been approved has made its own report of UNAUTHORIZED
  before (it has read a package since), so no report overwrites CONNECTED.
- `ClientConnection_proofs`. `IInv` adds to the properties which statuses a
  thread can have at each place in `run()` (`StatusByPlace`), that a call past
  its check finds a thread (`CallsHaveThread`), and that the current thread
  keeps having asked while it reports CONNECTED (`Asked`).
  `StartedAgainIsLetIn` needs that a thread keeps CONNECTED until it is
  DISCONNECTED, so what the second test saw is still so when the thread is
  started. `NoGhostConnection`
  is proved by following its witness through each step. `NoRevival` follows
  from `StatusByPlace` as an action property. `StatusOfCurrentThread` needs
  `OneThread`: until a live thread is replaced only the current one is alive, so
  nobody else reports, and a thread replaced after its end has left DISCONNECTED;
  before the first report the status may be `checkPort`'s error.
- `Discovery_proofs`. `Lives` says what socket and flags a receiver has at each
  place of its `run()`, `Told` that the tablet connects and stops only after one
  of its own threads was told the address. `StopIsFinal` follows from `Closing`:
  a receiver that was stopped keeps its closed socket, one that is told to stop
  while it listens is the newest, and no sender is left once `stop()` has
  returned. `StartedIsListening` uses it too: without a `stop()` the newest
  receiver can only have ended by a failed bind, and then an older one holds the
  port. `Meeting` is the invariant behind `TheyMeet`: an end that has
  sent its first broadcast listens (`PhoneListens`, `TabletListens`), and once
  both ends are started, and until the tablet knows the address, an announcement
  or a query is queued, on the network or being delivered (`UnderWay`).
- `Calls_proofs`. `CallsInv` joins the two properties and what they need: an
  engine that was never created is silent (`Sound`), and as long as the listener
  has no handler the tablet has neither messages nor calls nor windows, so that
  the service's `onCreate`, which starts with empty tables, forgets nothing. The
  lemmas say what each function of `VoiceEngine` preserves; `stopVoiceEngine`
  leaves nothing that sounds because its `Terminate` does not depend on
  `voiceChannel`. `CallTyping` needs that a state survives the conversion to its
  number and back (`Wire`). `EndedCallsAreForgotten` speaks of quiet states;
  `EndsInv` says where the end of a call is until then. What the tablet has
  received and not shown is one sequence, `received`: the main thread's queue,
  what a thread holds between `remove(0)` and `updateState`, and the list. For
  each caller whose call is over and whose end was not missed, that end is still
  in the phone's sender, or it comes in `received` after every beginning of the
  call (`BegunEnds`) and is there if the tablet knows the call (`EndComes`); a
  call is over (`Over`) when it is neither ongoing nor missed, and one that ends
  without an IDLE of its own is missed at once. Since the sender is a stack, the
  end may leave it before the beginning: exactly then `missed` grows. The
  argument needs that without a race only one thread delivers (`OneDelivers`)
  and that a thread that has removed an event still has the handler to give it
  to (`Delivering`), which follows from `WindowsAreCalls`.
- `VoiceThreads_proofs`. `ThreadInv` says where `Run()` can be for each place of
  `Start()` and `Stop()` and each value of `dead_`; `LockInv` who holds the lock
  and that what is being visited is registered; `CountInv` that `ref_count` is
  the number of the references there are, whence `HeldXorDeleted`. `VTInv` joins
  them with the places of the API's caller (`CallInv`) and with the modules each
  channel has registered (`ModuleInv`). `ImplementsComponents` shows that the
  composition implements `PTSpec` and `CMSpec`; `TerminateCleans`, about the
  step in which `Terminate()` returns, follows from `VTInv` (`NothingLeft`).

`TypeOK` of the sender and of the client are proved and no longer model-checked.

Only model-checked: the liveness properties (`Drains`, `StopsOnceRunning`,
`EveryCallReturns`, `SilenceFreesThread`, `QueueIsServed`, `SilenceEndsThread`,
`StopEndsThread`, `EveryVoECallReturns`, `StopEndsModuleThread`), since fairness
and ENABLED are out of the prover's reach, and the three runs that show a
violation.

## 6. Not modelled

- String building, the text of JSON, logging and screens.
- The entry points of the applications, which only call `start()` and `stop()`,
  and `InCallUIActivity`, which nothing starts any more.
- The phone's `AudioManager`: its code is the tablet's, and it is never started.
- Most of `webrtc_backup/` (half a million lines, vendored): tables, codecs and
  signal processing are numerical code without a protocol, video is not used by
  the applications, and devices of other platforms are not built. Modelled is
  what the applications' audio depends on: starting and stopping, threads,
  channels and their deletion.
- `WebRTCDemo/` beyond the JNI functions, `platform/`, `Collaboration_Voice`, the
  copies of `org.webrtc` and the test applications.
- In `ClientConnection` announcements may arrive at any time, also after `stop()`
  has closed the broadcast socket, a superset of what the code does.
- Reads of non-volatile fields without a lock (`mHandler`, `mThreadRuning`) are
  taken to see the last write.

## 7. Plan

1. `Handshake`: one `ServerConnections` and one `ClientConnection` joined by
   channels: both ends agree on CONNECTED up to messages in flight, heartbeats
   keep live connections open, dead ones are noticed at both ends.
2. Proofs: the safety facts on which the liveness properties rest (a thread that
   must stop always has a step of its own enabled by its place), and what a
   `Handshake` would add.
