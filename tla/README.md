# NanoWorld: TLA+ models, checks and proofs

NanoWorld is a small multi-player server and its client (C++, Boost.Asio, under
`src/Server`). Clients log in, report where their player stands, and are told
where the others stand. This directory holds TLA+ modules that model the parts of
the program that decide what the players see, TLC configurations that check them
on small instances, and proofs for TLAPS. `PROJECT.json` maps every definition to
the lines it stands for, and lists the hazards of the code, the runs, and for each
property a plausible fault of the code that breaks it.

## 1. The system

The server process has three threads: *main* (`Server.cpp`, the world loop), *io*
(`io_service::run`: every handler of every socket), and one *network thread*
(`NetworkThread::Run`). A client has two: *main* (the frame loop of `GLApp::Run`)
and *io*.

| Part | Code | State | Operations | What is hard, and what makes it correct | Module |
|---|---|---|---|---|---|
| World and sessions | `Server/World*.{h,cpp}`, `WorldSession.*`, `WorldSocket.cpp` 149-205 | `m_session`, `addSessQueue`, `m_bPlayerKicked`, the `Player` of each session | LOGIN, MOVE_START, LOGOUT (io); drain, `UpdateAllMove`, erase of one kicked session (main) | `addSessQueue` is locked, `m_session` and the players are not: both threads walk and change them. Session ids are socket addresses, used again. Players must know of each other, where they are and when they left; a session joins once and leaves after its LOGOUT; a login is taken up, and a logged out session erased, while the loop gets that far | `SessionWorld`, `SessionLifecycle`, `UpdateSession` |
| Write path of a socket | `Common/Socket.h`, `SendPacket` | `_writeQueue`, `_isWritingAsync`, `_closed`, `_closing` | `SendPacket` from any thread, `WriteHandler`, `CloseSocket`, `DelayedCloseSocket`; in the other build `Update`, `HandleQueue`, `WriteHandlerWrapper` | partial writes, failures, sends during a write: whole packets, in order, none left behind | `SocketWriter`, `ReactorWriter`, `PacketPipe` |
| Read path | `Socket.h`, `MessageBuffer.h`, `ReadHandler` of `WorldSocket.cpp` and `ClientSocket.cpp` | three `MessageBuffer`s | `AsyncRead`, `ReadHandlerInternal`, `ReadHandler` | TCP cuts the stream anywhere: each frame handled whole, in order, as soon as it is complete | `FrameReader`, `MessageBuffer`, `FrameStream` |
| A connection | both paths | what was written and what has arrived | from `SendPacket` to `ReadDataHandler` | two ends that cut the bytes differently and close on their own: each accepted packet handled once, in order | `Connection`, `PacketLink` |
| Packets | `ByteBuffer.h`, `WorldPacket.h`, `ByteConverter.h` | `_rpos`, `_wpos`, `_bitpos`, `_curbitval`, `_storage` | writes, later changes, copies and reads of fields | bits and bytes share a buffer, values are converted and the header is not: what is read is what was written | `ByteBuffer` |
| Bit streams | `Server/bitstream.h` | `_writePos`, `_readPos`, `_buffer` | writes and reads of values, blocks, strings; skips, alignment | pieces of values across bytes, a buffer that grows and that ends | `BitStream` |
| Client's session | `WorldLink.cpp`, `ClientSocket.cpp`, `Socket.h` 81-96, `NWApp.cpp`, `GLApp.cpp` | the connection, the queue, `m_player` | connect, LOGIN, positions, LOGINACK, LOGOUT, exit | nothing makes main wait for the connection: what does the server hear? | `ClientLogin` |
| Client's picture | `WorldLink.cpp` 46-107, `NWApp.cpp` 70-121 | `m_mapObject`, `m_listRemove` (locked), `m_otherPlayers` (main) | `UpdateObjectMove`, `RemovePlayer` (io); `CalcActor` (main) | a frame reads the shared lists in three critical sections: no ghosts, and the picture settles | `ClientView` |
| Client's player, window and drawing | `fwClient/GLApp.cpp`, `NWApp.cpp`, `Player.cpp`, `World.cpp` | `m_nMoveStatus`, the player's place, the view, the matrix stack | a frame with its keys; the callbacks of GLFW; `Render` | a frame moves by the time of another, callbacks come in any order, transformations pile up: the server knows where the player is, everything is drawn where it is | `Avatar`, `Viewer`, `Scene` |
| Network threads, start, stop | `NetworkThread.h`, `SocketMgr.h`, `AsyncAcceptor.h`, `Server.cpp` | `_newSockets`, `_Sockets`, `_connections`, `_stopped`, `_acceptor` | the start and its failures, accept, `AddSocket`, `AddNewSockets`, the scan, `StopNetwork` | sockets close at any moment; nobody joins the io thread: each socket is counted and released once, the stop ends | `NetworkThread` |
| World loop and clock | `Server.cpp` 55-86, `Timer.h` | `realPrevTime`, `prevSleepTime`; the timers | a tick; `Update`, `Reset`, `Passed` of the timers | 32-bit arithmetic, signed and unsigned, that wraps, a clock that is adjusted, late turns: the sleep stays in bounds, the timers keep time as far as their integers reach | `WorldTicks`, `Timers` |
| Locked queue | `Common/LockedQueue.h` | `_queue`, `_canceled`, `_lock` | `add`, `next`, `next` with a checker, `empty`, `peek`, `unlock`, `pop_front`, `cancel` | a check, a look and a removal are calls of their own | `LockedQueue` |

Connections between them: the io handlers of `WorldSocket` call `World` directly;
LOGIN reaches main through `addSessQueue`; both threads send through the write
path of the receiving socket; frames reach `ReadDataHandler` through the read path
and become packets; `NetworkThread` holds the only lasting reference to a socket,
so its release ends in the address (and session id) being used again; the client's
`ReadDataHandler` feeds `ClientView` and, on LOGINACK, `ClientLogin`. The modules
meet at these interfaces: `Connection` joins a writer and a reader and shows that
packets arrive whole, once and in order (`PacketLink`), which `SessionWorld`,
`ClientView` and `ClientLogin` build on; the clients of `SessionWorld` say what
`ClientLogin` (`WireOrder`) shows that a client can say.

### Not modelled

* `testclient`: a console program for trying the server by hand. Its `main` is
  `CWorldLink::Init` and `io_service::run`, which `ClientLogin` has; the rest is
  commented out.
* GLFW (`include/GLFW`, 3696 lines) is vendored; platform headers and project files
  hold type definitions and build options.
* Of `ByteBuffer`: `appendPackXYZ` and `readPackXYZ` (floating point), printing, the
  texts of exceptions. Of the client: lighting, colours, the calls that set GLFW
  up, and angles that are no multiple of a right one.
* The bodies that only log, and code that is commented out.

What is left of the program's own lines is that.

## 2. Modules

**SessionWorld.** A session is the pair of its address and the number of the
connection there; its id is the address alone (`WorldSocket.cpp:178`). `phase[s]`
is the place of the io thread in the handler for s (`ack`, `setpos`, `bcast`,
`kick`; `lateset` and `latecast` for a position that comes after the LOGOUT),
`mainPc`, `allTodo`, `mover`, `snapshot`, `moveTodo` the place of main in
`UpdateSession`, `UpdateAllMove` and `UpdateMove`. Each iteration of a loop over
`m_session`, and each assignment to a player, is one step, because no lock is
held; `addSessQueue` operations are atomic, because one is. Messages to a client
are kept as what the client was last told about an id (`view`). A `Position` torn
by a concurrent assignment is the value `Torn`. When one thread changes the map
while the other iterates, the iteration may go on over any subset (`Disturb`) or
the process may die (`Crash`): the behaviour is undefined in C++, and both outcomes
occur. A send to a socket that was freed is a `Crash` too, and so is a packet
before LOGIN (`MovesUnset`): its handler uses `_session`, which nothing has set. (The
memory may also hold the pointer of the socket that was there before; that the
handler then works on a session of another player is not followed further.)
`overtaken` is a history variable: ids about which main sent an older copy than the
latest news, during whose loop the map was changed, or whose position came after
their LOGOUT.

**SessionLifecycle** is the abstract life of a session: four sets, of the sessions
whose LOGIN was handled (`known`), of those not yet looked at (`queued`), of the
`members` of the world, and of the `kicked` ones, whose LOGOUT was handled.

**UpdateSession** is the world loop alone, over a run that never ends. SessionWorld
numbers the connections of an address and has only so many of them, so that its drain
of `addSessQueue` always ends; the drain of the code (`World.cpp:28`) need not, while
the io thread goes on adding sessions. Here a `WorldSession` to which nothing refers any
more stands for the next one that is made, and logins go on for ever. Broadcasts change
nothing of what the module is about: a turn of `UpdateAllMove` is a step without effect.

**SocketWriter.** One action per critical section of `_writeLock`; `Transfer` and
`Break` are the operating system, which takes any non-empty prefix of a write or
fails it. It is the build with `TC_SOCKET_USE_IOCP`, the one the project files of
the repository make. **PacketPipe** is what it promises.

**ReactorWriter** is the write path of the other build (`Socket.h` 98-109, 220-295):
`SendPacket` only queues, the network thread polls `Update`, and a write that would
block waits with `null_buffers`. `holder` is who holds `_writeLock` between the
writes of one `Update`. It promises the same `PacketPipe`.

**FrameReader** and **MessageBuffer.** A byte is its place in the stream, so a
misplaced, repeated or lost byte shows. `MessageBuffer` has one operator per
method. `ReadHeaderHandler` and `ReadDataHandler` return nothing but success in this
code, so the branches behind a failure are dead; they are mapped and not taken. But
`packet >>` throws where a payload is too short, or a float no number, and nothing in
the io thread catches it: with a frame of `MayThrow` the process may end (`io = "dead"`).
**FrameStream** is what it promises.

**Connection** composes a `ReactorWriter` and a `FrameReader` of the other end: the
reader's `Arrive` takes no more than the bytes that were written. Its packets are of a
kind that the handlers can read (`MayThrow` is empty). **PacketLink** is what both
together promise.

**ByteBuffer.** A byte is its eight bits; operators return the buffer as the
methods leave it; the state machine builds a packet of any fields, changes some of
them later (`Fill` is `PutBits` into a hole that `WriteBits` left, and there is
`put`), sends it from a machine of one byte order to one of the same or another, and
reads it back, or skips. An exception of a read ends it (`thrown`). Conversions do what the
compiled code does: `EndianConvert` swaps on every machine, since neither macro of
`ByteConverter.h:24` is defined anywhere and the condition compares 0 with 0; the header's
`uCmd` and `uLen` are copied raw (`RawUint16`), so that a receiver of the other order
waits for a frame that never ends (`waiting`); a `bool` is a `char` above 0; a time is
packed without its seconds and unpacked with five bits of its year. `localtime_r` and
`mktime` themselves are external: a time is the fields of a `tm`.

**BitStream** does the same for `bitstream.h`; a value is written in pieces, and a
stream that refused a field (`full`) can still be sent.
**Timers** moves one timer of each class by turns of one loop, which may be longer than an
int32; the 32-bit ones wrap. `DivideByZero` is the reset of an interval timer that has no
interval yet, which ends the process (`up`). **LockedQueue** has a
thread that adds and one that takes, in each of the class's ways. **Avatar** is the
player frame by frame, with time, angles and lengths in units in which sine and
cosine are exact. **Viewer** has one action per callback of GLFW, the user being the
environment. In **Scene** a matrix is the sequence of the transformations it was
made of, so that a transformation too many, or a missing `glPopMatrix`, shows. A
frame is drawn in as many steps as `DrawWorld` draws players, in any order.

These parts and `WorldTicks` share no state with another part. **LoopParts** is the
union of those that a loop moves (the world loop, timers, queue, player, view,
picture), **StandaloneParts** that of `ByteBuffer` and `BitStream`, the parts that
write data to bytes: a behaviour chooses one part at the start, so that one run
checks them all, and what is proved of a part is proved of its behaviours in the
union.

**ClientView.** One action per critical section of `_ObjectLock`, with main's work
on the result. `lost`: ids whose removal came between `GetRemoveList` and
`CleanRemoveList` of one frame.

**ClientLogin.** The queue and the single write of the client, whole packets.
`early` records whether main sent something before `ConnectHandlerInternal` ran,
`overruled` whether `NofifyLogin` reported the origin over a later position.

**NetworkThread.** `where[c]` is where the reference to a socket is. The start is
one step for each thing it makes. Only the failure that the code catches is followed, that
of the acceptor (`SocketMgr.h:31-40`), after which the server goes on without a network;
a `new` or a thread that fails would end the process by an exception nobody catches. `AddSocket` while `Run` clears `_newSockets` without the
lock (`NetworkThread.h:131`), handlers that use what `StopNetwork` has deleted, and
a stop without an acceptor, are `Crash`; main returns with the io thread unjoined,
which ends the process by `std::terminate`.

**WorldTicks.** `getMSTime` counts modulo `W`; updates, late wake-ups and set-backs
of `system_clock` take any time up to their bounds.

`MC*` modules give the constants that need definitions.

## 3. Runs

Most runs take between a second and some tens of seconds; `session_reuse`
takes two to three minutes. The bounds are constants of the modules: `Slot`, `MaxGen`
(connections of an address), `MaxMove`; `MaxPackets`, `Size`; `MaxFrames`, `Begin`,
`READ_BLOCK_SIZE`, `MayThrow`; `WorldSession`; `Opcode`, `PacketField`, `MaxPacketFields`, `StreamField`, `MaxStreamFields`,
`MaxSize`; `Id`, `MaxNews`; `MaxFrames` of ClientLogin; `Conn`; `W`, `MaxWork`,
`MaxLate`, `MaxBack`; `TimerW`, `Diff`, `Interval`, `Expiry`, `Period`,
`TimerTime`; `AvatarTime`, `Rate`; `MaxItems`; `Place`, `MaxAngle`, `MaxScroll`; `Uid`,
`Spot`, `Zoom`. The theorems hold whatever they are.

| Run | Question | Bounds, and why they are enough |
|---|---|---|
| `session_reuse` | `MutualView`, `FreshView`, `NoGhost`: what registered clients know of each other; refinement of `SessionLifecycle` | 2 addresses with 2 connections each: one broadcast to one other session, and an id that is used again while its old session is registered, queued or leaving. `MaxMove` 1: a position and a newer one |
| `session_turnover` | `Served`: who is taken up, and who is erased | 2 addresses, and 3 sessions referred to at one time: two that are kicked while a tick erases one, or one that waits while another address logs in and out for ever. The number of logins has no bound |
| `write_path` | `WriteMatchesFront`, `NoStall`, `Delivered`, refinement of `PacketPipe` | 5 packets of 1 to 4 bytes: a queue with a packet in flight, one behind and senders still pushing, and every split of a write |
| `delayed_close` | `DelayedCloseHonoured` (violated, see below) | 3 packets |
| `read_path` | `WholeBlockOffered`, `PromptlyHandled`, `Handled`, refinement of `FrameStream` | payloads of 2, 0, 5 and 0 bytes with a block of 6: frames smaller and larger than the block, headers and payloads cut everywhere, empty payloads between and last; each may make its handler throw |
| `connection` | `HasPacket`, `EndToEnd`, refinement of `PacketPipe` and of `PacketLink` | 2 packets of 5 and 4 bytes, one of them without payload, with a block of 5: writes that are split, would block or fail with a packet behind, reads that hold the end of one packet and the beginning of the next |
| `client_view` | `NoGhost`, `Settles` | 2 ids with 3 reports each: removed, reported again and removed within one frame |
| `client_login` | `WireOrder`, `ReportedPos`, `LoggedIn` | 3 positions: before, between and behind LOGIN, LOGINACK and LOGOUT |
| `network_thread` | `Counted`, `Reclaimed`, `Stops` | 3 connections: one in each of the accept handler, `_newSockets` and `_Sockets` |
| `loop_parts` | `Sleeps` (the world loop), `KeepTime` (timers), `Fifo` (the queue), `Travel` (the player), `Shows` (the view and the picture) | a clock of 40 values, ticks of 4, updates of 0 to 8 (twice a tick): several wraps; wake-ups and frames up to 2 late, the clock set back by up to 2; timers for 10 units with int32 of 8 values: turns of nothing, within an interval, over it, and of more than an int32, expiries within and beyond an int32, an interval timer without interval; 4 items in the queue, so that it is filled and emptied more than once; frames over 6 units; a window and a cursor in {0, 1}, the view turned by up to 2 and the wheel by 1; 2 other players in 2 places, 2 zooms, and one frame after another on the same stack |
| `standalone_parts` | `RoundTrip`, `Complete` (packets, bit streams) | packets of up to 3 fields and streams of up to 4 of every kind: bits before, between and behind bytes, filling a byte in part, exactly, or beyond, floats and doubles, times in summer and after 2031, machines of both orders, and a stream of 6 bytes that is full |
| `ms_time_diff` | `DiffIsElapsed` (violated, see below) | the world loop alone, with the clock of `loop_parts`, never set back |

`CHECK_DEADLOCK FALSE` stands where the modelled system really stops: the process
has ended or crashed, the connections of the bound are used up, the socket is
closed, the packet is read.

What the passing runs show, in words: in spite of the missing locks, two players
that are registered learn of each other, because main rebroadcasts everybody after
every insertion; what a client shows is out of date, or shows somebody who has
left, only in the recorded windows (`overtaken`); both write paths never repeat,
skip or strand bytes, though the polled one drops packets without a word when a
write fails; every login is taken off the queue, while a session that logged out is
erased for certain only where logins pause and logouts end; the read path handles a frame as soon as it is complete; a packet that
was accepted is handled at the other end while both sockets stay open; a client
says LOGIN first though its main thread may send earlier, because a write without a
connection fails and ends all writing; and the one window in which it does not
(connected, handler not yet run) is known (`early = "window"`).

### Conditions of the properties

They are exceptions that the code really makes, recorded in history variables, and
are the first places to look at when the code changes:

* `overtaken` (SessionWorld), see above. In `NoGhost` it also stands for a position
  that follows the LOGOUT of its session: a client that gets a late LOGINACK
  reports one (`NofifyLogin`), and the server shows the player again.
* `lost` (ClientView); `early`, `overruled` and a late LOGINACK (ClientLogin).
* `DrainEnds`, `LogoutsEnd` (UpdateSession): the scan for kicked sessions comes behind a
  drain that the io thread can keep going, and erases one session, the first in the order
  of a hash map. `Served` promises the erasure of a session only if the drain ends again and
  again, and if from some time on nobody else logs out; without either, the run finds a
  session that is never erased. That a queued login is taken up needs neither.
* `io = "dead"` (FrameReader): what has arrived behind a frame whose handler throws is
  never handled.
* `SameOrder` (ByteBuffer): machines of different byte order do not understand each
  other, see above.
* `sound` (ByteBuffer): while bits are pending, `AppendPackedUInt64` overwrites
  them, because it takes its position before the flush (`ByteBuffer.h:632`), and
  padding and a block of no bytes do not flush them although their reading resets
  the bit position. The fields that end in the pending byte and those behind are
  excepted, all others are not. Nothing in the program writes these fields yet.
* `SameMinute` (ByteBuffer): a time keeps its minute, not its second, loses daylight
  saving, and keeps its year until 2031.
* 4096 bytes: `SendPacket` writes a packet into a `MessageBuffer` of that size without
  comparing (`WorldSocket.cpp:100-106`). The write paths and packets of the models are
  those that fit; a longer one would be written past the end of the buffer.
* `refused` (BitStream): of a string that did not fit, the length may be left in the stream.
* The 32-bit timers: a `TimeTrackerSmall` is held to the time while what is left, or over,
  is an int32, and a `PeriodicTimer` while no turn takes 2^31 or more.
* `Travel` leaves out the first frame, which goes by a time nobody has set.
* `Stops` leaves out a server whose acceptor could not be made: it has nothing to stop.

The clients of `SessionWorld` send LOGIN, positions and LOGOUT, a position before
LOGIN and one after LOGOUT, which is what `ClientLogin` can put on the wire; a
client that disconnects at any moment is included. A second LOGIN is not: no client
of this repository sends one.

### Fairness

* `UpdateSession`: weak fairness of main only. Its loop has no blocking call but the
  sleep. Nothing is assumed of the clients or of the io thread. `SessionWorld` needs none.
* `SocketWriter`: the io thread runs completions, and a posted write completes,
  well or not (`Transfer \/ Break`). Senders are free.
* `ReactorWriter`, in `Connection`: the owning thread polls `Update`, the io thread
  runs the wrapper, a writer goes on, and a broken connection fails the pending read.
  Strong fairness of `WriteSome`: a connection that stands takes bytes again and
  again, though a write may block any number of times in between.
* `FrameReader`: the io thread runs its handlers and reads what has arrived. The
  peer is free; in `Connection` the network delivers what was written (weak
  fairness of `Arrive`).
* `ClientView`: the frame loop. `ClientLogin`: the io thread runs the connect
  handler and the completions; the server need not answer.
* `NetworkThread`: the loop of `Run`, and main once the world loop has been told to
  stop. Nothing is assumed of the io thread or of the start.
* `LoopParts`, `StandaloneParts`: none; their properties are invariants.

### Findings

1. `delayed_close`: the comment of `DelayedCloseSocket` (`Socket.h:136`) says it
   marks the socket for closing after the write buffer becomes empty. On a socket
   whose buffer *is* empty nothing ever closes it: only a completed write looks at
   the mark. Nothing calls the function yet.
2. `ms_time_diff`: at the overflow of the clock `getMSTimeDiff` (`Timer.h:18`)
   returns one millisecond less than what passed. `Sleeps` shows that the
   world loop bears it: the one sleep after an overflow is one millisecond longer.

## 4. Proofs

TLC checks small instances; the theorems hold for every value of the constants
that satisfies the named assumptions. Each `X_proofs` module extends X. Every safety
invariant and every refinement that a run checks is also a theorem, but for those of
StandaloneParts. The inductive invariants were first checked as invariants of the
instances of the runs.

* **SessionWorld_proofs** (any addresses, connections, moves; `SlotAssumption`:
  the addresses are finitely many).
  * `TypeCorrect`: the typing invariant needs `LoopInv`, that main's broadcast visits
    registered ids only, since main alone changes `m_session`.
  * `LifecycleImplemented`: every step of the server is a step of `SessionLifecycle`
    or a stutter, with positions before LOGIN and after LOGOUT as well. It needs
    `QueueInv`: a session is queued once and is not yet a member. The type invariant
    alone would let a session be queued twice and join after it left.
  * `PlayersKnowEachOther` (`MutualView`). The property speaks of the moments in which
    main is not in `UpdateAllMove`; what a step preserves is `ToldInv`: who does not
    know a registered player yet will be told by the loop in progress, because that
    player's turn is still to come (`allTodo`), or is now and the client is still to be
    visited (`moveTodo`). `BusyInv`, that io is in the handler of one session at most,
    and of one an address has now, excludes that a reused address takes the news away.
  * `PositionsAreFresh` (`FreshView`) and `NoGhostStays` (`NoGhost`) come from one
    invariant, `ViewInv`. `NewsInv`: who has heard of a session has heard the latest
    of it (its position, or its removal), or is still to be visited by the io loop.
    `CopyInv`: what main is sending is as recent. `DeafInv`: a connection knows
    nothing before it is made, which is what makes the reuse of an address harmless.
    `LateInv`: a position after the LOGOUT counts as overtaken. That a step may leave
    the invariant only by adding to `overtaken` is what `NewsFrame` is about; the
    exceptions of the two properties are therefore all the races there are.
* **SocketWriter_proofs** (any packets of sizes that fit a `MessageBuffer`). The inductive invariant ties
  the queue to the numbers of the packets (`QueueInv`), the one posted or completed
  write to the front packet (`OpInv`), and the bytes on the wire to both
  (`WireInv`). From it: `WriteIsOfTheFront`, `NoPacketIsLeftBehind`,
  `PipeImplemented`, and `WireInOrder`, which the runs check only as a part of the
  refinement.
* **FrameReader_proofs** (any frames, any chunks, any block size of at least one
  byte, any frames that may throw). The invariant says what each buffer holds at each place of the io thread:
  the read buffer the bytes last received, the other two what was looked at of the
  frame that comes next. From it: `ReadsOfAWholeBlock`, `NoFrameWaits`,
  `StreamImplemented`, and `TypeCorrect` and `AllIsRead`, which the runs check only
  as parts of the others.
* **Connection_proofs** (any packets that fit a `MessageBuffer`, any block size).
  * The writing end, over the steps of its `ReactorWriter`: `WriterIInv` has
    `HolderInv`, that one thread at most writes or waits and has a packet, and
    `WireInv`, that what was popped is on the wire while the connection stands; once it
    is broken or shut, packets are dropped and the wire does not move, which is why a
    dropped packet is never followed by another one (`WriterNext`, `PipeStep`). Every
    step of the connection is one of the writer or leaves it alone (`WriterStep`), so
    `WriterHasPacket` and `PipeImplemented` hold.
  * The reading end takes the invariant of FrameReader_proofs through INSTANCE
    (`ReaderStep`). `TypeCorrect` puts the types of both ends together.
  * `LinkImplemented` puts the pipe of the one end and the stream of the other
    together. Its invariant `LinkInv` says that what has arrived was written, and that
    what was written is accepted packets and a proper part of the next: a frame that
    has arrived whole is then one of an accepted packet.
* **ClientView_proofs** (any ids, any news). `NoGhostDrawn`; the invariant needs
  `CleanInv`, what holds between `RemoveObjects` and `CleanRemoveList`: clearing
  the whole list then loses only what `lost` records.
* **ClientLogin_proofs** (any number of frames). The invariant speaks of `Said`, what
  went out and what is queued behind it, which only grows: `WrittenFacts` shows that a
  write moves a packet without changing what was said. `LoginFirst` (`WireOrder`) needs
  that LOGIN is the first word of a client that was not touched too soon (`LoginInv`),
  that LOGOUT is the last (`LogoutInv`), and `RefusedInv`: what was said before there
  was a connection keeps everything after it off the wire. `PositionReported`
  (`ReportedPos`) needs that the last word is where the player is (`PosInv`).
  `TypeCorrect` needs `WriteInv`: nothing is written if and only if nothing is queued.
* **NetworkThread_proofs** (any set of connections). `ConnectionsCounted` (`Counted`):
  a step of accept, of `AddNewSockets`, of the scan or of the stop changes the counter
  by the number of sockets that come or go. It needs that one socket at most is in the
  accept handler (`AcceptInv`), that the scan visits only what the thread holds, so
  that no socket is counted off twice (`ScanInv`), and which objects there are at each
  step of the start and the stop (`MainInv`). `TypeCorrect` rests on the same.
* **LoopParts_proofs** (any values of the bounds; `ConstantsAssumption`: the times of
  two ticks can be told apart on the clock, and what the constants are of: of the timers
  that intervals are natural numbers, turns and expiries uint32, periods positive int32). Each part has an inductive invariant of its
  own, and `PartInv` says that the part that runs keeps it.
  * The world loop: `SleepsMakeUp` (`Sleeps`) bounds a sleep (`SleepInv`), and that it
    makes up for the tick before needs `MeasuredInv`, that the difference a tick took of
    the clock is the time that passed, or one millisecond less at the overflow (`Overflow`).
  * The timers: `TimersKeepTime` (`KeepTime`) relates each timer to the time since it
    was set: the interval timer's rest is that time modulo its interval, however many
    turns and resets made it up (`RemainderOfSum`), a tracker holds what is left, and
    the 32-bit one the int32 that this wraps to (`TrackerInv`, `Wraps`), which is the same
    while it is one; and each expiry of a periodic timer has cost it a period at least, if
    the turns were int32 (`PeriodicTurn`, `ShortTurn`).
  * The queue: `QueueIsFifo` (`Fifo`). What was taken, followed by what is queued, is
    what was added; `HeadMoves`, `EndGrows` and `CountGrows` are what one item taken or
    added does to that. What the taker has looked at is still the front when it pops,
    since the other thread only adds.
  * The player: `PlayerTravels` (`Travel`) needs `InTimeInv`: the way moved, and the
    frame that Draw noted and the next will move by, are no longer than the time since
    the first frame.
  * The view: the first half of `ShownAsItIs` (`Shows`) needs that while the right
    button counts as pressed the noted position is the cursor's.
  * The picture: for the other half, `TopOfStack` says what a push and a pop do,
    `PlayerDrawn` that `Player::Draw` leaves the stack as it was and draws with its top;
    `SceneInv` then says what of the frame is drawn, turn by turn of the loop of
    `DrawWorld`, under the same two matrices.
  * `TypeCorrect` includes that the unsigned subtractions of the world loop do not
    underflow, and a window without height is not
    fitted.

Only model-checked, and why:

* everything under fairness (`Served`, `Delivered`, `Handled`, `EndToEnd`, `Settles`,
  `LoggedIn`, `Reclaimed`, `Stops`): the prover has no liveness rules. The safety
  parts of the refinements are all that these abstract specifications state
  (UpdateSession is there for `Served` alone and has no theorem);
* `TypeOK`, `RoundTrip` and `Complete` of StandaloneParts: `ByteBuffer` and
  `BitStream` fold over the bits, pieces and elements of a field (the loops of
  `WriteBits`, of the containers, of a value cut at byte boundaries), select from
  sequences and use powers of two, and what such a definition computes for every input
  takes induction over data. Splitting the folds into steps, as `Scene` does for the
  loop of `DrawWorld`, is no way out here: a field is read and written by one call,
  whose result the property is about.

## 5. Plan

Written: SessionWorld, SocketWriter, FrameReader, ClientView, ClientLogin,
NetworkThread, WorldTicks, ByteBuffer: what the players see first, then what carries
it, then what surrounds it. After them the write path of the other build and
`Connection`, the positions before LOGIN and after LOGOUT in SessionWorld, the start
of the server, the parts that stand alone, the world loop under logins without end, and
the proofs: every safety property of
these parts but those of packets and bit streams is a theorem.

Left: the client's half of the view composed with SessionWorld, a message about an id
that is delayed on its way while the id is used again.
