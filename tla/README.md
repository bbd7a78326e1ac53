# WarPowers engine: formal models of multiplayer and of the update scheduler

The repository is a port of the Command & Conquer Generals / Zero Hour engine.
Its multiplayer is a peer-to-peer lockstep: every machine runs the same
deterministic game, and the machines exchange only the players' commands. If two
machines ever run a logic frame with different commands, or in a different
order, the games diverge and nothing can bring them back together; if a machine
waits for a command that will never arrive, everybody stops. The network layer
exists to prevent both over UDP, with changing latencies, players who leave and
messages that are lost, repeated and reordered. That layer is the core logic of
the program that a test can hardly reach, and most of what is modelled here is
of it: the lockstep, the connections under it, the router and its failure, large
commands, the removal of players who do not answer, and the screen where a LAN game is
set up. Of the game logic the scheduler of updates is modelled: which
module is called when is part of what has to be the same on every machine.

Paths are relative to `src/Core/GameEngine/Source/GameNetwork/` unless they say
otherwise. `PROJECT.json` maps every definition to the lines it stands for.

## Inventory

| part | state it keeps | operations | hard behaviour | what makes it correct |
|---|---|---|---|---|
| Lockstep core: `Network.cpp`, `ConnectionManager.cpp` | logic frame, run ahead, last execution frame, last completed frame, local status | tick, issue a game command, change the run ahead, leave, receive and relay, test readiness, run a frame | players on different frames, messages in any order, a run ahead that shrinks, a sender who leaves | all machines run a frame with the same, complete commands; nobody waits for ever |
| Frame data: `FrameData.cpp`, `FrameDataManager.cpp` | per player a ring of slots with commands, the count of them and the announced count; quit frame | add, set count, ready?, reset, zero | a slot that is reused; duplicates; counts before commands | a slot holds one frame; a frame is ready only with all its commands |
| Command list: `NetCommandList.cpp` | sorted list, last insertion | add, remove, append, reset | IDs wrap; a shortcut depends on arrival order | the list is a function of the commands in it |
| Connection: `Connection.cpp` | queue, times last sent, quitting and since when | queue a command, send, take an ack, clear, quit | loss, retries, full buffers, quitting with unacknowledged commands | nothing is forgotten; everything arrives; quitting ends |
| Packet router: `ConnectionManager.cpp` 461-510, 965-1045, 1158-1289, 1860-2000 | pending and relayed commands, router slot and fallback plan | relay, acks in two stages, leave, next router, send pending again | the router leaves or crashes with commands half relayed | a command somebody lacks is always still sent by somebody or pending |
| Disconnection: `DisconnectManager.cpp` | screen state, time-outs, votes, disconnect frames | tell one's frame, vote, time out, agree on a frame, send frames to those behind, remove a player | machines stopped on different frames; late votes | the remaining players remove him at one frame and go on |
| Large commands: `NetPacket.cpp`, `NetCommandWrapperList.cpp` | chunks present of each wrapped command | split, collect, rebuild, relay again, acknowledge | chunks of several commands and routes in any order | the rebuilt command is the one that was split; resending ends |
| Run ahead: `FrameMetrics.cpp`, `ConnectionManager.cpp` 1353-1492 | latency and frame rate averages | record, compute, announce | stale measurements | the range of the clamp; a change at one frame for all |
| Transport: `Transport.cpp`, `udp.cpp` | send, receive and delay buffers | queue, send, receive | buffers full | none of its own: it may lose anything |
| LAN lobby: `LANAPI*.cpp`, `LANGameInfo.cpp`, `LanGameOptionsMenu.cpp` | the host's slots, options, accepts and countdown; each joiner's copy, pending request, time-outs | join, accept, ask for changes, become inactive, leave, kick, close slots, count down, start | datagrams nobody repeats, answers after the time-out, changes during the countdown | who starts plays the host's game; slots of absent players become free |
| File transfer, load barrier | per-player progress | announce, send, wait for all | a player who never finishes | the game starts together |
| NAT, firewall, GameSpy | protocol states with time-outs | probes, queries | time-outs against late answers | |
| Engine loop: `GeneralsMD/.../GameEngine.cpp` 1224-1250 | none | runs a logic frame when the network says so | the test and the use of readiness are calls apart | |
| Sleepy updates: `GeneralsMD/.../GameLogic.cpp` | heap of update modules with the index each has | register, wake, call those due, destroy, rebuild after a load | updates wake, create and destroy while the loop runs | all modules are in the heap, in order, and called when due |
| The rest of game logic, AI, scripts, client, libraries, tools | the simulation and its presentation | | | deterministic given the commands |

How they interact: the client turns input into messages on `TheCommandList`;
`Network::update` (once per engine loop) moves them to
`ConnectionManager::sendLocalGameMessage`, which gives each the execution frame
and stores it in the local ring and, through `sendLocalCommand`, in the queues of
connections: the packet router's own go to everyone, everyone else's go to the
router, who relays. `ConnectionManager::update` then reads packets (`doRelay`:
ack, process, relay), sends (`Connection::doSend`) and deletes connections and
frame data of players who left. `Network::update` finally asks
`allCommandsReady` for the current frame, and if it is also time for a frame
hands its commands to the game (`RelayCommandsToCommandList`). While a frame is not
ready `DisconnectManager::update` counts the time, and shows the disconnect screen
when it is up. Before a game `LANAPI::update` reads and sends the lobby's datagrams.
In the frame `GameLogic::update` runs the commands and scripts, calls the
update modules that are due and deletes what was destroyed. All this is one
thread: the concurrency is between machines, and between an update and what it wakes.

The hazards of this code, each at its line with the properties that would catch
it, are in `PROJECT.json` under `hazards`.

## Modules

| module | models | extends / instantiates |
|---|---|---|
| `FrameData` | the ring of frame data, as operators | |
| `Lockstep` | the lockstep core on all machines, over a network | `FrameData`, `FrameSync` (refined) |
| `FrameSync` | abstract: frames are appointed commands, closed by players, and run when all have closed them | |
| `LockstepInvariant` | the inductive invariant | `Lockstep` |
| `NetCommandList` | the sorted list, as operators | |
| `CommandLists` | a list in use | `NetCommandList` |
| `Connection` | both ends of a connection over UDP | `ReliableDelivery` (refined) |
| `ReliableDelivery` | abstract: what was submitted stays outstanding until it arrived | |
| `LargeCommands` | chunks of large commands on all machines | |
| `PacketRouter` | relay, staged acks and the change of router | |
| `Disconnection` | the disconnect screen on all machines | |
| `LanLobby` | the game setup at the host and the joiners | |
| `SleepyUpdates` | the heap of update modules | `UpdateSchedule` (refined) |
| `UpdateSchedule` | abstract: the earliest module that is due is called next, until nobody is | |
| `LockstepProofs`, `ConnectionProofs`, `CommandListsProofs`, `LargeCommandsProofs`, `PacketRouterProofs`, `DisconnectionProofs`, `LanLobbyProofs`, `SleepyUpdatesProofs` | theorems about the module each is named after; the first and the last about `FrameSync` and `UpdateSchedule` too | those modules |
| `MC...` | the instances TLC runs | |

### FrameData and Lockstep

State. `frame` is the logic frame; `runAhead`, `lastExecutionFrame`,
`lastFrameCompleted` and `localStatus` are the members of `Network`;
`frameData[p][q]` is the `FrameDataManager` that p keeps for q, a function from
slots to the commands, their count and the announced count; `quitFrame[p][q]` is
its quit frame. `inFlight[p]` is the set of messages ever sent to p: a message
stays in it, so it may be received late, never, or again and again, which is what
UDP and the retries of Connection make of it. `issued` and `executed` are
history: all commands issued, and what each machine ran frame by frame.

Actions, one per handler:

* `FrameTick`: `Network::processCommand` at the first message of a logic frame. It
  sends the counts (FRAMEINFO) of every frame before the execution frame.
* `SendLocalGameMessage`: a game command, appointed to the execution frame.
* `UpdateRunAhead`: the packet router announces a new run ahead for the later of
  his execution frame and his frame plus his run ahead.
* `ClearGameData`: the local player leaves: PLAYERLEAVE at the execution frame,
  and counts for this frame and one more on top.
* `ReceiveAny`: `doRelay` on one message: what is for an old frame is ignored, the
  rest stored; the router relays.
* `ExecuteFrame`: `allCommandsReady`, `getFrameCommandList` (which resets the slot
  `FRAMES_TO_KEEP` frames back), the processing of PLAYERLEAVE and RUNAHEAD, and
  the next frame.

The packet router does not leave in this module (that is `PacketRouter`), and the
disconnect screen does not come up (that is `Disconnection`). The frame rate
carried by RUNAHEAD is left out. Logic frame 0, on which the network is not asked
for commands, is the initial state's past.

### NetCommandList and CommandLists

`addMessage` is modelled with both of its ways: the shortcut behind the last
insertion, and the walk by type, player and sort number, each with the one
neighbour it compares with for equality. IDs wrap at `IDSpace` (65536 in the
code, 6 in the runs: the comparison depends only on which half of the space a
difference lies in). `CommandLists` feeds such a list with the commands of players
who number theirs one after another, in any order, repeatedly, one at a time or by
lists, and removes them. Its assumption is the code's: commands that meet in a
list are less than half of the ID space apart (`Arrivable`).

### Connection

State. `queue[e]` is the list of a connection's end as a function from messages to
the age of `m_timeLastSent` (the order is the subject of `CommandLists`, here it is
`Before`); `sinceSent`, `quitting` are the ages of `m_lastTimeSent`, `m_quitTime`;
`exists` says whether the connection has been deleted. Ages stop at the limit they
are compared with, so time is unbounded and the state finite. `inFlight[e]` holds
the datagrams on their way; receiving does not take them away (repetition), `Lose`
does. `submitted`, `received` and `timedOut` are history.

Actions: `SendNetCommandMsg` (a command, or the chunks of a large one), `Update`
(`DoSend`, `SkipSend` and `GiveUp` are the ways through `Connection::doSend`, each
followed by the deletion in `ConnectionManager::update`), `Receive` (a command is
acknowledged every time it comes; an ack takes the first match off the queue),
`Lose`, `PeerLeaves`, `LeaveGame`, `Tick`. `DoSend` sends in the queue's order,
packet by packet, and a message that does not fit is passed over; `failed` is the
packet that meets a full transport buffer, after which the rest of the queue
waits. ACKSTAGE1 does to a connection what ACKBOTH does, so one type of ack
stands for both.

### LargeCommands

State. `queue[p][q]` is what p's connection to q still sends, `wire[q]` all wrappers
ever sent to q, `nodes[p]` the `NetCommandWrapperList` by the wrapped command's ID,
`processed` the history of commands p has taken for whole. A command's bytes are a
part for each chunk, and the relay is in the first, as the header is.

`Submit` is `sendLocalCommand` of a command that `ConstructBigCommandList` splits;
`ReceiveWrapper` is all of `doRelay` on a wrapper: the ack, the router's passing on of
the chunk, `copyChunkData`, and when a command is whole its processing by
`sendRemoteCommand`, relay included, which splits it again. The percentage
shown to the player is left out.

### PacketRouter

State. `has[p]` are the followed commands in p's frame data, `conn[p][q]` the
connection (open, quitting, none), `queue`, `pending`, `relayed` the lists of
`ConnectionManager` and of its connections, `fallback` and `router` the plan and who
routes by it. Players and slots are numbers, since the plan is in slot order; the constant
`Plan` is the plan a game starts with, the players in slot order (which
`PacketRouterAssumption` says, so that the proofs need no sorting).

Actions: `Issue` (a followed command at its frame; PLAYERLEAVEs are among them),
`Receive` (acknowledge, drop what is out of date, store, relay), with the ack taken in
the same step or lost (`processAck`, `processAckStage1`, `processAckStage2`),
`ExecuteFrame` (readiness, the leavers of the frame, `disconnectPlayer` for each and
`resendPendingCommands` when the router was among them), `LeaveGame`,
`DeleteConnection` (a quitting connection that is empty or has timed out), `Crash`, and
`Disconnect` (what `Disconnection` decides: a crashed player is removed).

A few commands are followed and no others; the counts of frames without one keep the
players within `RunAhead` frames of each other. One player leaves at a frame: see the
limits below.

### Disconnection

State. `upto[p][q]` is how far p has the commands of a troubled q; `screen`,
`notified`, `dframe`, `received` and `votes` are the members of `DisconnectManager`
(a vote keeps the frame it was cast at); `removedAt` is the frame at which p
removed q. Frames are compared modulo `Word`, as unsigned integers are.

Actions: `Arrive` (more of a troubled player's commands), `TurnOnScreen`, `Notify`
(`sendDisconnectFrameToOtherPlayers`, and the frames for those known to be
behind), `TimeOut`, `VoteFor`, `Disconnect` (`disconnectPlayersIfAllOnSameFrame`, by the
player who will route), `ScreenOff`, `ExecuteFrame`, `Receive` (a vote, a frame, the
end of a screen, a removal, the frames sent), `Crash`. Keep-alives only decide when
somebody times out, and the query to the packet router has no effect the code looks
at: both are left out.

### LanLobby

State. `slots`, `options`, `accepted`, `counting`, `hosting` are the host's; `place`,
`pending`, `view` (his copy of the game, with the accepts in it) and `locked` (the
controls of his own slot are disabled) are a joiner's; `toHost`, `toJoiner` are
queues per receiver in the order of sending, from which any datagram may be lost when
`Lossy`. What is sent is mail, a message and to whom: to one (`Direct`), to the humans of
the sender's slots (`FanOut`), to everybody (`Broadcast`), and `queues ++ mail` are the
queues when it is sent, so that a handler that sends four times reads as the code does. `held[j]` counts what
lies behind the hole that `JOIN_ACCEPT` leaves in `m_inBuffer`, which is read out of
order. Going back to the lobby reopens the socket,
so what was on its way is lost. Options are two counters: what a change of it
takes back the accepts (rules) and what it does not (colors). A value a joiner has
chosen himself is `Mine` in his copy, other than any of the host's.

Actions: the host reads a request (`HostReads`: admit or deny, rules, looks, accept,
inactive, leave), acts (slot, kick, start, the end of the countdown, resend, leave);
a joiner reads (options, answers, start, the host's leaving), asks, and times out;
`DropSilent` is the host's time-out of a silent player. The host reads nothing while he
plays.

A joiner's menu writes first and asks afterwards: `AskRules` (faction, team, start
position) and `AskLooks` (color) put his choice into `view`, reset the accepts in it where
the handler does, and then send the request; the host may ignore it. Two things bring the copies
together again. The options string overwrites the whole copy, and it carries who has
accepted: `UpdateSlotList` disables the controls of a joiner who has (`EnableAcceptControls`),
so that he writes nothing more (`CanChoose`). An announcement is read into the copy as
well, but the controls follow only if he comes into the list or the map changes (`Shown`).
The accept button works until the host has answered, and so do the other controls.

### SleepyUpdates and UpdateSchedule

State. `heap` is `m_sleepyUpdates` with `m_indexInLogic`, `next` the frame of each
module's `m_nextCallFrameAndPhase`, `objList`, `doomed`, `deleted` the objects' lists,
`stage` where `GameLogic::update` is and `running` is `m_curUpdateModule`.

Actions: `Awaken` (`friend_awakenUpdateModule`), `CreateObject` (the constructors and
`registerObject`), `DestroyObject`, `CallUpdate`, `SkipUpdate` (a disabled object),
`ReturnFromUpdate` (which rebalances at the root), the stages, `DestroyNext`
(`processDestroyList`, which finds each index again), `LoadGame` (`loadPostProcess`,
`remakeSleepyUpdate`). The algorithms (`push`, `rebalance`, `erase`, `remake`) are the
code's. A loop is a recursive function of the number of rounds (`Rounds`), with one round
as a function on the places of a heap: a round that finds nothing left to do changes
nothing, so it does not matter by how many the bound exceeds what the loop takes. In this
form the module is proved about as well as checked. An update may wake, create and
destroy anything, unless it is of the last phase: those modules (`FiringTracker`,
`ObjectWeaponStatusHelper`) look only after their own object. The upper limit of a sleep
other than `UPDATE_SLEEP_FOREVER` is left out. The Zero Hour file is modelled;
the one under `Generals/` has the same scheduler.

`UpdateSchedule` says what is promised: `Call` takes a module that is due and before
which no other has to be called. The heap shows which it is, so that one step of
the loop is one step of the schedule.

## Runs

Each property of a passing run has a mutant in `PROJECT.json`: a plausible bug in a
mapped definition, with which TLC finds that property violated.

| run | bounds | shows |
|---|---|---|
| `lockstep_ring` | 2 players, the second talks twice and may leave, ring of 6 slots, 8 frames | agreement, no aliasing, no resend, nothing lost, readiness is stable; 8 frames on 6 slots reuse slots |
| `lockstep_runahead` | 2 players, the router issues two commands or changes of the run ahead in 1..3, 5 frames | a count is final, the run aheads of one frame agree, FrameSync is implemented; changes up and down, by two at once (only then does a shrinking run ahead reach frames already counted), and a second change before the first takes effect |
| `lockstep_live` | 3 players, one leaves, 3 frames | everyone advances; the leaver is let go; nobody outruns a player |
| `commandlists_order` | 2 players, 7 commands each, ID space 6, one ack | canonical order without duplicates, also where the IDs wrap |
| `connection_delivery` | a router's own command and a relayed one with the same ID, one message to a packet, the router may leave | nothing is forgotten, everything arrives, queues drain, quitting ends, ReliableDelivery is implemented |
| `large_live` | 3 players, one command of two chunks for both others | rebuilt whole, everyone gets it, sender and router stop resending |
| `large_sameid` | two such commands with one ID | the finding below |
| `router_leave` | 3 players, a command of the third, the router leaves at its frame or crashes, 4 frames | no command is stranded, the next router is in the plan, everybody advances |
| `disconnect_crash` | 3 players, the router crashes and may be voted against, 4 frames past the first `FRAMES_TO_KEEP` | removed by one and at one frame for all; the others recover |
| `sleepy_heap` | 3 objects with 3, 2 and 1 modules of three phases, 2 frames, a load before either | the heap is valid and complete, the running module stays at the root, UpdateSchedule is implemented |
| `lobby_two` | 2 joiners, one may leave, kicks, one change of colors, choices written into the joiners' copies at any time, no loss | who stays plays the host's game (not if the controls stay enabled, or a change is not sent: the mutants); the countdown means everybody accepted |
| `lobby_live` | 1 joiner, every loss, request and time-out, slots opened and closed | ghosts' slots become free; nobody waits for a host who plays or has gone |

Constants are scaled: `MAX_FRAMES_AHEAD` is 2 or 6 for 128 and the ring, the kept
frames and the clamp follow it by the code's formulas, so the relations that matter
(a ring of `2 * (MAX + 1)` against a span of issue and keep windows) are those of
the code. The theorems hold for every value. Six modules are the least with which
the module that takes an erased one's place can have come from another branch and
belong above its new parent. Where frames, commands or commands per player are bounded, the
system stops there: these configurations say `CHECK_DEADLOCK FALSE`.

Further configurations, for instances too large or properties that do not hold:

| configuration | shows |
|---|---|
| `MCLargeCommands_whole` | passes: two large commands at once with different IDs are rebuilt whole |
| `MCDisconnection_two` | passes: two of three players crash |
| `MCLanLobby_hole` | violated: with a full buffer, a player let in and kicked at once starts, see Limits |
| `MCLanLobby_setup` | passes: with loss and a change of rules, nobody enters the setup on an old answer unless he is listed; types |
| `MCCommandLists_acks`, `MCConnection_firstid`, `MCLargeCommands_ends`, `MCPacketRouter_settled`, `MCPacketRouter_outofdate`, `MCDisconnection_early`, `MCDisconnection_second`, `MCDisconnection_late`, `MCDisconnection_votes`, `MCLanLobby_apart`, `MCLanLobby_asis`, `MCLanLobby_kicked` | violated: see Findings |

### Fairness

`Lockstep!Fairness`: weak fairness of ticking and running a frame (each machine's
engine loop goes round) and of receiving. Receiving a message again that changes
nothing is no step, so fairness of receiving any message has each one received in
the end; this is what Connection's `Arrives` gives. Nobody is assumed to issue commands, to change the run ahead or to
leave.

`Connection!Updating`: time passes and each machine's update goes round: the engine
loop. `Connection!Fairness` adds the fair-loss assumption that any retransmission
protocol needs: strong fairness of a message's delivery while it is sent again and
again, of its getting into the transport's buffer (the buffer is emptied by every
update), and weak fairness of datagrams disappearing from the network.

`LargeCommands!Fairness` and `PacketRouter!Fairness`: what a connection keeps sending
arrives, with its ack, and machines keep updating. `PacketRouter!Advances` is about
behaviours in which nobody crashes; when somebody does, his removal is the business
of Disconnection.

`Disconnection!Fairness`: screens, notices, time-outs and frames come, by update; each
kind of message is received in the end, as the connections resend. Two
timing assumptions come with it, as guards: `Prompt`, nobody is kept waiting long enough
for a screen but by one who has crashed, and `Quiet`, the time-out of a player is longer
than messages take. They are what the constants of the code (five
seconds to the screen, sixty to the time-out by default) are chosen for.

`LanLobby`: the host and joiners read what comes and the time-outs come (eight periods
of the resend delta for a silent player, sixteen for a host, five seconds for a
request). Fairness of reading is strong at the host: reading needs room to answer, and
a full queue is a bound of the model.

## Findings

`large_sameid`: `processWrapper` finds a node by the wrapped command's ID alone
(`NetCommandWrapperList.cpp:178`), and IDs come from each machine's own counter. With
large commands of two players under one ID in the air, a chunk of one is dropped
because the other's is present, and what is put together is a mixture. The comment
at line 94 says "we already received this chunk, no need to recopy it".

Other statements of comments and assertions that the code does not keep, each with
the configuration that violates it:

| configuration: property | statement | what happens |
|---|---|---|
| `MCCommandLists_acks`: `NoDuplicates` | "Make sure this command isn't already in the list" (`NetCommandList.cpp:334`) | one neighbour is looked at, and acks of one sender are sorted by the acknowledged ID alone: a repeated ack is queued twice. Redundant, no more. |
| `MCConnection_firstid`: `AckTakesItsCommand` | "Take that message off the list of commands to send" (`Connection.cpp:332`) | an ack's own ID is 0, so the ack for a command 0 can take off a waiting ack. The command is sent and acknowledged again; `NothingForgotten`, `Arrives` and `Drains` are about commands and hold. |
| `MCLargeCommands_ends`: `NobodyKeepsResending` | "so it doesn't keep resending it" (`ConnectionManager.cpp:962`) | whoever receives a large command relays it again with the relay of its first hop, and the acks for his wrappers go to the router or the owner, never to him: he resends for ever |
| `MCPacketRouter_settled`: `SettledEverywhere` | "so it doesn't get sent in the case of a new packet router" (`ConnectionManager.cpp:998`) | a new router acknowledges the old one's late copy, which was for him alone, for both stages; its owner does not send it again, though another player lacks it |
| `MCPacketRouter_outofdate`: `OutOfDateIsUnnecessary` | "Its unnecessary traffic" (`ConnectionManager.cpp:550`) | a new router who has run the frame drops the pending command another player waits for |
| `MCDisconnection_early`: `Recovers` | frames are kept "so they can catch up" (`ConnectionManager.cpp:1746`) | before frame `FRAMES_TO_KEEP` the unsigned difference wraps, no frame is sent, and players stopped apart stay apart |
| `MCDisconnection_second`: `BehindCatchUp` | the same | who removes a player deletes his frames; if he crashes when one of two has been told, the other cannot get them |
| `MCDisconnection_late`: `RightFrame` | "disconnecting player on the wrong frame!!!" (`DisconnectManager.cpp:315`) | a player voted out while his commands still come: somebody runs on and is told of the removal past its frame |
| `MCDisconnection_votes`: `NoStaleVotes` | "reset this player's votes that happened before or on the given frame" (`DisconnectManager.cpp:814`) | a vote that comes after its caster's screen-off is kept |
| `MCLanLobby_apart`: `SameGame` | "host only; joiners get a slotlist" (`LANAPI.h:113`) | every joiner opens a leaver's slot himself; if the countdown ends before the host reads the leave, games with and without him start |
| `MCLanLobby_asis`: `StartsAsAgreed` | "I'm cool with everything as is" (`LANAPI.h:174`) | an acceptance does not say of what: sent before a change is read, it counts for the changed rules |
| `MCLanLobby_kicked`: `KickedLeave` | "for if we get booted" (`LANAPICallbacks.cpp:293`, `LANAPI.cpp:300`) | the options after a kick go to those left in the slots; the kicked player stays as long as the host announces the game. `EntersOnlyIfListed` fails for him as well. |

## Proofs

tlapm checks these for every value of the constants that the named assumptions allow:
any number of players, commands, frames, modules, any `MAX_FRAMES_AHEAD`.

| theorem (module) | states |
|---|---|
| `LockstepInvariance` (`LockstepProofs`) | `Spec => []IndInv` |
| `TypeCorrectness`, `FramesComplete`, `LockstepAgrees`, `CountsAreFinal`, `SkewIsBounded` (the same) | `TypeOK`, `NothingLost`, `LockstepAgreement`, `CountIsFinal`, `BoundedSkew` |
| `LockstepImplementsFrameSync` (the same) | `Spec => ImplementsFrameSync` |
| `ReadyStaysReady`, `RunAheadsAgree`, `NoSlotIsShared`, `NothingIsResent` (the same) | `ReadyIsStable`, `RunAheadAgreement`, `NoAliasing`, `NeverResend` |
| `FrameSyncAgreement`, `FrozenFramesHold` (the same) | agreement, and the stability of run frames, of the abstract specification |
| `TypeCorrectness`, `ListOrderIsCanonical`, `NothingIsThereTwice` (`CommandListsProofs`) | `TypeOK`, `OrderIsCanonical`, `NoDuplicates` |
| `TypeCorrectness`, `NothingIsForgotten` (`ConnectionProofs`) | `TypeOK`, `NothingForgotten` of a connection |
| `ConnectionImplementsReliableDelivery` (the same) | `Spec => ImplementsReliableDelivery` |
| `ChunksOfOneCommand`, `CommandsAreRebuiltWhole`, `PresentChunksAreTheSame` (`LargeCommandsProofs`) | the invariant, `RebuiltWhole`, `PresentIsThisChunk` |
| `TypeCorrectness`, `RoutersAreInPlan`, `NothingIsStranded` (`PacketRouterProofs`) | `TypeOK`, `RouterInPlan`, `NothingStranded` |
| `TypeCorrectness`, `OnePlayerRemoves`, `OneRemovesTheCrashed` (`DisconnectionProofs`) | `TypeOK`, `RemovedByOne` twice |
| `FirstCrashedIsRemovedTogether`, `PlayersRemoveTogether` (the same) | `RemovedTogether` until a second player crashes; with three players, or one who may crash, throughout |
| `CountdownIsAccepted`, `TypeCorrectness`, `StayersPlayTogether` (`LanLobbyProofs`) | `CountdownMeansAccepted`, `TypeOK`, `StayersAgree` |
| `TypeCorrectness`, `HeapStaysValid`, `RunningStaysFirst`, `AllAreScheduled` (`SleepyUpdatesProofs`) | `TypeOK`, `ValidHeap`, `RunningIsFirst`, `AllScheduled` |
| `HeapKeepsSchedule` (the same) | `Spec => ImplementsSchedule` |
| `ScheduleForgetsNobody`, `NobodyIsOverdue` (the same) | after the calls of a frame nobody is due: whatever keeps the schedule, and so the heap |

### From which assumptions

Each module names what it assumes of its constants, and TLC evaluates it on every run:

* `FramesAheadAssumption`, `LockstepAssumption` and the constants' assumptions of
  `FrameSync`: the run aheads lie within the clamp, the packet router is a player and
  does not leave, and the bounds are numbers.
* `ListAssumption`, `IssueAssumption`: types and players are numbers, acks have types of
  their own and no ID.
* `ConnectionAssumption`: each endpoint has one peer, which is not itself, and gets
  commands with an ID and a player; times and packet sizes are any numbers.
* `LargeCommandsAssumption`: the router is a player, a command has at least one chunk and
  is not for its owner.
* `PacketRouterAssumption`: the plan is in slot order and begins with slot 0; one player
  leaves at a frame.
* `DisconnectionAssumption`: players are slot numbers, finitely many; who may crash is
  among the troubled; more frames are kept than the run ahead.
* `LobbyAssumption`: slots are numbers, players are not slot states.
* `SleepyAssumption`: phases are 0 to 3, each object lists its own modules once and has no
  more than `MAX_SUO` (256), the size of the array `processDestroyList` collects them in:
  it would leave the rest in the heap, deleted. The game ends before `UPDATE_SLEEP_FOREVER`.

Some theorems say more than their modules assume, because without it the property is false,
and say so in their statements:

* `OneAckEach` (no two acks of one type and sender in a list) for `NothingIsThereTwice`:
  a frame's list has no acks; a connection's queue may have more, and there it fails
  (`MCCommandLists_acks`). The commands' part of it needs nothing.
* `SeparateIds` (nobody gets two large commands of one ID) for the theorems of
  `LargeCommands`: the run `large_sameid` refutes the property without it.
* `VotesOnCrashed` (nobody votes against a player who is there) for `OnePlayerRemoves`.
* `OnlyTheCrashed` (who has crashed is waited for, and nobody is voted against but the only
  one who may crash) for the other three of `Disconnection`. With it `VotesOnCrashed` is
  not needed: no vote comes before a crash. `PlayersRemoveTogether` asks for three players or
  one who may crash besides: it is false for two crashes among four (see the limits).
* `~Lossy` and `InOrder` (nothing is lost, and nothing read past a hole in the buffer) for
  `StayersPlayTogether`: see the limits below.

### The arguments

Lockstep. What should hold, that a frame is run with all its commands, is not
inductive: it needs to know why a machine that believes it has all commands is
right. `IndInv` (module `LockstepInvariant`) says so in named parts:

* `CountersInv`, `IssuedInv`: a player issues only for frames he has not counted, and
  counts only frames he has finished issuing for. This is where
  `getExecutionFrame`, which never goes back, is needed: a run ahead that shrinks
  would otherwise have him issue for a counted frame.
* `MessageInv`: what is on the wire is either an issued command or a true and final
  count, and it is not for a frame too far ahead.
* `SkewInv`, `LeaveInv`: nobody has run a frame that a player in the game has not
  counted; who is out of the game issued a PLAYERLEAVE, and who deleted his
  frame data has run it.
* the ring: a slot in the window holds only commands of its own frame, its count is
  their number, and the announced count is the true one. The first part of the proofs has
  the lemma that two frames of a window less than the ring's length have different slots,
  and what `addCommand`, `setFrameCommandCount` and `resetFrame` do to the others.
* `executed`: a run frame has been run with all its commands.

When all slots of a frame are ready, the commands in them are as many as were
announced, a subset of those issued, and those issued are as many as announced: so
they are all of them, and `NothingLost` follows, and `LockstepAgreement` from it. The
refinement maps issuing to appointing, counting to closing and `ExecuteFrame` to
running; receiving is a stutter. Four more properties follow from `IndInv` with a
little more state each:

* `ReadyIsStable`: when p's frame is ready the slot has all commands there are for it
  (`ReadySlot`), so a command that comes again is in the list already, and a count
  that comes again is the one he has; nothing issued later is for that frame, and what
  is for other frames of the window goes to other slots.
* `RunAheadAgreement` is not inductive for two players on different frames. `RunAheadInv`
  says that there is one history `h` of run aheads, `h[f]` the one used on frame f, that
  each player's last run ahead is `h` at his frame, and that each frame he ran leads from
  `h[f]` to `h[f + 1]`. Whoever is the first to run f extends `h`; everybody after him
  runs f with the same commands (`FrozenInv`) and gets the same.
* `NoAliasing`: `AliasInv` says that what is in a slot was issued by its player for a
  frame that is kept and lives in that slot, and that a leaver's manager goes
  `FRAMES_TO_KEEP + 1` frames after his last one. Running f forgets frame
  `f - FRAMES_TO_KEEP` in every manager that is left; one that is gone has nothing
  as late as that. The upper end is `CommandFrames` with the bound of the skew.
* `NeverResend` is asked of a leaver's ring too, past the frames anybody counts for him, and of the
  frames up to `FRAMES_TO_KEEP` past the present one. `sendRemoteCommand`, for its statistics,
  also asks about the frame of the command that arrived, which may lie outside that range.
  `HeardInv` says of every frame from the present one to the end of the ring (`RingTop`)
  that its slot has at most what its owner issued for it and the count he gave, or nothing.

Command lists. `Inv` says that the list is sorted, that its commands are those held, each
once, with acks in between, and that the last insertion is inside it. The place of a new
command is the least one whose command it does not pass; that there is one follows
from the well-foundedness of the numbers (`WFMin`), without induction. The
shortcut behind the last insertion and the walk from the front give the same list, because
commands of one player that meet are less than half of the ID space apart, where the
wrapping comparison is an order.

Connection. An ack takes a command off a queue by ID and player
alone, however late it comes, so `NothingForgotten` holds only if an ack is always
about something that has arrived. The invariant `IInv` adds to it the types,
`FlightInv` and `QueueInv` (an ack on its way, or waiting in a queue, is about a
command its sender has received; a command was given to the end that sends it) and
`ReceivedInv`. Together with the fact that ID and player identify a command
(`CommandIdentity`), an ack takes off no command that has not arrived, although it
may take off an ack instead (the finding above). The refinement maps the commands in
a queue to what is outstanding, what the peer received to what arrived, and a
connection that quits to a closed one; sending, losing and time are stutters.

Large commands. `Inv` follows a command from the wires (`WiresInv`: everything on a wire is a
chunk of a command that goes to that player, and its part is the part of that number) over
the wrapper lists (`NodesInv`: a node is the command of its ID with parts missing) to what is
processed. With `SeparateIds` the node found by the ID alone is the right one. Being
processed starts the command over with fewer players to relay to, so it stays inside `Inv`.

Packet router. `PlanInv`: each plan is in slot order, a player in the game is in his own
plan, and its first routes. Removing a player keeps the order and closes the gap, so the next
router, looked for behind the present one, is the next lowest slot and inside the plan.

`NothingStranded` needs to know what each ack was worth. Beside `Inv` its invariant has:

* `LinkInv`: a player in the game has open connections to just those in his plan, so
  that what he sends them goes into a queue.
* `CopyInv`: a copy is for its receiver alone, or for all but the owner to be relayed. One
  to be relayed was sent to a router of the owner, the other kind comes from an owner who
  routes himself or from who had one to relay.
* `HoldInv`: what is pending is one's own, what is relayed one has, and a frame was
  executed with the commands of those who are in the game still.
* `ConveyInv`: who needs a command (`Needs`) gets it from its owner, if one of the two is
  the router; else it is pending, and while the router is there, he sends it on and waits
  for an ack, or the owner sends it to him.

While somebody needs a command its owner routes through one player, and no other has a
copy to relay (`OneRelays`): so his ack alone can be for both stages, and he gives it only
with nobody left to relay to. What a copy changes is `Received` and `ReceiveConveys`,
what dropping a player and leaving change `DropWay` and `LeaveWay`; a dropped router leaves
the command pending, and the next one gets it from there. With three players he who has
dropped the router is the owner or the one who needs it (`ThreePlayers`); with more it may
be a third, who then routes too, and the argument ends there.

An earlier form of the property did not except the player whom somebody has dropped, and
TLC refuted it on larger instances than the run's: a router who has executed q's leave
relays a late copy to nobody and acknowledges it for both stages; if he goes next, q, who
has not come to his own leave yet, never gets it.

Disconnection. `RemovedByOne`: who is out of anybody's game has crashed, and who removes takes
himself for the next router and is the least of those who are there: two would each be less
than the other. `RemovedTogether` until a second crash: as long as nobody has been removed, who
shows a screen is `Settled` (`OnScreen`): all have stopped where he has and lack the
crashed player's commands for that frame (`Blocked`); or somebody is past that frame, and
he will not take him to be at it (`PassedBy`); or somebody has yet to come there, or to stop.
Who removes has heard from all that they stopped where he
did, which rules out the second and the third, so all are blocked there: `RemovedAtOne`, the
frame of the removal, holds from then on, and nothing of the crashed player's for that frame
is or will be on a wire. The parts about the history of messages (`Told`) say that who was
told a frame was told the truth, and by whom. The invariant speaks of one player
`c` at a time (`OneCrashInv(c)`), under the condition that nobody else has crashed;
`FirstCrashInv` has it for every `c` at once, so that it does not matter who is first. After
a second crash among three players, no two are left to disagree (`NoFour`).

Sleepy updates. The heap is `Indexed` (the index of a module is the place it is in) and
`Ordered` (a parent is before his children), and holds what the objects in the list own
(`HeapInv`). One changed priority leaves it in order but for one place, where even the
children are after the parent (`OrderedBut`). Going up keeps that, and who stops
going up is after his parent (`RiseStep`, `RebalanceParent`); going down keeps that he is
(`SinkStep`, `RebalanceChild`), so both together restore the order from any place, which is
what `eraseSleepyUpdate` needs: the last module may belong above where it is put as well as
below. `remake` puts one subtree after the other in order. What a loop leaves follows round
by round from `RoundsKeep`: a set that contains the start and is kept by a round contains
what any number of rounds gives; it rests on well-founded induction, as the numbers
themselves do, and not on an induction theorem with an operator. `RunningInv` is why the
running module is at the root: it is due, and whoever acts is not of the last phase, so that
who is woken for the next frame, or for this one in the normal phase, is not before it; a
swap needs a strictly lower priority. The root is the least of the heap (`RootIsFirst`), so
who is called is who has to be (`HeapKeepsSchedule`). `NobodyOverdue` is inductive with the
types: a module is woken for the present frame at the earliest, and the loop ends when
nobody is due. With the refinement the heap's loop forgets nobody.

LAN lobby. `CountdownMeansAccepted` is inductive once the types of the slots are known: each
handler that puts somebody into a slot or takes back an accept stops the countdown too.
`StayersAgree` follows from what is in queues. A joiner who has not accepted may have anything
in his copy, so `AgreeInv` speaks of those whose acceptance the host has, who are all in
the slots when he starts (`CountdownIsAccepted`):

* `HearsLast`, `HasHeard`: the last slot list on its way to such a joiner, and an announcement
  behind it, is the game as the host has it and says that he has accepted; if no slot list
  is on its way, he knows that game and his controls are disabled, so he does not write
  into it. Every handler that changes something, an accept included, ends with the options to all
  in the slots. A leaver's slot, which each joiner may open before the host does, is left
  out of the comparison.
* `AnswersInv`: an acceptance is followed by the options, as `handleRequestJoin` sends them
  after it, so that who enters the setup screen on it will hear of the game.
* `StartsInv`, `ClosedInv`: after a start nothing follows, no slot of the host is open and
  everybody in them has accepted.
* `EmptyInv`: a start is sent to everybody when nobody is in the slots. Then whoever was put
  out has the list without him on its way, ahead of the start: it was sent to everybody too.

Two lemmas carry the proof: what mail adds to a queue (`MailExtends`, by which each handler
is one of a few kinds: it informs, it says something else, or it says nothing),
and what taking the first message leaves of each part (`PoppedFollows`).

### What is only model-checked

Liveness under fairness, which is out of the prover's reach: `Advances`, `LeaverLeaves`,
`Arrives`, `Drains`, `QuittingEnds`, `EveryoneGetsIt`, `ResendingEnds`, `Recovers`,
`GhostsLeave`, `NobodyStranded`. Of the invariants nothing is left that a run checks and no
theorem states.

## Limits of the models

* `PacketRouter`: one player leaves at a frame. If a second one leaves at the router's
  own frame, a router whose connection to that player is already quitting acknowledges
  a repeated copy for both stages, its relay being empty then, and the command
  is stranded if he crashes next. Acks arrive at once or are lost: what a late one
  says, the next copy of its command has said again. `NothingStranded` is about
  players whom everybody still plays with; it is proved of three players, and of more until
  somebody has dropped the first router. After that it does not hold with four
  (`MCPacketRouter_settled`, `MCPacketRouter_outofdate`).
* `Disconnection`: only troubled players' commands come late. `RemovedTogether` is
  about players who crash, or are voted out while nothing of theirs comes any more. It is
  proved among any players until a second one crashes, and of three throughout. With two crashes
  among four it does not hold: one remover removes two players by two notices, and of the
  two who are left one may hear the second first; when he has the commands of the other
  he runs the frame, and removes him at the next. `RemovedByOne` holds for any crashes, if
  nobody votes against a player who is there: two who do are both next router to themselves.
* `SleepyUpdates`: `rebalanceSleepyUpdate(0)` after an update assumes that the module is
  still at the root; `RunningIsFirst` shows it under the conditions of `Acting`. A module
  that wakes another with a delay of 0 from outside the normal phase would break it.
* `LanLobby`: the last options before a start may be lost, and then a player starts
  another game than the host: nothing at the start compares them. `StayersAgree` is
  checked and proved without loss. The proof asks for any number of datagrams on the way
  that they are read in their turn (`InOrder`); the run reads them out of order too, but
  with one on the way (`MaxQueue`) when more are sent. With both it does not hold: a joiner is
  let in and kicked at once, and the host, alone, starts, which is then said to everybody; if
  the acceptance is read in the middle of a full buffer, the start comes into the hole and is read
  before the options that say he is out, and he starts a game in which nobody expects him
  (`MCLanLobby_hole`).
* `LanLobby`: a joiner's own writes are modelled by which of the two kinds of option they are of,
  not by value: a choice equal to what the host has is `Mine` as well. His controls are one
  switch, on a joiner's own slot; that the switch also depends on having the map or being an
  observer, which disable more, and `RequestHasMap` are left out. The LEAVE of a player never
  removes a game from the others' lists, as its game name is never filled in; the empty options
  a joiner sends when he leaves have no effect.
* `Disconnection`: a player who quits on the disconnect screen (`ConnectionManager::quitGame`,
  which tells the others and deletes his connections) is not modelled; one who stops answering is.

## Where to go on

The order in which more would be worth doing: the file transfer and load barrier
(announce, send, wait for all, start together) on top of `Connection` and
`LargeCommands`; what several crashes leave of `RemovedTogether` among more than three; the
measurement of the run ahead as integers; NAT traversal with a model of the boxes it goes through.

## Not modelled

The game logic but for its scheduler, AI, scripts, path finding, save games, rendering,
audio, windows, libraries and tools are most of the repository's 1.65 million lines:
numeric or presentational code over data structures of thousands of objects, without
a protocol that a small instance could stand for. The lockstep treats a frame's effect
as a function of its commands. So the share of all lines that the definitions map stays
small whatever is added; of the files of the network layer that decide something it
is the greater part. Byte formats, encryption and CRCs of packets are layout. NAT and
firewall probing needs a model of the boxes in between; the GameSpy services are
not in the repository. Of the LAN lobby: chat, the list of players, direct connect, map
availability, the message of the day, AI slots as slots (they are part of the rules),
the countdown's ticks and saved preferences. `PROJECT.json` lists every component with the
reason.
