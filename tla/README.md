# Fontis-Remote: a TLA+ verification project

Fontis-Remote is a remote-desktop program: one executable that is both the
controlled side (a server that streams its screen, sound, files, terminals and
TCP tunnels) and the controlling side (the client with its windows). This
directory holds TLA+ models of the parts of it that are concurrent protocols,
TLC configurations that check them on small instances, and TLAPS proofs.

Paths below are relative to the repository; `PROJECT.json` has, under `map`, the
source lines of every definition that models code.

## 1. Inventory

| Component | State it keeps | Operations | What is hard about it | What makes it correct |
|---|---|---|---|---|
| Port-forward flow control (`src/port_forward_mux.rs`) | per channel and direction: `RecvWindow`, `SendCredit` | accept, drain, grant; take, add, raise | two ends account for the same bytes at different times; minimum charge, threshold and cap interact | window is conserved, never overrun, never exhausted on both ends |
| Port-forward multiplexer (`src/port_forward_mux.rs`, `src/server/port_forward_mux.rs`) | channel maps at both ends, a data and a control queue, one task with two relays per channel | open, data, close, window_update, opened; teardown | frames on two queues, tasks that outlive their map entry, teardown racing open, a shared limit | in-order delivery, close after the last data, every task ends, no head-of-line blocking |
| Port-forward listener (`src/port_forward.rs`) | the `Tunnel` state shared with the tunnel loops, the mapping's UI queue | accept, log in, publish a tunnel, fall back, stop | loops of old tunnels reset a state the listener writes; one queue is read in two places | no dead handle pinned, no newer state reset, removal stops the mapping |
| Port-forward login (`src/port_forward.rs`, `src/client.rs`) | one `LoginConfigHandler` for all mappings of a window | hash arrives, password typed | concurrent logins over shared fields, prompts that outrun the hash | a login carries its own target and answers its own challenge |
| Client start (`src/client.rs`) | two attempts, the offerer behind its guard, the ICE bridge, the races | ask the rendezvous server, race transports, secure, fall back to a relay | any await may be the last: the loser is dropped where it is | the right connection wins, nothing is left open, flags are true |
| WebRTC sessions (`libs/hbb_common/src/webrtc.rs`) | `SESSIONS`, `HandoffState`, a state handler per connection | build, insert, claim, hand off, adopt, evict, close | retries of one offer share a connection, callers are cancelled | nobody's connection is closed under it, none is left to nobody |
| Rendezvous mediator (`src/rendezvous_mediator.rs`) | confirmation flags, the id and key, punch places | register, confirm, solve mismatches, punch | datagrams lost, late and repeated; responses that name nothing; a crossing SYN at a deadline | every server ends up with the id, the crossed punch is served |
| Admission (`src/server/connection.rs`, `src/server.rs`) | the registry of unauthorized connections, an eviction flag and a permit per member | admit, refuse, evict, authorize, drop | eviction races authorization, departure and the select that waits for it | bounds hold, only the oldest goes, nobody stays for ever |
| Connection login (`src/server/connection.rs`) | per connection: request, code awaited, scope; shared: sessions, one-time password, tokens | request, code, click, switch sides, close | messages in any order, tables shared by parallel connections | what lets in belongs to the request let in |
| Login failures (`src/server/connection.rs`) | counters per address and prefix | check, count, decay, clear | checked before and charged after the answer | no failure is forgotten |
| Services (`src/server/service.rs`) | subscribers, new subscribers, the thread | subscribe, snapshot, swap, send | maps read one after the other, requests in between | each gets each frame once, newcomers are promoted |
| Video service (`src/server/video_service.rs`) | encoder, frame controller, `DxgiRecoveryState` | capture, send, wait, restart, recover | restarts for many reasons around a pending recovery | an exhausted recovery falls back, nothing stays pending |
| Video QoS (`src/server/video_qos.rs`) | per viewer: streaks, levels, the open probe | reply, missing reply, caps | late replies, levels that failed, floors above caps | the rate moves in measure |
| Audio output (`src/client/audio_playback*.rs`) | the stream, its candidate, retry times | start, confirm, replace, recover | device errors and silence race confirmations | audio plays again, working streams are kept |
| DRM capture (`src/server/drm_capturer.rs`, `src/ipc/drm.rs`) | cached verdict with a generation; stream with credit | probe, refresh, publish; grab, send, acknowledge | slow answers to old questions; gates and credits; a cached uid | a newer verdict is not replaced by a slow refresh or login; the stream is bounded, catches up, ends |
| Privacy mode (`src/privacy_mode.rs`) | implementation and owner behind a mutex | turn on (in place, on a thread), off, revoke, close | a thread given up that succeeds later; two locks around one decision; turning off may fail | it is on only for one who may and, unless turning off failed, lives |
| Portable service (`src/server/portable_service.rs`) | `RUNNING`, `STARTING` and its token, shared memory, tasks | launch, handshake, ping, watchdog | two launches at once, crashes anywhere | the flags follow the helper |
| Cursor service (`src/server/input_service.rs`) | handles, shapes, what each subscriber was sent | tick, capture, keep, ask | two caches with ceilings that clear together | what is shown can be asked for |
| Terminal service (`src/server/terminal_service.rs`) | history, channel, redraw phase; registry of services and sessions | output, open, close, reconnect, resize, clean up, stop | sessions outlive connections; three levels of locks; joins under locks | nothing lost or repeated, all comes to an end |
| File transfer (`libs/base/src/fs.rs`, `src/client/io_loop.rs`, `src/ui_cm_interface.rs`) | jobs, offsets, `.download` and `.digest`; list of read jobs | digest, confirm, block, skip, resume, cancel | loss between any two messages; the source changes; the disk fails; one job fails | the file written is one version of the file read |
| Update download (`src/hbbs_http/downloader.rs`) | one entry per URL, a thread, the dialog | start, poll, cancel, remove | threads find their entry by the URL again | nobody waits for nobody |
| Streams and ciphers, user interfaces, platform layer, codecs, HTTP clients | | | I/O and presentation | not modelled; streams are reliable and ordered and may break |

How they meet. A controller *starts* (`ClientStart`): it asks the rendezvous
server, which knows the controlled side by its *registration*, and races TCP
punches (`TcpPunch` at the other side), UDP, IPv6, WebRTC (`WebRtcSessions` at the
other side) and a relay. What arrives is *admitted*, and leaves the admission
registry when its *login* succeeds or its time is over. An authorized connection
subscribes to *services* (video, cursor), opens terminals, moves files, or is
turned into a port-forward tunnel. Services, terminals and privacy mode are shared
by connections and outlive them.

## 2. Modules

| Module | Models | State, and a step |
|---|---|---|
| `PfWindow` | the arithmetic of `RecvWindow`, `SendCredit`, `charge` | operators |
| `PfFlow` | the contract of one direction of a channel: the abstract specification of `PfMux` | credit, charges on their way, window; one operation of either struct |
| `PfMux` | both sides of the multiplexer | `ep[side][channel]`, queues, wire, loops; one await of a task or one frame |
| `PfListener` | `listen`, `establish_tunnel`, `Tunnel`, the end of `tunnel_loop` | the listener's place, the shared state, a loop per generation |
| `PfLogin` | the logins of a window's mappings | the shared handler, the turn; one access to it |
| `Admission` | `admit_unauthorized`, eviction, deadline | the registry, flag, permit and wait of each connection; `evicted()` as it is polled |
| `Registration` | UDP registration with its servers (external) | flags, datagrams, the servers' tables; one tick, datagram or response |
| `RaceStep`, `TransportRace` | `race_transports_prefer_webrtc`, `select_ok` | the function's variables; one branch of its select |
| `ClientStart` | `_start`, `_start_inner`, `connect` | the await each attempt has reached; one await |
| `TcpPunch` | `punch_tcp_until_connected`, `PunchPool` | ticks, punch and accept of each request |
| `WebRtcSessions` | `WebRTCStream::new`, hand-off, state handlers | the cache, claims, connections; one atomic operation or locked section |
| `ConnLogin` | login requests, codes, sessions, clicks, switched sides | connections and the shared tables; handlers cut where they look at a shared one |
| `LoginFailures` | one map of `LOGIN_FAILURES` | entries, attempts under way; one read or write of an entry |
| `VideoStream` | subscriber maps, server calls, the capture loop, the frame controller | one locked access |
| `DxgiRecovery` | `DxgiRecoveryState` and what a run does with it | flags, clock; one outcome of a capture |
| `QosFps` | the frame rate of a viewer | `UserDelay`; one reply or missing reply |
| `AudioPlayback` | output stream and its recovery on Windows | stream, candidate, timers; one pass of the audio thread, one act of the device |
| `DrmProbe` | the verdict, its writers, `DRM_STATE_GEN`, the single flight | one locked section |
| `DrmStream` | capture thread, task, receive thread, encoder | channel, credit, slot; one message |
| `PrivacyMode` | ownership, threads, connections | one locked section |
| `PortableLife` | launch, handshake, tasks, watchdogs | one critical section |
| `CursorShapes` | `run_cursor` and its caches | one locked section of a tick |
| `TerminalBuffer` | `OutputBuffer` | bytes by class; one append |
| `TerminalStream` | one terminal over reconnects | channel, history, replay, heights; one pass or request |
| `TerminalSessions` | the registry, loops, cleanup, reaper | one locked section |
| `TerminalStop` | `TerminalSession::stop` and the terminal driver (external) | one step of a thread |
| `FileTransfer` | a job, reader and writer, with resumes | blocks by version, the files on disk; one message |
| `FileQueue` | the list of read jobs, in the connection or in the connection manager | one tick or message |
| `Downloader` | `download_file`, `do_download`, the dialog | one critical section |

Proofs are at the end of `PfFlow` and `Admission`, and otherwise in `Connect_proofs`
(`TransportRace`, `WebRtcSessions`, `ClientStart`), `Channels_proofs` (`PfListener`,
`PfLogin`, `FileTransfer`), `Login_proofs` (`LoginFailures`, `ConnLogin`), `Media_proofs`
(`DxgiRecovery`, `VideoStream`, `QosFps`), `Screen_proofs` (`DrmProbe`, `DrmStream`,
`PrivacyMode`, `CursorShapes`) and `PfMux_proofs`; see section 6.

Notes on what is abstracted:

* `PfMux`: data frames carry a number instead of bytes. `close_all` first clears
  the map, then raises the signal, and the loop returns after that, hence the four
  states of a loop. `Flow(s, c)` maps direction s of channel c to `PfFlow`: charges
  on the wire and in queues are `flying`, updates on their way `returning`.
* `PfListener`: a generation stands for one whole `PfMux` tunnel. With the window's
  multiplexing option off the `Tunnel` is never used; the model has it on.
* `Admission`: a select whose other branch completes drops the `evicted()` future,
  and tokio hands an unseen notification back, so the permit stays. `telling` is the
  moment between the flag and the notification, the registry still locked.
* `DrmProbe`: the generation is only ever compared with a sample, so the model keeps
  per thread whether it moved. `seen` dates what a verdict rests on; the code has no
  such field, and only the property reads it.
* `QosFps`: the rates are computed as in the code, in whole frames; delays and the
  baseline are members of small sets on every side of the thresholds.
* `FileTransfer`: a block is marked with the version of the source it was read from;
  that is what tells a whole file from a patched one. `upload` is the direction and
  never changes. `stamp` is the source's digest (modification time in seconds, and
  size), which an edit may leave as it was. What can go wrong on the writer's side is
  modelled by what the code does then (`Fault`): the client ignores errors of `write`,
  renames and reports done; a file that cannot be created leaves the last one's stream
  open under the new number, and blocks go there (`OnBlockAstray`; such a block is not
  let fail again); an offset that cannot be sought to is confirmed all the same; a digest
  that cannot be compared is not answered. `spoilt` is history: what has happened to the
  job after which nothing is claimed of it (begun over the leftovers of another, source
  edited while it ran or without a change of digest, a failed operation, a cancelled
  upload); the code has no such field, and only the properties and the bound of one
  failed operation per job read it.
* `FileQueue`: files may fail to open or to be read in both lists, and a digest may stay
  unanswered (`mute`).
* `Downloader`: a body may end anywhere: the code takes the end of the stream for the
  end of the file and does not compare lengths.
* `PrivacyMode`: turning off may fail for every implementation, with the owner kept.
  `stuck` is history: the present owner is one for whom it has failed.
* `TerminalStop`: on Linux the session itself holds the program's side of the terminal
  (`pair`) until `stop` drops it, so that until then the end of the program ends neither
  thread; on macOS it does (`Hangup`). Windows works differently and is not modelled.
* `TerminalSessions`: `stop` is one step that ends; `TerminalStop` is about when it does.
  A reader thread that fails ends its terminal with the shell still running (`deaf`), and
  a kill may fail (`unkilled`).
* `DrmStream`: `mayFail` says whether the parts of the stream may fail, `StreamSettles`
  being about both kinds of behaviour. `active` is whether the peer's session is the
  active one, `peerOk` whether the cached uid that the task compares with is the peer's;
  the service's loop brings the second up to date (`update_active_user_lookup_cache`).

## 3. Runs

The suite modules (`MC*`) put the components that serve one purpose side by side. A
behaviour is of one *scene*, chosen in the first state (`chosen`, `scene`, `part`): one
component under one set of bounds, the others at rest. A property of a run speaks of the
scenes it is about, and fairness is stated per scene. So one run asks one question of
several instances, and no product of unrelated state spaces is built. Suites extend a
component, two (`MCPortForward`) or none, and instantiate the others. A component that
something is proved about keeps its parameters: they are CONSTANTS of the suite, their
values are in the suite's cfg, and what is assumed of them is an ASSUME with a name
(`WebRtcFits`, `StartFits`, `LoginFits`, `VideoFits`, `MuxFits`, `PrivacyFits`,
`CursorFits`, `ProbeFits`, `StreamFits`, `TransferFits`, `RateFits`) that TLC evaluates
on the instance and the proofs cite. Other instances have their values in the suite.

| Run | Scenes and bounds | Shows |
|---|---|---|
| `pf_safe` | the contract alone; one way with 6 frames of lengths 1, 3, 4; both ways; two channels through one place | `NoCreditDeadlock`, `Delivered`, `NeverOverran`; `EndsAgree`: `PfMux` implements `PfFlow`, and the two ends count places alike |
| `pf_live` | loops that break; more frames than fit; two channels, one stalled | `ChannelsEnd`, `FramesArrive` |
| `mapping` | three tunnels and two UI messages; two mappings with a wrong saved password; the same with typed ones | `NoDeadHandlePinned`, `OwnLogin`, `TunnelsLetGo`, `TypedIsSent` |
| `mapping_remove` | one tunnel, one UI message | **fails**: `RemovedMappingStops`, section 4 |
| `reach` | 3 arrivals, limit 2, share 1, without and with timers; one server with late datagrams and a key synced; two servers, one repeated datagram | `Bounded`, `PlacesComeBack`, `EndsRegistered` |
| `connect` | a race of five attempts; a start under each of the 64 settings, 2 requests of 3; two callers with one offer; two punch requests, one place | `RightWinner`, `StartedAsSaid`, `StartEnds`, `SharedSafely`, `NoneStranded`, `CrossingServed` |
| `login` | two connections in one session; one of the two alone, with three sessions and scopes; three connections of two addresses and a prefix, passwords and ids | `LetInProperly`, `LetsInOnce`, `NoneForgotten` |
| `media` | 2 recoveries in 3 ticks; two viewers, one confirms itself; a viewer that changes its cap between 4 and 10 and one at 16, delays of 10, 170, 700 and 1200 ms; two audio formats, three faults | `FramesShared`, `NewcomerPromoted`, `RateInMeasure`, `ExhaustedFallsBack`, `AudioRecovers` |
| `drm` | two callers that race; a caller and the warm-up; a stream where all may fail and the session changes; one where scene, cursor and displays change | `VerdictInOrder`, `VerdictSettles`, `StreamInMeasure`, `StreamSettles` |
| `desktop` | privacy mode in place with three connections, on a thread, on macOS; two launches of the helper; four cursor handles of three shapes, both ceilings two, with handles filed and without | `OwnerProper`, `PrivacySettles`, `HelperFollowed`, `CursorKept` |
| `terminal` | 12 bytes of history in chunks of one and two characters; 8 chunks over three connections; three resizes that fail; two connections on one terminal; two terminals, readers and kills that fail; a stop with full queues, on Linux and on macOS | `OutputWhole`, `TerminalsEnd` |
| `files` | three files of 2, 1 and 2 blocks with two losses (up: one), an edit and a failing operation in any place; two read jobs by connection and by connection manager; the update dialog opened twice | `FilesWhole`, `JobsEnd`, `UpdateEnds` |

**Why the bounds are enough to be interesting.** The windows of a channel keep the
code's proportions (`MAX_FRAME` = `INITIAL_WINDOW`, a window of twice that, a
threshold of half of it, a cap equal to it), so a few frames exhaust them, and
U32_MAX equals the cap, so a sum over the window anywhere saturates and is seen.
Queues hold one or two elements and are full most of the time. Limits are 1 or 2 and
there is one contender more than places. Three generations let a loop end while its
successor and that one's successor exist. Two launches, two starts, two callers are
what it takes for one to meet what another left. History and replay limits are
smaller than one long line. Times are ticks with the code's order between them
(interval below start-up deadline; grace shorter than window). A file of two blocks
can be cut, three files put a skipped one between two others. A job of `files` that is
spoilt runs on to its end and is the last (`SpoiltIsLast`), and none is begun over
another's leftovers: nothing is claimed of either. What an unspoilt job makes of the files
that a spoilt one has left is `FilesTheorem`'s alone. Two losses let a job be cut, resumed
and cut again where it was resumed.

**What the properties except.** Five properties are stated with an exception, because the
code does not keep the plain one. Each is a narrow state of the model, and is listed with
its hazard:

* `TerminalsEnd` lets `stop` wait in `Wedged`: on Linux, with the program gone, the
  terminal's queue and the channel full and the writer in a write. Then `stop` waits to
  send its newline (`src/server/terminal_service.rs:797`) with its locks held, the writer
  waits for the terminal, and only the drop of `pty_pair`, later in `stop` (850), would
  end that write. `OnlyDeadRemoved` in it goes by the id, as the code does: it rests on
  the client counting its ids up; an id closed and opened again between the loop's look
  and its cleanup would name another terminal.
* `OwnerProper`, `PrivacySettles` except an owner for whom turning off has failed
  (`stuck`): a closing connection ignores the failure (`src/server/connection.rs:1216`), and
  the mode stays on for it until somebody turns it off for all or the implementation is
  changed. The permission is kept with the owner in every case, without exception.
* `JobsEnd` excepts what stands behind a first job that waits for ever (`HeldUp`): for a
  digest the client could not answer (`src/client/io_loop.rs:1946`), or, in the
  connection's own list, for a client that was told that one of the job's files failed
  and forgot the job, which the connection keeps first (`libs/base/src/fs.rs:1354`). A
  cancelled job, or a failed one in the connection manager's list, holds up nobody.
* `UpdateEnds` excepts a body shorter than the HEAD's length (`Short`): the entry is then
  finished without an error and below its size, and the dialog polls for ever
  (`flutter/lib/desktop/widgets/update_progress.dart:207`).

Four more are narrower than their names may suggest. `VerdictInOrder` is about refresh and
login answers: `probe_and_publish` and the warm-up publish without the check
(`src/server/drm_capturer.rs:1710`, 1887). `StreamInMeasure` counts the frame that may pass
from when the cached uid changes; how far the cache lags behind the session (it is
refreshed in each turn of the service's loop, `src/platform/linux.rs:1117`) is not bounded.
`OwnLogin` is about target, flag and challenge, not about the password: one typed into a
prompt is kept for the next login of any mapping of the window. `LetsInOnce` allows that
two connections that have both checked a one-time password before either is let in get in.

**CHECK_DEADLOCK** is off: arrivals, frames, launches, faults and inputs are finite
in number, and a system that has served them all rests. Waiting that should not last
is what the liveness properties are about.

**Mutants.** Beside a definition there is in places a variant of it with a plausible
slip (a guard dropped, a counter kept, two statements exchanged). `PROJECT.json` has,
under `mutants`, one for every property, and the property fails with it.

## 4. Disagreements between the code and its own words

`mapping_remove` checks that a mapping whose removal was sent stops, and TLC shows a
behaviour where it does not, with everything fair: the `Close` arrives while the
listener is inside a login; the login's select reads the same queue and drops what it
does not know, `Close` included; back in `listen`, the closed queue yields `None`,
which is ignored. The mapping keeps its port and its tunnel until the window goes.

The following were met while modelling. The models contain these steps, and the
properties above are stated so as not to promise what the code does not do; no run
is dedicated to them.

* `src/server/video_service.rs:984`: the wait for a frame counts answers, not which
  frame they answer; a late one for the last frame ends the wait for this one ("all
  connections have received current frame", 983).
* `src/server/service.rs:102`: `is_subed` reads two maps under two locks; a subscriber
  moved between them is seen in neither and its unsubscription is skipped.
* `src/rendezvous_mediator.rs:1723`: an OK for the old key, on its way when the key is
  synced, confirms the new one, which is then never registered (1706-1707).
* `src/server/terminal_service.rs:466`: output without newlines is never trimmed
  ("1MB per terminal", 30). 1935: a disconnect between the two resizes makes the next
  first one a no-op (47). 1928: with two loops on a session either may take the replay
  (1078). 2039: the cleanup misses an ended terminal whose id was remapped since its
  snapshot (2051). 422: a service made persistent between the look and the removal is
  removed (883). 855: with echo off and a silent program `stop` waits for the reader as
  long as the program runs (785). 797: the newline that is to end the reader is itself
  what `stop` may wait for without end (`Wedged`, section 3). 1709: a shell that cannot be
  killed is neither reported closed nor waited for.
* `libs/base/src/fs.rs:773`: on an upload the writer is not told of a skip, and the
  leftover `.download` replaces the file the user kept (1498). 1163: an offset for a
  file that is not the writer's current one is ignored, though the reader heeds it
  (1164). 1354: a job that failed to read stays first in the connection's list; the
  mirror in `src/ui_cm_interface.rs:1446` removes it. 721: a rename that fails is not
  noticed. `src/client/io_loop.rs:1957`: nor is a block that could not be written, and
  the file is reported done (1969).
* `src/hbbs_http/downloader.rs:242`: a body that ends early is finished without an error.
* `src/server/drm_capturer.rs:1829`: failures counted against an old verdict count
  against a new one (302, 4021). `src/ipc/drm.rs:983`: the gate that is shut without
  credit keeps the held frame from being replaced (980).
* `src/flutter_ffi.rs:2816`: the file is removed before it is known whether an earlier,
  finished entry is reused, and the dialog then offers a file that is gone (2838).
* `src/server/connection.rs:5167`: after a failed turn-on, privacy mode is turned off
  for whoever owns it (`src/privacy_mode.rs:36`). `src/privacy_mode.rs:231`: the thread
  that was given up may turn it on after the permission was revoked
  (`src/server/connection.rs:868`).
* `src/server/portable_service.rs:987`: a watchdog may reset the `STARTING` of a newer
  launch (975). 1003: a second connection takes a launch that has no process yet for
  stale (996).
* `src/server/input_service.rs:581`: a request between the clear and the keeping of the
  shape shown finds nothing (516).

## 5. Fairness

Weak fairness stands for tokio and the operating system scheduling every task and
thread again, and for a timer that comes. Strong fairness is used for three things:
an unbiased `select!`, which starts polling at a random branch, so that one ready
again and again is taken (`UiRecv`, the admission's wake-up and deadline); a mutex or
turn that is free again and again and is given in the end to each who waits
(`PrivacyFairness`, `TakeTurn`); and a network that loses datagrams but not every one
of a kind for ever (`StrongFairness` in `MCReach`). Where the code is `biased`, the
guard says so instead.

Nothing is assumed of users, peers or devices except where a suite says so: sockets
take what is written in the scenes `busy` and, for one channel, `stalled`; screens and
encoders deliver in the end (`VideoFairness`); a stream that is neither silent nor
broken calls back (`AudioFairness`); the program in a terminal reads its input with
the echo on (`StopFairness`: without that `stop` may wait, see above); display
enumeration goes on asking (`ProbeFairness`). `prompt` of `MCReach` assumes nothing of
timers; `timed` adds them.

Some scenes need no fairness of part of their component because their properties are
conditional: `EndsRegistered` asks only of a device deployed for good, `VerdictSettles`
of a producer that has settled.

## 6. Proofs

A proof module extends the suites whose runs check the same properties, or a component
that a suite extends too (`PfMux`), so a theorem is about the very definition that the
run checks: TLC shows it on one instance, the theorem for every value of the constants
that the named assumption admits. A theorem is of the component's own specification
(`Video!Spec => []FramesShared`): the other scenes of the suite are other theorems.
Every invariant below was model-checked on small instances too. The argument is the usual
one: the inductive invariant holds at first, every step keeps it, one lemma per action,
and it implies what is claimed.

**Port forwarding**

* `PfFlow` (its last part): `TypeCorrect`, `WindowConserved`, `NeverViolated`,
  `NeverDeadlocked`. `Conservation` carries the argument:
  `remaining = credit + hold + flying + returning`, and with `queued` and `drained`
  these make up the window. It is inductive only with two more facts: `drained` stays
  below the threshold (`DrainedLow`), so that a full stop of the sender leaves
  something under way, and a read in progress holds at least one minimum charge
  (`HoldPays`), so that the refund is never negative. From conservation every sum
  stays below the cap, so capping and saturating never bite. `WindowAssumption` holds
  of the code's constants; its heart is
  UPDATE_THRESHOLD + MIN_FRAME_CHARGE <= CHANNEL_WINDOW.
* `PfMux_proofs`: `DeliveredTheorem`, `OverrunTheorem`, for any number of channels and
  frames, any capacity of the data queue, and either loop ending at any time, assuming
  `MuxAssumption` (sizes are positive, reads return 1 to MAX_FRAME bytes) and
  `WindowAssumption`. The invariant `MuxInv` is about one direction of one channel, from
  the task that sends to the task that receives. What the receiver holds, what the
  stream carries and what the sender has read but not sent are together the frames from
  the next one to be written to the last one read, in order (`Held`, `Carried`); the
  receiver's window covers the sender's credit, what it has taken of it, what is under
  way and what is announced to it, `opened`'s raise included (`Covered`). Both are needed
  for both theorems: a frame over the window would be dropped, and a frame that is not
  the next in order would break the count. `Carried` is claimed only while the receiver
  still hears of the channel and `Covered` only while its frames are still admitted,
  since frames for a channel that is over are dropped on purpose. Two facts about the
  protocol go with them: who has sent `close` or `refused` sends no more (`Finals`), so
  nothing can follow the last frame, and `open` is sent once, before all data, and makes
  the controlled side's task (`Opening`), so data never meets a channel nobody has opened.
  The rest (`Sane`) says what a task holds at each place of its two relays. The proof has
  a lemma for every kind of turn: a task goes on (`QuietKeeps`), puts a frame on the
  ordered queue (`PutKeeps`) or an update on the control queue (`NoteKeeps`), a loop reads
  a frame (`ReadKeeps`), the stream loses frames (`ShrinkKeeps`); and one for every action,
  which shows of which kind it is. Amounts are sums over queues of any length; that a sum
  of two queues in a row is the sum of theirs is proved by a least counterexample
  (`LeastOf`, from the well-foundedness of < on the naturals), which stands in for
  induction.
* `Channels_proofs`, the listener: `NeverPinned`, `ResetsOwnHandle`, `LegacyForGood`. The
  invariant ties the state to the loops: while a loop lives, the state is its handle,
  since the listener establishes only from `Unset` or `Failed`, which only a loop's
  last step or the listener itself can bring about.
* `Channels_proofs`, the logins: `OwnLoginSent`, for any mappings, hashes and prompts.
  Whoever is between taking the turn and giving it back is the one who has it
  (`TurnHeld`), and the shared handler holds as much of its login as it has filled in so
  far (`FilledIn`, by place: the target, then the multiplexing flag, then the hash). So
  what is sent at the end is its own.

**Who gets in**

* `Admission` (its last part): `AlwaysBounded`, `OneOnItsWayOut`. The registry is
  exactly the set of connections that run unauthorized, is finite and within the
  bounds; admission numbers are distinct; a marked member precedes all others. The last
  needs that a connection is unmarked when it is admitted.
* `Login_proofs`, the failures: `FailuresKept`. An entry counts at least the wrong
  attempts since the last that clears it, whatever attempts interleave between their
  checks and their charges: the charge reads the entry again under the lock.
* `Login_proofs`, the login: `LetInTheorem`, `OnceTheorem`, for any number of connections
  and sessions, with and without a second factor. The messages of a login come in any
  order, so the invariant says at each place of the handler what has been proved by then
  (`Proven`), and that it was proved for the scope of the first request (`OneScope`) on a
  way that does not stop in between (`Straight`). The tables that connections share
  need three facts: a session that may skip the code gave it since its last one-time
  password (`CodesGiven`), nobody holds a one-time password that has not been made
  (`NoneAhead`), and a token is either in the table or with one connection
  (`TokensApart`), which is why one switch of sides lets in once.

**How peers come together** (`Connect_proofs`)

* The race: `RightOneWins`, `BothErrorsNamed`, for any set of attempts. `Midway` says
  what must hold while the race runs: a relay is held as soon as one has come out, and
  a side that is gone has left its error or the relay.
* The start: `StartedTheorem`, for any number of requests. Each of the seventeen steps of
  an attempt may be its last, since the other attempt can win meanwhile, so the proof has
  one lemma for every way a start is settled (`SettleKeeps`) and one for every step that
  goes on (`GoesOnKeeps`). The invariant: the guard is armed exactly as long as the
  preferred attempt may still use its offer (`GuardFits`); WebRTC comes out of a race
  once and only there (`WebrtcOnce`, `RaceFits`); while the peer connection is open it is
  either behind the guard, or held, or the outcome (`OuterFits`); and every connection
  that may become the outcome is honest about its flag and passes a forced relay
  (`Fair`). The steps of the two races are seen through one relation (`Advances`): what is
  held or returned was held before or has just come out.
* The sessions: `SharedSafelyTheorem`, `EvictsOnlyTheDeadTheorem`, for finitely many
  callers. `Counted` makes the atomic counter the number of callers between claim and
  release, and `Owned` says that ownership is taken before the claim is given back; from
  the two, whatever is about to be closed has neither a claim nor an owner. The counting
  steps are lemmas about the cardinality of `Claims` (`ClaimCounts`, `ReleaseCounts`).

**What is shown**

* `Media_proofs`, recovery: `NoneStale`, `FallsBack`. The flags of an exhausted recovery
  that ended its run survive exactly until the next run starts.
* `Media_proofs`, restarts: `RestartsTheorem`. A window of the recovery tumbles: it begins
  with a restart and takes `Limit` of them, so two windows that meet may put almost twice
  the limit into one window's time; twice the limit they cannot. `LongAgo` carries it:
  the restart that began the present window lies more than a window's time after every
  restart at least `Limit` places before it.
* `Media_proofs`, the rate: `RateTheorem`, for any delays, baselines and caps, and with it
  the restarts. The history is tied to the viewer's own counts (`Tallied`): its count of
  bad replies is at most the streak there was, a sign of a queue ends the start, neither
  the rate nor the level to restore exceeds what was held, and after a restore that failed
  the next aims lower. `Braking` says what a missing reply leaves behind: the rate set, the
  start over, the count begun anew. Of the division by a measured delay the proof needs
  only that the rate it yields is no higher than the one it began with.
* `Media_proofs`, frames: `FramesSharedTheorem`, for any connections. All established
  subscribers have frames of the present encoder or none has (`AllAlike`), because a
  newcomer is promoted beside nobody (`PromotedAlone`) or to a new encoder; and an encoder
  is new until the loop's top (`FreshAtStart`), which makes the clearing of the refresh
  option there harmless.
* `Screen_proofs`, privacy mode: `ProperOwner`, for any implementations, assuming that it
  is turned on in place (`~Amyuni`); a thread that is given up breaks it (section 4).
  Turning off may fail at any time, and the owner it then leaves is the exception of
  section 3. That the owner has the permission needs no exception, since a permission
  whose revocation failed to turn the mode off is kept.
* `Screen_proofs`, cursors: `CursorKeptTheorem`, for any handles and shapes, with
  handles filed or not, and ceilings of which the one for shapes is at least two (the
  code's are 4096 handles and 32 MiB of shapes). `Room` bounds both caches at each place
  of a tick, and `AboutHandle` says that the message the tick is about is kept, unless
  both caches have just been cleared.
* `Screen_proofs`, the verdict: `VerdictTheorem`. One holder of the flag at a time
  (`FlagHeld`), and an answer is no older than the verdict as long as the generation has
  not moved (`AnswerIsNewer`), which needs that nothing rests on a change still to come
  (`Dated`). The order is that of refresh and login answers, the ones that are checked.
* `Screen_proofs`, the stream: `StreamTheorem`, for any credit, channel length, stall limit
  and number of scenes. What the task lacks of its credit is a frame on the wire or an
  acknowledgement, as long as both ends live; the inductive invariant adds the half that
  survives the end of one of them (`NoneMadeUp`: credit, frames and acknowledgements never
  exceed what was granted), without which an acknowledgement could overfill the credit.
  The second claim, one frame after the cached uid has changed, needs that the frame that
  passed after the check has used up its turn of the loop (`LateIsOver`). The frames on
  the wire are a filtered sequence; lemmas count them as a set of places instead, which
  needs no induction.

**What is moved** (`Channels_proofs`, the transfer)

* `FilesTheorem`, for any number of files, sizes, losses and edits of the source, in both
  directions, and about a job that is not spoilt: begun where no `.download` or `.digest`
  of another lies, its source edited only between its parts and then with a new digest,
  none of its operations on the writer's disk failed. The invariant is accordingly
  `Loose /\ (spoilt = {} => ...)`: of a spoilt job only that the files and versions are
  what they should be (`Loose`), which is what the next job begins from (`StartAnew`), and
  of an unspoilt one three layers, each proved from the ones before. A step that spoils
  the job has nothing else to keep (`SpoiltStays`), and while it is unspoilt the digest is
  the version (`StampStep`).
  `Control` is the protocol: for each file one token goes round (its digest, the prompt,
  the answer; `Token`), and what is on its way to the writer is the blocks of one file and
  at most one thing after them (`QueueShape`), read past a confirmation that overtakes
  them on an upload. `Data` says where blocks belong: the i-th on its way goes i places
  behind the writer (`Placed`), an offset offered is where the `.download` still ends
  (`OfferFits`), a `.download` is a beginning of the file in the version its `.digest`
  names (`Content`), and none lies ahead of the writer (`NoneAhead`). `Download` is about
  what stands under the names: everything behind the writer is whole or skipped
  (`Behind`), the writer has all of its file when nothing more of it is to come
  (`Complete`), and between writer and reader there are only skipped files (`Position`).
* That the job is begun where no `.download` lies came to light in the proof: `NoneAhead`
  cannot be proved without it, and the property is false then. A job that is abandoned
  for good leaves a `.download`; when a later job over the same files is resumed, the
  reader is offered the leftover's length for a later file, and heeds it, while the
  writer, whose current file is another, ignores the confirmation (section 4,
  `libs/base/src/fs.rs:1163`) and begins that file anew: its first blocks are missing.

**Only model-checked.** All liveness and everything with ENABLED is out of the prover's
reach. `EndsAgree` stays with TLC. The refinement of `PfFlow` by `PfMux` in it is stated
with an instance for each direction of each channel (`Flow(s, c)`), and the prover gets
the substitution of an instance with parameters wrong. Proved of `PfMux` directly is that
no window is made up (`Covered`, an inequality, and `OverrunTheorem`); that none is lost,
so that a sender of `PfMux` short of credit always has some coming, is proved of `PfFlow`
(`WindowConserved`, `NeverDeadlocked`) and carries over only by the refinement TLC checks.
Its other part, `SlotFreedBeforeOpen`, is true only where the cap is one channel, as in
its scene. `OutputWhole` rests on what recursive functions and concatenations
yield.

## 7. Not modelled, and what could follow

Inside modelled components: a stream whose writes block on both sides at once
(`src/port_forward_mux.rs:747`), the wrap-around of channel ids (562), the raw pipe
(`run_forward`), the backoff of terminal logins (`src/server/login_failure_check.rs`),
the baseline and bitrate of the quality controller, UTF-8 decoding and the Windows
helper of terminals, the answerers' slots and candidate queues and the framing of
WebRTC, the refresh workers of DRM capture and uinput, `start_all`'s restart loop, UDP
punches, relays and NAT tests of the mediator, frames through the portable service's
shared memory, the filter of messages by scope.

Altogether: user interfaces, platform and codec bindings, HTTP clients, IPC plumbing,
streams and ciphers. They make up most of the repository's lines (the Flutter
application, `libs/scrap`, `libs/enigo`, `libs/clipboard`, `src/platform`,
`src/flutter_ffi.rs`, `src/common.rs`, options in `config.rs`) and are bindings, I/O,
tables and presentation without a protocol of their own, which a model checker has
nothing to say about.

Next, in this order: the safety parts of `TerminalSessions`, `PortableLife` and
`Registration`; a bounded stream under both port-forward loops.
