# TLA+ models of the metaRTC transport core

This directory is a verification project for the real-time transport of
yangrtc (metaRTC 5): the C library `libmetartccore5` with its headers in
`include/`, and the parts of `libmetartc5` that its threads share with it. Paths
below are relative to `src/`; `core5/` stands for `libmetartccore5/src/` and
`cpp5/` for `libmetartc5/src/`.

## 1. The system

| Part | State it keeps | Operations | Meets |
|---|---|---|---|
| Receive NACK (`core5/yangrtp/YangReceiveNackBuffer.c`, `YangRtpRecvNack.c`, `core5/yangrtc/YangPlayTrack.c`) | window `begin..end` of sequence numbers, sorted list of missing ones with times and counts, retry interval | `yang_playtrack_on_nack` for each packet, `yang_check_send_nacks`, `update_rtt` | UDP thread, timer thread, NACK codec |
| NACK codec (`core5/yangrtp/YangRtcpNack.c`, `core5/yangutil/sys/YangMath.c`) | sorted array of numbers | add, encode, decode | both NACK sides |
| Publish NACK (`core5/yangrtp/YangPublishNackBuffer.c`, `YangRtpBuffer.c`, `core5/yangrtc/YangPush.c`, `YangPushStream.c`) | ring of packet buffers, record from sequence number to buffer | write, record, encrypt, send; look up, encrypt, send again | publishing thread, UDP thread, SRTP |
| Frame rings (`cpp5/yangutil/buffer/`, `core5/yangutil/buffer2/YangMediaBuffer2.c`) | slots, two indices, size, mutex | `putFrame`, `getFrameRef`, `resetIndex` | every pair of media threads |
| Renderer sync (`cpp5/yangstream/YangSynBuffer.cpp`) | base times, drift counters | `getVideoRef`, `getAudioRef` | frame rings, renderer |
| Frame assembly (`core5/yangrtc/YangPlayTrackH264.c`, `...H265.c`) | cache of packets by sequence number, start of the frame awaited, first number missing, time stamp of the key frame | `on_rtp`: store, search for the end of the frame, completeness check, restart at a key frame | receive NACK, decoder ring |
| Audio reordering (`core5/yangutil/buffer2/YangSortBuffer.c`) | array of frames by time | put, get | audio track, audio ring |
| Packetisation (`core5/yangrtc/YangPushH264.c`, `YangRtp*.c`) | sequence counters | single NALU, FU-A, STAP-A, audio | publish NACK |
| RTCP, TWCC, statistics, bandwidth (`core5/yangrtp/YangRtcp*.c`, `core5/yangrtc/YangRtcRtcp.c`, `YangRtcTwcc.c`, `YangRtcStats.c`) | counters | encode, decode, account | both sides, timer thread |
| Connection (`core5/yangrtc/YangRtcConnection.c`, `YangRtcContext.c`, `YangPeerConnection.c`) | session, push, play, shared certificate | create, connect, close | all |
| UDP thread and timers (`core5/yangrtc/YangRtcUdp.c`, `core5/yangutil/sys/YangCTimer.c`) | thread, loop flags, condition | start, stop | connection |
| ICE, STUN, TURN (`core5/yangice/`) | candidate, shared TURN connection and its count | gather, connect, close | connection, UDP |
| DTLS, SRTP (`core5/yangssl/`, `core5/yangutil/sys/YangSRtp.c`) | keys, two mutexes | handshake, protect, unprotect | UDP thread, publishers |
| Data channel, P2P, IPC, SDP, media servers, RTMP, SRT, capture, codecs, players, recording, meeting client and server, vendored code | see `components` in `PROJECT.json` | | |

How a packet travels. The encoder's ring hands a frame to the publishing
thread, which packetises it, writes each packet into the next buffer of a ring,
records the buffer under the sequence number, encrypts it in place and sends it.
At the peer the UDP thread decrypts the packet and passes it to its track, which
looks for gaps, requests the missing numbers in an RTCP NACK and assembles frames
that it puts into the decoder's ring. The NACK reaches the UDP thread of the
publisher, which looks the numbers up and sends the buffers again. A timer
thread sends the reports and feeds the round-trip time back to the receiver.

What is hard: numbers that wrap and are compared by a signed distance; lists
that are edited while they are walked; two threads on one buffer, index or
session with a mutex around a part of it; losses, duplicates and reordering;
retries against time-outs; and threads that start and stop each other by plain
flags. Each place is a hazard in `PROJECT.json`, with the properties that watch
it or the module planned for it.

## 2. Modules

| Module | Models | State | Actions |
|---|---|---|---|
| `RtpSeq` | arithmetic of sequence numbers, `yang_rtp_seq_distance` | - | - |
| `RecvNack` | receive NACK of one track | `rtp` = YangReceiveNackBuffer, `queue` = nack->queue by number, `nackInterval`, `preCheckTime`, clock | `OnNack` (`Recover`, `Overflow`, `Track`, `TrackAndRequest`: the four ways through `yang_playtrack_on_nack`), `UpdateRtt`, `Tick` |
| `RecvNackProofs` | theorems about it | | |
| `NackArray` | the array code below it | `infos` = YangRtpNackInfoList | `OnPacket` runs the loops; refines `RecvNack` |
| `RtcpNack` | NACK codec from `addSn` to decode, loop turn by loop turn | `nacks` and `asked` = the two `nack->nacks`, `chunks`, the loop variables `enc` and `dec` | `Collect`, `Send`; `PackSn`, `WritePacket` of `yang_encode_rtcpNack`; `UnpackPid`, `UnpackBit`, `Receive` of `yang_decode_rtcpNack` |
| `RtcpNackProofs` | theorems about it | | |
| `PublishNack` | publish NACK of one stream, two threads | ring `buffer`, `index`; record `queue`; program counters | `Write`, `CachePayload`, `CacheNb`, `CacheSeq`, `ProtectPacket`, `SendPacket`; `RecvNack`, `FetchOne`, `ReadPayload`, `ReadNb`, `ProtectAnswer`, `SendAnswer` |
| `PublishNackProofs` | theorems about it | | |
| `H264Packets` | which packets a frame is cut into (`YangPushH264.c`) | - | - |
| `FrameCache` | H.264 frame assembly at the receiver, behind the publisher's stream | `stream`; `track` = `header_sn`, `lost_sn`, `key_frame_ts` and `cache_video_pkts` of YangPlayTrackH264, with the end of the frame that goes out next (`tail`); `out` = the frames passed to `yang_playtrack_receiveVideo` | `Push`, a frame is packetised; `on_rtp`, a packet comes; `packet_video`, one turn of its recursion, a frame goes out |
| `FrameCacheProofs` | theorems about it: frames unmixed, whole, once | | |
| `FrameOrderProofs` | theorems about it: order, nothing withheld, the refinement | | |
| `FrameDelivery` | what frame assembly promises to the decoder: frames of the stream, each whole, none twice, in order | `stream`, `received`, `came`, `out`, `late`, `relics` | `Grow`, `Receive`, `Release` |
| `SessionLife` | one peer's session with its threads: the owner that opens and destroys it, the UDP thread, the threads of the 1 s timer, the DTLS retry thread | `owner` (control state), `udp`, `tm` and `tmThread`, `dtls` with their flags; `activeState`, `state`, `isSendDtls`, `srtp`; `lock` of the peer list; `alive`, the objects not freed yet | `StartRtc` ... `Free` of the owner; `TimerThread`, `DtlsThread`; `UdpLoop` with `UdpExit`, `Receive`, `Handle`, `ProcessData`, `ClientSuccess` |
| `SessionLifeProofs` | theorems about it | | |
| `TurnShare` | the TURN connection the sessions share | `turn` = `*g_yang_turnConnection` with its thread, state and peers; `count` = `g_yang_turnCount`; `sess`, where the thread of each session is, and what it has loaded; `server`, answers that can come and channels bound | `yang_ice_getTurn` as `TestTurn`, `MakeTurn`, `CreateTurn`, `CountTurn`; `InitTurn`, `Allocated`; `yang_turnconn_addPeer` as `TestChannel`, `NumberPeer`, `AddPeer`; `WaitReady`; `yang_destroy_ice` as `RemovePeer`, `UncountTurn`, `DestroyIce`, `FreeTurn`; ...; `LoopThread`, `Request`, `PeerRequest`, `Renew`; `Answer` |
| `TurnShareProofs` | theorems about it | | |
| `FrameQueue` | what a frame ring promises | `waiting`, `next`, `taken` | `Put`, `Refuse`, `Take` |
| `MediaBuffer` | a frame ring, load by load | indices, `size`, `frames`, `lock`, program counters | `Put*`, `Get*`, `Reset*`; refines `FrameQueue` |
| `MediaBufferProofs` | theorems about it | | |

`low`, `top`, `seen`, `relisted` and `givenUp` in `RecvNack`, `lag`
in `PublishNack`, `since` in `MediaBuffer`, `received`, `came`,
`keyLate` and `stray` in `FrameCache`, `busy` in `SessionLife`, `torn` and the fields
`added`, `clash`, `stopped`, `lost` and `back` of the connection in `TurnShare` are history
variables: they say what really happened and guard nothing, except that `lag` is bounded by
`MaxLag`, that `received` keeps a packet from arriving twice or too late, and that a
behaviour of `TurnShare` ends when the connection is `torn`.
Operators named `X_Something`, defined before `X`, are faulty variants
that show that a property can fail.

Abstractions. A packet is its index, a buffer is the packet it holds and whether
it is encrypted, a frame is a number. The width of a sequence number is the
constant `Half`. In `RecvNack` the network is any schedule of deliveries, so that
loss, reordering and duplication need no variable. `0.8` and `0.2` of
`update_rtt` are integers. `YangReceiveNackBuffer.queue[]` is left out because it
is only written. In `FrameCache` a packet is its place in the stream, and its
payload is what the receiver asks of it: the kind of NAL unit, the time stamp, the
marker, the two bits of the FU header, and whether the first byte after that
looks like an IDR slice, which is what `yang_playtrackH264_is_keyframe2` reads.
SRTP drops a packet that comes twice. The recursion of
`yang_playtrackH264_packet_video` is one step per turn, and no packet comes between its
turns, as one thread runs it. A slot of the cache is not asked for its sequence number
(`YangPlayTrackH264.c:430`): a packet that no frame can use any more (`Astray`: it came
behind a packet of a newer key frame, or before any key frame) stays in its slot and is
handed out again when the numbers come round the cache. This is what `NoRelics` excludes,
and TLC finds the frame handed out twice without it; with it, numbers and slots may wrap
as often as they like. In `SessionLife` a thread that is inside an
object has a control state for it, so that "freed while in use" can be said;
which datagram comes and when the handshake is over is free; a datagram of no known
kind leads to `client_sucess` as in the code. The UDP thread clears `isStart` and
closes its socket in two steps (`UdpExit`), since who waits for the first may free the
session before the second. In `TurnShare` each test, load and store of the
global pointer, the count and `channelNum` is a step, as none of them has a lock: two
sessions can both find the pointer `NULL`, use a connection that is not created yet, lose a
count, or take one channel number. What such a race leads to is recorded: `torn`
for pointer and count (a session then has a connection that is freed, unfinished or not
the global one, and the behaviour ends), `clash` for the number (the behaviour goes on).
Three threads run the sessions, each one session at a time: sessions in `Servers` get
their connection from the HTTP thread, the others from the message thread, and the
publishing thread destroys both. An answer is its kind, as `yang_turnconn_handleRecv` matches nothing else of it; the
server refuses to bind a channel that is bound to another peer. In `MediaBuffer` and `PublishNack`, accesses without a mutex are
data races of the language; the models give them the outcomes of plain loads and
stores in program order.

## 3. Runs

Passing runs:

| Run | Instance | Shows |
|---|---|---|
| `recv_nack` | 10 sequence numbers, 5 packets across the wrap, list limit 4, one retry, time-out 2 | the window stands for what was received (`WindowIsTrue`), every gap is received, listed or given up (`NoLossForgotten`), nothing received is requested except after an older packet reopened the window (`NoSpuriousNack`), the list is bounded and its distances are an order, requests are paced, the newest number never moves back; the binary search and the loop that removes while it walks do what the list says (`ArraySorted`, `ImplementsRecvNack`) |
| `rtcp_nack` | all windows of the number space | no number is invented, the oldest is always asked for, one pair is exact |
| `media_buffer` | 3 slots, 8 frames | the ring implements a bounded queue, a frame handed out stays intact until the free slots are used up, and every frame is taken; with the renderer's one clear (`resetIndex` without the mutex) the indices and the size keep their range and the ring still drains |
| `publish_nack_video` | 6 numbers, ring 4, record 2, 9 packets, answers delayed by one packet | for one of the last `QueueLen` packets the answer is that packet with its own length; for an older one payload and length may each be of the next packet in its place, as the entry is read after the comparison, but of no third one; all but the oldest of the last packets are answerable |
| `frame_cache` | all streams of up to 4 frames and 9 packets, in packets of 2 bytes, 14 numbers across the wrap, 7 slots, lost or late by up to 2 places | as long as no old packet can be taken for a new one (`NoRelics`), a frame handed to the decoder has the packets of one frame (`NotMixed`), all of them (`Whole`) and none twice; while no packet of a key frame is overtaken, frames keep their order, the cache waits for a packet it has not had, unless the front of its key frame is missing (`LostIsMissing`), and no complete frame is withheld; the cache implements `FrameDelivery` (`IsDelivery`) |
| `session_life` | server and client, 2 timer threads, 1 retry; a destruction at every moment | nothing is freed under a thread (`FreedUnused`), no thread survives (`NothingSurvives`) and the destruction ends (`CloseEnds`), but for what was starting or in hand when it began, and but for the UDP thread that has cleared `isStart` and has still to close its socket (`YangRtcUdp.c:86-88`); keys are there before media is sent; one thread shakes hands |
| `turn_share` | a server's and a client's session, 2 channel numbers, 2 connections; answers late, twice or never | the count keeps the connection while a session holds it, no data of one peer reaches another session, an only peer that is Ready has its channel, no peer is left without a request, every session that goes up is served (`PeersServed`), and who waits for the thread to stop is heard (`StopIsHeard`), each but for the named causes |

Runs that end in a violation, each a disagreement between the code and what a
comment or a document says of it (`findings` in `PROJECT.json`):

| Run | What happens |
|---|---|
| `recv_nack_report` | the wrap counter compares with `end`, which has wrapped already: the extended highest number falls back |
| `rtcp_nack_loss` | the number that closes a pair is left out of the NACK |
| `publish_nack_audio` | 100 audio buffers, 128 entries: the answer is another packet |
| `publish_nack_srtp` | the buffer was encrypted when it was first sent; encrypting it again sends plain text |
| `frame_cache_clean` | an overtaken packet of an older key frame clears packets of newer frames out of the cache |

Bounds. The wrap of the number, a time-out, a retry, an overflow of the list, a
packet older than the window and a duplicate all fit in five packets and three
units of time; longer runs repeat them, the ghost `low..top` never wraps. Five
packets span half the ten numbers, the most the distance can order: in the code `begin` stays
behind while nothing times out, and past half the numbers a duplicate would look
older than the window (`YangReceiveNackBuffer.c:116`). In
`PublishNack` record and ring wrap twice or more within nine packets and the numbers
once. In `FrameCache` nine packets hold a key frame in two or more packets,
P frames between two key frames, and frames of one, two and (by the precedence of
`?:` in `YangPushH264.c:180`) no packets, and go round the cache of seven; the cache is
longer than a frame and a delay together (`FitsAssumption`), as 512 or 1024 slots are in
practice: otherwise packets of one frame would lie upon one another. A ring of three slots is full after three frames, and all interleavings of
the two threads over a whole turn occur. In `SessionLife` two timer threads are
the fewest that can clear each other's flag, and one retry is the fewest after
which the thread gives up (24 in the code); the proofs lift both bounds. In
`TurnShare` two sessions, one on each thread, make, share, tear and reuse a connection, and
race for pointer, count and channel number with one another and with the thread that
destroys; a second connection follows a destroyed one. Channel numbers wrap with the third
peer only, which a run with three sessions is too large for: that `TypeOK` and
`NotMisdelivered` hold up to that point is what the proofs add. Both
runs name in their properties what excuses a violation: these are the causes the code
really has, listed as hazards with a note, and the property says that there are no others.

| Cause | What it is | Named in |
|---|---|---|
| `busy` = `udp` | the UDP thread was starting or had a datagram in hand when the destruction began | `FreedUnused`, `NothingSurvives`, `CloseEnds` |
| `busy` = `timer` | a timer thread was starting, or a second one had been started | the same |
| `busy` = `dtls` | the handshake was being retried; nobody waits for that thread | `FreedUnused`, `NothingSurvives` |
| `closing` | the UDP thread has cleared `isStart` and has still to close its socket | the same |
| `torn` | a race for the pointer or the count, or `yang_ice_closeTurn` or the last session's destruction under another session | `CountKeepsIt`, `PeersServed` |
| `clash`, `Distinct` | a race for `channelNum`, or more numbers given than there are | `TypeOK`, `NotMisdelivered`, `PeersServed` |
| `stopped` | a session stopped the connection the others use | `ReadyIsBound`, `NobodyForgotten`, `PeersServed` |
| `lost` | the connection was stopped before its thread had set `isLoop`, or started over a stop | `StopIsHeard` |
| `back` | the answer to an allocation came again | `NobodyForgotten`, `PeersServed` |
| `turnLock` | `removePeer` returned with the lock taken | `NobodyForgotten`, `PeersServed` |

`ReadyIsBound` speaks of a connection with one peer only. With more, an answer promotes
all peers that wait in a state, those included whose request was never sent, so that
a peer may be Ready without a channel; `PeersServed` asks for Ready and not for the
channel for the same reason. That bindings expire at the server is left out.

Fairness. In `MediaBuffer` both threads are loops that run until
the program ends (`WF_vars(Producer)`, `WF_vars(Consumer)`), the mutex is held for
a few loads and stores. The producer of the model runs out of frames at `Horizon`, so that `Drained`
says that no frame stays behind. In `SessionLife` the threads that the owner waits for are weakly fair: the
calls it blocks in (`recvfrom`, `epoll_wait`) time out after 200 ms, and the naps
are short; the owner is fair once it closes, as it may keep a session open for
ever. The thread that retries the handshake is not assumed fair: no wait depends on it. In `TurnShare` the sessions' waits and the loop thread are weakly fair for
the same reason; the answers to permission and channel requests are strongly fair,
since the loop sends the request again and again while nothing comes, and each
time some packet gets through. Deadlock is not checked where the runs end at a
bound (`CHECK_DEADLOCK FALSE`).

## 4. Proofs

`PublishNackProofs` proves about `PublishNack`, for all values of the constants
(any number space that the record length divides, any ring, any lag, any number
of packets):

- `TypeCorrect`: the type invariant, so that no index leaves ring or record;
- `AnswerCorrect`: if `RingLen > QueueLen + MaxLag`, `MaxLag < QueueLen` and there are at
  least `2 * QueueLen` numbers, `AnswerIsRequested` always holds;
- `RecentIsAnswerable`: if `RingLen >= QueueLen`, `RecentAnswerable` always holds.

With the lengths of the code the video stream (1400 buffers, 1024 entries)
satisfies both as long as fewer than 376 packets are written while one request
is answered (1400 > 1024 + 375, 65536 numbers); audio (100 and 128) satisfies neither, and the run
`publish_nack_audio` shows the consequence. None of the three properties is
inductive: the proof needs to know which packet each buffer holds
(`RingHoldsLast`), which one each entry of the record names and that its three
fields agree unless the publishing thread is between their stores
(`RecordHoldsLast`), that a NACK names packets that were sent (`TodoWasSent`),
and how old the entry the UDP thread looked up can be by now
(`AnswerIsRecent`). Their conjunction with `TypeOK` is `IInv`,
which has one lemma per action; the remainders of ring and record are handled by
a few lemmas on `%` at the head of the module.


`SessionLifeProofs` proves about `SessionLife`, for any number of timer threads
and of retries:

- `TypeCorrect`: `TypeOK`, with the limit on the retries;
- `NothingFreedInUse`: `FreedUnused`;
- `NoneSurvives`: `NothingSurvives`;
- `OneShakes`: `OneHandshakeThread`;
- `KeysFirst`: `KeysBeforeMedia`.

The argument. Until the destruction begins, each timer thread that has started has set
`isStart` and `isloop`; so if none was starting and only one had been started, the
stop sees its flag and waits for it. A UDP thread without a datagram in hand takes
none after `activeState` is cleared, so it starts no timer and enters no object,
and the wait for its `isStart` ends only when it has left its loop: all that is left to it
is to close its socket, which the properties name. The handshake thread is
started only when the flag that its starter sets is clear, or by the client's
first STUN answer. `IInv` puts these together (`OwnerInv`, `UdpInv`, `TimerInv`,
`DtlsInv`, `KeysInv`); one lemma per thread says what its steps do without the
record updates (`OwnerDoes`, `TimerDoes`, `DtlsDoes`, `UdpDoes`), and one lemma per
part says that it is kept. `TimerThreads` and `Retries` are assumed to be at least one.

`RecvNackProofs` proves about `RecvNack`, for any width of the sequence numbers,
any first number, any limit of the list and any intervals and round-trip times:
`TypeCorrect` (`TypeOK`), `WindowTrue` (`WindowIsTrue`), `NothingForgotten`
(`NoLossForgotten`), `NothingSpurious` (`NoSpuriousNack`), `ListBounded`
(`QueueBounded`), `RequestsPaced` (`Paced`) and the action property
`HighestNeverBack` (`HighestAdvances`). The assumption that matters is
`Horizon < Half`: the packets of a run are no more than 32768 in the code. It is
needed, because past half of the numbers a distance has the wrong sign, and `begin`
follows `end` only by time-outs; a run that is lost, late or repeated in any way
within it is covered, across the wrap. The clock does not start at 0
(`NackCheckInterval` is not 0), as 0 stands for "never requested".
The lemmas at the head of the module turn sequence numbers into packet indices once
(`DistIs`, `RangeIs`); `WindowIs` and `LostIs` say what a packet does to the window in
indices, and `Moved` sums up the two actions that move it. `NoLossForgotten` is not
inductive: the loop that drops timed-out entries skips every second one, which goes
later and sets `begin` back. `CoverInv` says that from the oldest listed packet on
nothing is forgotten, also below `begin`; with it any listed packet may be dropped at
any time, so that the proof does not depend on what the loop picks.

`RtcpNackProofs` proves about `RtcpNack`, for any width of the sequence numbers and of
the mask and any list of missing numbers in a window of fewer than half of them:
`OnlyMissing` (`NothingElseAsked`), `OldestFirst` (`OldestAsked`) and `OnePairArrives`
(`OnePairIsWhole`). The two loops are modelled turn by turn, so that the invariant can
say how far each has come: every pair, also the one in work, names numbers of the list
only (`PairInv`), the first pair begins with the oldest number (`FirstInv`), and where
one pair can carry the list, its mask holds the numbers read and the publisher has the
beginning of the list that the bits read stand for (`OneInv`). `AddSnIs` shows of the
sorted insertion that it keeps the order and adds exactly the number, through
`PrefixIs`: the older numbers of a sorted array are its beginning. The window must be
shorter than half of the numbers, or distances are no order; time-outs and the limit of
the list keep it so, as packets give up their place long before 32768 newer ones.

`MediaBufferProofs` proves about `MediaBuffer`, for a ring of any size and any number
of frames: `TypeCorrect`, `StaysIntact` (`HandedOutIntact`), and `ImplementsQueue`,
the refinement of `FrameQueue`. `IInv` holds with and without the renderer's clear as
far as mutex, size and indices go (`LockInv`, `SizeInv`, `IndexInv`, `FrameInv`): a size
looked at before the mutex can only have moved the harmless way, because each of the
two threads changes it in one direction. Without the clear, `RingInv` says that the
slot to write lies as many places after the slot to read as there are frames, one more
while one is being written, and `TakenInv` how near the producer has come to a slot
handed out. For the refinement one lemma per action shows which step of the queue it
is: the frame enters the queue when `m_size` is written, leaves it when the consumer
writes it, and all other steps stutter.

`TurnShareProofs` proves about `TurnShare`, for any finite set of sessions, served or
not, any number of channels and of connections: `TypeCorrect`, `CountKeeps`
(`CountKeepsIt`), `ReadyBound` (`ReadyIsBound`), `NobodyLeft` (`NobodyForgotten`),
`StopHeard` (`StopIsHeard`) and `DeliveredRight` (`NotMisdelivered`). Step summaries
(`Makes`, `Counts`, `Adds`, `Removes`, `Uncounts`, `Frees`, `Runs`, ...) say field by field
what the actions do; each part of `IInv` is then kept by each of them. Until the connection
is torn, the count is the number of the sessions in `Counted`, those that hold the
connection and have not counted themselves off (`Intact`): the two steps that store a count
have loaded the current one, or the store is a race. `Fresh` says that one session
creates a new connection before another has used it, `PublishInv` that one session at a time
is destroyed, `MakeInv` that the sessions about to make a connection are within its bound.
`HeardInv` is `StopIsHeard` with what keeps a thread from setting `isLoop` again. The states
fit because peers are added only after the allocation (`StateInv`), because answers come
only after a peer asked for them (`PeersInv`), and because peers do not run ahead of
the connection (`OrderInv`); `BoundInv` is `ReadyIsBound` together with the answer that
is still on its way. `TakenInv` says that without a race a thread stores the successor of
the number it took, and `ChannelInv` that until a race or the wrap every peer gets a
channel that no other one has or had, those included that have a number and are not on the
list yet. The proof of `DeliveredRight` has no hypothesis on the number of sessions: the
property itself ends at the race and at the wrap, which the code both meets.

`FrameCacheProofs` and `FrameOrderProofs` prove every property of `FrameCache`, for
streams, frames, packets and caches of any size, any loss and any delay that fits the
cache: `TypeCorrect` (`TypeOK`), `FramesNotMixed` (`NotMixed`), `FramesWhole` (`Whole`),
`PacketsOnce` (`OncePerPacket`); `FramesInOrder` (`InOrder`), `LostMissing`
(`LostIsMissing`), `NoneWithheld` (`NothingWithheld`); and `ImplementsDelivery`, the
refinement of `FrameDelivery`. They assume what the module assumes: the packets of a
run are fewer than the sequence numbers, and a frame and a delay fit into the cache.

The argument. The first lemmas turn sequence numbers into packet numbers (`Num`, `Spot`):
two packets less than a cache length apart are in different slots. `FrameIs` and
`GrownIs` say what the publisher sends: which packets have a mark, that fragments come
in runs, that time stamps grow (`Shaped`). `CleanIs` says when no slot between two packets
holds an old one, which is what a walk of `find_next_lost_sn` needs to see the packets
that are there; the walk then ends at a missing packet or with a frame (`Outcome`), and a
frame whose fragments count out is whole. None of the properties is inductive. The types,
and that slots hold what was received where it belongs, hold always (`Sound`); the rest
holds while there are no relics (`Core`): nothing in use is older than the header,
unless a packet went astray (`Window`), the header is inside the key frame that is waited for or that frame has gone
out (`KeyInv`), while the packet `lost_sn` can still come all before it is there
(`Waits`), the frame that goes out next is there and whole (`TailInv`), and frames that
went out are runs of packets without a packet in common (`OutInv`). A packet does one of
four things (`StepStart`, `StepBack`, `StepHit`, `StepStore`), a turn of the recursion is
the fifth, and each part is kept by each of them. While in addition no packet of a key
frame was late, `Ordered` says where the header stands: all that went out lies before it
(`OutOrdered`), what came from it on is in the cache (`StillThere`), nothing before it was
lost since some key frame (`KeyRun`), and what lies before it has gone out or is older
than a key frame (`PassedInv`). For the refinement, a packet is a `Receive`, a turn of the
recursion a `Release`, and a frame of the publisher a `Grow`.

What is model-checked only. Liveness under fairness (`Drained`, `CloseEnds`,
`PeersServed`), which the provers cannot show; and what loops over arrays
compute, `NackArray` (`ArraySorted`, `ImplementsRecvNack`): its loops are `RECURSIVE`
operators, and a proof about them would be by induction over the array.

## 5. Plan

What is next, in order:

1. Proofs: `NackArray`, with its loops turn by turn as in `RtcpNack`.
2. `NackSession`: `RecvNack` and `PublishNack` over a network that loses,
   duplicates and reorders, with the codec between them; every loss is answered
   or given up in the end.
3. A list of peers around `SessionLife`: the walks of the 5 s timer, the
   publishing loop that removes only in rounds with media, the destructor.
4. `SortBuffer`: audio reordering, against a sorted queue.
5. `CertificateCount`: the certificate of several sessions.
6. Algorithms: a reference for the fragmentation of a frame, TWCC chunks, statistics.
7. `MeetingServer`: the map of meetings and users.

## 6. Not modelled

What has status `not_modelled` in `PROJECT.json`, each with its reason: text and
wire formats without state, layers over libsrt, usrsctp, librtmp, OpenSSL or
mbedTLS, device and codec loops, the user interface, and third-party code. Of the
modelled parts, the notes in `PROJECT.json` name what is left out; the largest
omissions are the session that reaches its peer through TURN (it has no UDP
thread of its own), the publishing thread inside a live session, and the walks
over lists of peers while one is freed.

Hazards that are not on the list of `PROJECT.json` because no module reaches them yet:
the certificate's unlocked count (`core5/yangrtc/YangRtcContext.c:33`), the STUN wait
over a record on the stack (`core5/yangice/YangIce.c:101`), the TURN response cleared by
one thread while the other reads it (`YangTurnConnection.c:68`), a second loop thread
(`:718`), a renewal that returns after the first peer (`:626`), data of a channel that
enters a session being destroyed (`:604`), reports encrypted before their mutex is made
(`core5/yangutil/sys/YangSRtp.c:105`) and that mutex kept when encryption fails (`:89`),
two threads in one mbedTLS context (`core5/yangssl/YangDtlsMbedtls.c:182`), peers removed
only while media is queued (`cpp5/yangp2p/YangP2pRtc.cpp:421`), a timer stopped after what
its task uses is gone (`:129`), and the run length of a TWCC chunk that falls below zero
(`core5/yangrtc/YangRtcTwcc.c:64`).

