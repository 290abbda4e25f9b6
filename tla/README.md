# A TLA+ model of catlink

catlink is a fork of Xpra, "screen for X": a server keeps the windows of
applications, clients attach to it and show them.  The server watches the windows
for damage, grabs and compresses what has changed and sends it as `draw` packets;
the client paints them and acknowledges each one.  Clipboards are joined, files are
sent, and several clients may share a session or take it from each other.

Nearly everything that is hard happens between threads and ends: the GLib main loop (UI
thread), one encode thread per client, a read, a parse, a format and a write thread per
connection, the other end, the X server and its applications.  This directory models the
parts of the code in which they meet, checks them with TLC on small instances, and
proves the main facts about most of them with TLAPS for every value of their constants.

## Inventory

| component | state | operations | interacts through | what is hard | correct when |
|---|---|---|---|---|---|
| mmap pixel area (`net/mmap/io.py`, client `backing.py`, `subsystem/window.py`) | two shared indexes, pixel buffers in flight | `mmap_write`, `mmap_read`, the release by the UI thread | shared memory; chunk lists in `draw` packets | two processes, three threads, no lock; boundaries of the ring | no buffer is overwritten before it is painted; nothing leaks |
| damage pipeline (`server/window/compress.py`, `video_compress.py`, `perfstats.py`) | one delayed region, five GLib timers, sequence numbers, pending acks and encodes | damage, refresh, suspend, resume, map, unmap, cleanup; timer callbacks; `make_data_packet_cb`; `damage_packet_acked` | encode queue, `idle_add`, attributes shared between three threads | acks that never arrive, timers that overlap, cancellation in mid-encode | every region is sent or dropped in the end; no timer strays; nothing is encoded after the window is gone |
| socket output (`server/source/client_connection.py`, `net/protocol/socket_handler.py`) | two packet lists, an event, a lock, a queue of one place | `send`, `queue_packet`, `next_packet`, format and write loops, `close`, `clean`, `flush_then_close` | the event, the lock, the queue | lost wakeups, close at any point, a peer that does not read | order, no loss, the disconnect packet last, threads end |
| encode thread (`client_connection.py`, `factory.py`) | work queue, the `queue_encode` attribute, at-end calls | `call_in_encode_thread`, `start_queue_encode`, `encode_loop`, `close` | the queue; cleanup of the subsystems | racing starts, resources freed while calls that use them are queued | one thread, resources freed last, all mandatory calls run, the thread ends |
| socket input (`socket_handler.py`, `header.py`) | buffers, header, raw parts, read queue, size limits | `_io_thread_loop`, `_read_parse_thread_loop`, `check_eof`, `close`, `steal_connection` | queue, timers | fragmentation at every byte, limits, end of stream against a full queue | each packet delivered whole, once, in order; good input never refused; both threads end |
| requests for the peer's clipboard (`x11/selection/proxy.py`, `clipboard/timeout.py`, `clipboard/core.py`, `server/subsystem/clipboard.py`) | requests of applications, outstanding ids, timers, cached token | selection requests, tokens, contents, timeouts, change of peer, `client_reset` | packets, network thread and main loop | replies against timeouts, duplicates, tokens in between, peers that change | each application answered once, by something timed, not with stale data |
| reads of the local selection (`x11/selection/proxy.py`) | epoch, reads by target, incremental transfers, timers | `get_contents`, property and owner events, timeouts | X server, applications | events that lag behind the server, one property for several reads | each callback called once, never with data older than what is known |
| tokens for the local selection (the same) | offer-id and what it was for, cached targets | `do_owner_changed`, `schedule_emit_token`, `offer_metadata`, `got_token` | the reads above, the peer | the selection changes between the steps | the last copy is announced; a token is about one copy |
| client sharing and projection ownership (`server/base.py`, `core.py`, `catlink_ownership.py`) | connected clients, owner, retired projections | hello, detach, toggles, disconnect, connection lost, exit-with-client | hello packets, `idle_add`, network threads | the order of hellos, losses and queued calls; a bounded memory | an unshared session is its owner's; a superseded projection stays out |
| file transfer (`net/file_transfer.py`) | pending questions, transfers in progress at both ends, files on disk | ask, answer, send, chunk, ack, cancel, timeouts, cleanup | packets; network thread against main loop | cancellation and timeouts against chunks and acks on their way | the ends stay in step; a processed file is whole; slots are freed |
| Catlink clipboard bridge (`clipboard/catlink_bridge.py`, `gtk/clipboard.py`) | the peer's offer by generation, what was claimed, requests, responses, batches of files; who owns the selection | tokens, contents, claims, pastes, idle callbacks, the reader thread, owner changes | the peer, a broker over a socket, GTK and its callbacks | pastes that run the main loop; own and foreign owner changes; answers for earlier offers | local copies reach the peer, its own do not; a paste ends and is of its offer |
| Ping, child reaper, background worker, handshake, proxy, websocket | tables of timers and pending items, subprocesses | – | packets, signals, queues | timeouts against late answers | not modelled |
| the rest (codecs, toolkits, platform code, command line, audio, heuristics) | – | – | – | – | not modelled, see the end |

`PROJECT.json` has the complete list of components, and under "hazards" what in this
code is hard to test, each at its line.

## Modules

Each component module declares its constants with a named assumption, its state as
variables, one action per handler or per stretch of code that runs without another
thread being able to interfere, and its properties at the end.  Operators called
"mutant" in their comment are faulty variants of the operator that follows them: they
are not used by the specifications, they show that a property can fail.

### MmapRing

`dataStart` and `dataEnd` are the two 32 bit indexes at the start of the area.
`mmap_write` is two actions, because the client can move `data_start` between the
moment it is sampled (`WriteBegin`) and the copy (`WriteEnd`): the chunk layout is
computed from the sampled value.  `WriteFull` is the refusal.  `drawPackets` is the connection;
the client's draw thread either makes a zero-copy buffer (`ReadZeroCopy`, released by the
UI thread: `UIRelease`), joins a split buffer (`ReadCopy`, released at once), finds that
the window is gone (`DrawWindowGone`, `draw_cleanup` via `idle_add`) or fails
(`DrawError`).  `filled`, `overtook` and `leaked` are history variables: they name the
three events after which the properties need not hold.  The data itself is not modelled:
a buffer is intact when no other buffer in use has one of its bytes.
Servers started with backwards compatibility switched off send no chunk list in the
place where `draw_cleanup` looks for it; that setting is not modelled.

### WindowSource

One window of one client.  All attributes are in the record `ws`; each method is an
operator from a record to the set of records it may leave, under the name it has in the
source, and the actions apply them.  Clock readings, batch delays, quality decisions and
pixel counts appear as choices between the outcomes.  `armed` has the timers whose
attribute is not zero, `sources` counts the GLib sources that really exist, so that a
timer started twice shows up as a stray.  `turn` flips when a region is taken or dropped,
to tell one region from the next.  The ack handler runs in the network thread in two
steps, `AckBegin` (everything up to reading `_damage_delayed`) and `AckEnd`.

Left out: the branch of `expire_delayed_region` for a timer that fires early (GLib does
not); auto-refresh (nothing calls its scheduler at this commit); the av-sync encode queue;
the stream path of `do_damage`; `direct_queue_draw`; more than one image per send.

### OutputPath

Producers append to one of the two packet lists and then set the event (two steps:
`QueuePacket`, `source_has_more`).  The format thread's program counter follows
`write_format_thread_loop` and `add_packet_to_queue`: check `_closed`, wait, take a
packet, clear the event, encode, lock, look up the queue, put.  The write thread: check,
look up the queue, get, write.  `close()` is `CloseBegin` (flag, event, new queue),
`CloseDrain`, `CloseMark`, then `Clean` from the main loop.  `flush_then_close` is a
chain of timers in the main loop; it writes the last packet in three steps, since other
threads may close the connection meanwhile: the queue is found empty and the write thread
started (`FlushLast`), the queue is looked up (`FlushFetch`) and the packet is put there
(`FlushPut`), which blocks the main loop while that queue is full.  An encoder that raises
leaves the lock taken (`FlushRaises`).  Whether the producer said that it will have more is
a choice when the packet is taken.  The test and the setting of `_closed` are one step.
`send_now`, compression and chunk headers are not modelled; the flush always has a last
packet, as both callers give one.

### EncodeQueue

Callers read the `queue_encode` attribute, then call what they found: both steps are
actions, as is the put under the lock.  `close()` cleans up the subsystems in any order
(the code's order is one of them), then stops the thread.  A cleanup that raises leaves
`stage = "failed"`.  The main loop is not alone in queueing calls that must run: the network
thread drops a window's video encoders when the client reports a decoding error or changes
its encodings, and their cleanup is such a call (`CallInEncode`, kind "clean").  Queued after
all the subsystems have been cleaned up it may come behind the end marker; it is then of kind
"late" (`AsQueued`), which the properties except and NoneTooLate shows.

### ClientSharing

The connections have been made and have sent one hello each; an authentication thread
hands it to the main loop with `idle_add`, and `Protocol.close()` reports the loss of the
connection the same way: `idle` is the main loop's queue, in order.  `options` are the
server's sharing, lock and exit-with-client options, which never change.
`HelloRejected`, `HelloDetach`, `HelloRefused` and `HelloAccepted` are the ways in which
`hello_oked` and `handle_sharing` can end; their conditions (`Rejected`, `Exiting`,
`SharedWith`, `Replaced`, `Fencing`) have the code's order of precedence.  What follows an
accepted hello, up to the moment the client is in `_server_sources`, is a separate action
(`Register`), because the network threads run in between: connections close, clients
disconnect, turn sharing or the lock on and off.  `accept` is the bounded memory of
retired projections.  `owners`, `superseded` and `refused` are history variables.

A lost client is taken out of `_server_sources` and `last_client_exited` is queued in one
step; the same holds for the loop over the clients in a toggle.  The loss of a connection
that is not a client and cannot become one changes nothing, and is left out (`Concerned`).
Not modelled: the other hello requests, a second hello on a connection (it is ignored),
shutdown by signal or request, and what the subsystems do for a client.

### ClipboardRequests

The server's X11 proxy of one selection, the helper and the clients that can be the clipboard
peer.  An application's `SelectionRequest` is answered at once, from the cached data, joins
those that wait for the same target, or makes `_send_clipboard_request_handler` send a request
with an id and a timer.  The request of an application that is not to have the clipboard
(`BLOCKLISTED_CLIPBOARD_CLIENTS`) is `Ignored`: the log says "responding with nodata", but
nothing is sent, so that AnsweredOnce says of such a request that it is never answered, and of
the others that they are, once.  A packet of the peer is checked in the network thread (`Arrive`, into
`inbox`) and processed by the main loop (`ProcessToken`, `ProcessContents`, `ProcessEnable`),
between which the peer may change (`PeerGone`, `TakeClipboard`, `LastClientExited`).
`client_reset` is part of the actions that call it; `resets` counts and bounds it.  A copy is
a client and a number: since the packets of a client are ordered, a reply carries the copy of
the last token before it, so that `Answer` can tell whether what an application is given is
older than what had been announced when it asked. `DtypeOf` is the loop of `got_contents`,
with its variable that keeps what the first application was translated to.

### X11Reads, LocalReads

`X11Reads` is `get_contents` with its environment: the X server, which changes owners and
properties at once, and applications that convert at once, in parts or never.  The proxy
hears by events (`queue`) and reads what the property has by then.  Properties are named
for an epoch and a target, as in the code; `requests`, `timers`, `incr` and `stalls` are
`local_requests`, their timers of 100ms, `incr_data` and its timers of 1s.  `stalls` also
keeps which timers of 100ms were armed before, which therefore fire first.  The part of a
content says which copy and which conversion it is from.

`LocalReads` is what the callers of `get_contents` may rely on: a read ends once, without
data, or with data no older than the copy that the proxy has been told of, and ends.
`X11Reads!Promise` is the refinement mapping: a read is pending from its call to its
callback, and the age of its data is that of its oldest part.

### X11Offer

What is done with these reads: `do_owner_changed`, `schedule_emit_token` with its chain of
reads (targets, file list, chosen target) and `offer_metadata` with the offer-id.  A read is
one step that ends with nothing or with something no older than the known offer: this is
LocalReads, so that X11Offer is composed with X11Reads by its promise.  An offer is what an
application publishes at one time; a file manager may publish the image of a file it has
copied later, as another offer of the same content (`AppExpands`).  `NewOffer` is the code's
condition for a new offer-id.  A token of the peer takes the selection if it is greedy and the
proxy can receive (`claim`, `CanReceive`); any other token still ends the reading that goes
on (`GotToken`).  The peer may disable the clipboard and enable it again
(`EnableSelections`); owner events are ignored meanwhile.  `missed` is the history of both:
a copy whose event was ignored, or whose reading was ended by a token that left us the
owner.  X11Reads only has the tokens that take the selection: the others end its reads and
begin an epoch, as an owner event does.  `_can_send` is taken to be true and the
greedy flag of our own tokens not to change while the connection lasts.  The delay that
merges tokens and the origin of a token are not modelled.

### FileTransfer

Both ends and the packets between them.  Handlers run in the network thread of their end,
timers and the user in its main thread, so that the handlers of acks and chunks are
several steps (`ProcessAck`, `SendNext`; `ProcessChunk`, `WriteChunk`, `FinishChunk`,
`CompleteChunk`), each of which works with the transfer that it looked up, while the main
thread may cancel it, close and delete its file, or forget it.  `FinishChunk` makes the last
test of `cancelled`; `CompleteChunk` asks for more or processes the file and tests nothing.
`late` has the files that are cancelled between the two (`LastTested`).  `sending` and `receiving` are the
`SendChunkState` and the `ReceiveChunkState` of each file with where they are: new, asked
for, listed (in `send_chunks_in_progress`, `receive_chunks_in_progress`) or over.
`CancelFile` keeps a cancelled transfer in the list until `clean_receive_state`.
`Raise` is an exception in a handler, which ends the connection
(`lost`).  A file is a set of chunks with an order; a file that is smaller than one goes in
the first packet.  The sizes and digests are those of an honest sender.  A file is sent
once, with an id of its own.

### SocketInput, PacketChannel

The other end sends one of a set of streams, a byte being its position in the stream, so
that a lost, repeated or misplaced byte shows.  A stream is noise and then frames, each with
a place and a length; `Layout` says what `encode` gives: frames and packets follow one
another, and a packet's parts come before its main frame, one for each index.
Over ssh, everything before the first header is skipped, and `find_xpra_header` looks for
the header among bytes: it sees one wherever eight bytes look like the header of a main frame
of less than 64KB.  `looks` has the places where it would: the start of each such frame
(below `MaxFirstSize`), and any other place where the bytes happen to look like one.  What the
channel needs over ssh is what the comment in the code asks for, "that the initial packet is
smaller than 64KB", and that nothing before it looks like a header; `Layout` assumes both, for
ssh only.  Without the first the hello would be skipped, without the second the noise be
taken for a packet and the connection closed.  Reads return any number of bytes.
`read_buffers` is its bytes in order (`unparsed`) and where each buffer ends (`cuts`).
The parse thread is `GetBuffer`, `ReadHeader`, `TakePayload`, `ParseRaw`, `ParsePacket`
and `HandlePacket`, as `do_read_parse_thread_loop` is: with buffers of several reads joined for a payload,
the rest of the last one put back, raw parts kept until the main part comes, the size
checked at once or a second later.  `_closed` is tested before the packet is put together
(`ParsePacket`, which counts in `parsed`) and not again before `process_packet_cb` is called
(`HandlePacket`, `handled`), so that close() of another thread fits in between.  The
limits are constants: those of the hello, and those that `set_max_packet_size` or
`accept_client` puts in their place (`RaiseMaxSize`), once.
`HangUp` is every refusal.  `CloseNow` is `close()`, which swaps the queue under the
threads, and `check_eof` the two timers that tell the end of the stream from an empty read.

`PacketChannel` is the promise: packets arrive whole, once, in order, and all of them
unless the connection is closed.  None is taken from a closed connection; one that was taken
before may still be handled (`Take`, `Handle`).  `SocketInput!Channel` is the refinement mapping.
Encryption, decompression and decoding (which refuse a packet or give its content), the
RFB upgrade and pre-read data are not modelled.

### CatlinkBridge

The clipboard of a GTK client on X11 with a broker.  The peer's copies and those of local
applications are numbered.  A token is handled by `PlainToken` or `ManagedToken`, by whether
it has targets that the bridge serves: with `InvalidateNative` or a new generation, `Claim`,
and the requests to the peer, which remember the generation they are for.  `provider` is what
GTK serves pastes from, `claimed` what the bridge believes it has claimed, `nativeOwner`,
`textOwner`, `localOwner` and `embargo` how `OwnerChanged` tells a local copy from our own.
`clears` are the idle callbacks of `_schedule_native_clear`.  Contents go to `inline`, or to
the broker's `store`; files as a batch of a thread (`TakeBatch`, after its test under the
lock, and `SendBatch`).  The thread may raise in both: `urlsplit` on a malformed URI, `_send`
for a list of files that is longer than a header may be (1 MiB).  The broker is then told
neither of files nor that there are none (`FilesForgotten`).  The reader thread tests a response and stores it in two steps.
`Paste` is the begin of `get_data` and `PasteReturns` its end: calls that run the main loop
are a stack, of which the top returns, with everything else possible meanwhile; `EmitToken`
ends such a call too, `wait_for_targets`.

While we take the selection an application may take it just before, so that GTK fails, or just
after (`Races`).  A token is handled as it arrives.  The embargo does not expire:
`OwnerChanged` may find it over at any time.  Not modelled: HTML targets, peers that send no
offer-id (told apart by a fingerprint), the macOS and Windows providers, PRIMARY, which the
bridge refuses, the wait for the text of greedy clients (`wait_for_text`, which follows
`wait_for_targets` for them), and sending to the broker that fails before the reader has noticed.

### Proof modules and MC modules

`X_proofs` has the theorems about `X`.  `WindowSource_proofs` has those about MmapRing too,
the area that the pixels of a window go through, and `OutputPath_proofs` those about
EncodeQueue, the other thread of a client connection; this is why MmapRing and EncodeQueue
name their own `RingInit`, `RingNext`, `RingSpec` and `EncodeInit`, `EncodeNext`,
`EncodeSpec`.  `MCX` instantiates it for TLC; the `.cfg` files give the constants.

## Runs

| run | checks | shows |
|---|---|---|
| mmap_ring | InsideArea, NoOverwrite, DrainedIsFree | the ring is safe except in the two cases below |
| window_source | RegionHasTimer, NoStrayTimer, EncodingPendingIsBusy, GoneMeansDrained, RegionIsSent | no region waits for ever, with no help from client or encode thread; no timer or frame outlives the window |
| output_path | NoneLostOrSwapped, LastIsLast, FlushCloses, ThreadsStop | order and no loss; the disconnect packet is last; a flush closes the connection, whatever the peer does, unless its packet cannot be encoded or another thread's close() leaves the main loop in `put()`; the threads end |
| output_path_wakeup | QueuedIsSent, violated | a lost wakeup |
| encode_queue | OneEncodeThread, AtEndIsLast, EndedMeansAllRun, EncodeThreadEnds | life and end of the encode thread; what must run does, but for encoders dropped after the subsystems |
| client_sharing | FenceSound, NeverReclaimed, OwnerIsSession | the memory of former owners is consistent and does its work; an unshared session is the owner's |
| clipboard_requests | AnsweredOnce, WaitersHaveTimer, FreshAnswer | replies, duplicates, timeouts, tokens and changes of the peer: one answer for each request that is not ignored, timed, not stale |
| catlink_bridge | LocalCopyAnnounced, NeverEchoed, RetiredIsReleased, FreshPaste, PasteEnds | the last local copy is announced, our own never; a retired offer is released; pastes end, unless the thread for their files has raised, with nothing older than their offer |
| x11_reads | CalledOnce, ReadsImplementPromise | one callback per read; the reads implement LocalReads |
| x11_offer | QuietMeansAnnounced, TokenOfOneOffer, TokenOfLocalOwner, OneContentPerIdUnlessOdd | the last copy is announced, unless its event or its reading was dropped (`missed`); tokens do not mix copies; ids tell contents apart |
| file_transfer | InStep, ProcessedIsWhole, AllSentIsProcessed, SlotsFreed | the ends stay in step, files are whole unless cancelled after the last test, slots are freed |
| socket_input | OnlyBadInputRefused, InputImplementsChannel, EofClosesAll | however reads cut the stream: SocketInput implements PacketChannel; the end of the stream ends all |

The type invariants are not among the properties of the runs: that of each of these modules
holds in the configuration of its run, and is a theorem.

### The listed violation

`output_path_wakeup`: the event is cleared after `next_packet` has looked at the lists.  A
packet queued between the two stays there until the next one is queued.  Pings and
acks make that soon in practice.

### Further counterexamples

These properties are violated.  They are kept for reading and are not among the runs of
`PROJECT.json`.  A configuration of their own is for them alone (MCClientSharingExit has
two: use `-continue`); the others are checked in place of the properties of the
configuration that is named:

| configuration | property | shows |
|---|---|---|
| MCMmapRing | NoOverwriteWhenFilled | `size > available` refuses only what is larger than the free space; after a write of exactly that size `data_end = data_start`, or 8, which also means empty |
| MCMmapRing | NoOverwriteWhenCopied | the space of a split buffer is freed in the draw thread, ahead of zero-copy buffers before it, which the UI thread has not painted |
| MCOutputPathPut | PutReturns | the format thread has looked up the old queue, `close()` empties it and puts the marker there, the write thread leaves because `_closed` is set: `put()` has no one to wait for (a daemon thread) |
| MCOutputPathLock | LockIsFreed | the connection is lost while `flush_then_close` waits with the lock; `clean()` sets `_write_lock` to None and nothing releases the lock itself |
| MCOutputPath | FlushReturns | the main loop has looked up the queue in `raw_write`; the read or the write thread runs close(), which replaces the queue, empties the old one and puts the marker there: the main loop's `put()` waits for a write thread that has ended |
| MCEncodeQueue | NoneTooLate | the network thread drops an encoder (a decoding error in an ack) once the subsystems have been cleaned up: its cleanup is queued behind the end marker and never runs |
| MCClientSharingShared | SupersededStaysOut | A (the owner) and B share, C takes over from both: A is retired, B never was the owner and is not; its reconnect replaces C |
| MCClientSharingGhost | ServerExits | the connection closes while its authentication thread runs; the loss is handled first, the hello after it, and no second loss follows |
| MCClientSharingToggle | PairwiseShared | `handle_sharing` reads that the connected client shares; it turns sharing off, which disconnects everybody in `_server_sources`; the new client is added after that |
| MCClientSharingLock | LockHolds | `is_existing_client` is true if any client has the newcomer's uuid; the check of the lock is skipped for all of them |
| MCClientSharingExit | ExitOnlyWhenEmpty | the last client goes and `last_client_exited` is queued behind a hello, which is accepted before the server terminates |
| MCClientSharingExit | RefusedMeansExit | A is replaced under exit-with-client and the new client turned away, but a tool (a client without windows) is left: the server stays, unused |
| MCClipboardRequests | ResetTimesOut | `client_reset` replaces the table of outstanding requests by an empty one, looks its requests up in it, "timeout all pending requests", and finds none: nobody is answered, the timers find nothing when they fire, and `remote_requests` makes those that ask for the same target later "already waiting" too (hence WaitersHaveTimer holds only as long as there was no reset) |
| MCClipboardRequests | TypeAsAsked | the loop of `got_contents` assigns the variable that it tests: an application behind one that was translated gets the other's type |
| MCX11Reads | OneConversion | a read joins after the one that started a conversion has timed out and starts another on the same property |
| MCX11Reads | WholeContent | the parts of two such conversions are put together |
| MCX11Offer | OneContentPerId | a read that overtakes the owner event, or a token without targets, gives two contents one id |
| MCX11Offer | AlwaysAnnounced | a token that does not take the selection ends the reading of a local copy, or its event comes while the clipboard is disabled: nothing reads again until there is another copy |
| MCCatlinkBridge | PasteAlwaysEnds | the thread that offers the files to the broker raises; the paste of those files waits without a timeout ("Failure is an explicit empty response", says the comment) |
| MCCatlinkBridge | AnnouncedWithoutBroker | the connection to the broker is lost; `clear_data` calls `invalidate_native`, which returns because the proxy is not accepted; `is_claimed` stays true and `do_owner_changed` ignores every local copy from then on |
| MCCatlinkBridge | AnnouncedIsCurrent | `wait_for_targets` runs the main loop, in which a later copy is announced; the token for the earlier one follows it |
| MCFileTransferShort | ProcessedIsWhole | `os.write` may write less than it was given; the size that is compared is what was received |
| MCFileTransfer | ProcessedIsThere | the user cancels after the handler's last test of `cancelled`: the file is deleted, then processed |
| MCFileTransferInFlightCausesNoError | InFlightCausesNoError | a chunk for a transfer that has timed out finds no state and raises: the connection is lost |
| MCSocketInputSteal | StealLosesNothing | what is still in the read queue when the connection is taken over is lost |

These are violated there too:
TokenOnlyIfLocal and CacheOfLocalOwner in MCX11Offer (a bare token needs no owner; a late
reply for the peer's targets is cached for a local owner), NoFileLeft and
PendingAwaitsResponse in MCFileTransfer (a timeout leaves an incomplete file; an answered
question stays in `pending_send_data` and counts against the limit), and, with
`Spec`, MaxSoftExpired = 1, the three switches FALSE and MaxSequence = 4,
MergeFindsTimer in MCWindowSource (the state that `do_damage` logs as a bug is reachable,
and harmless: the region has its timeout timer all the time, as RegionHasTimer shows).

## Bounds

* MmapRing: 12 bytes after the header, buffers of 2, 3 and 7 bytes, 3 buffers in flight.
  Two small buffers and a large one make every branch of `mmap_write` happen (ahead, start
  again, split, full, exactly full), three in flight are needed for a write that laps one.
* WindowSource: one frame (MaxSequence = 2), 2 expire timers, 1 idle call, soft expire
  limit 2.  A frame may be encoding, unacked or lost while a region is delayed behind it;
  timers of an earlier region meet a later one.  Liveness makes more frames costly; the
  theorems hold for any number.
* OutputPath: 2 packets and the last one fill the write thread's hand, the queue and the
  format thread's hand; one retry of the flush.
* EncodeQueue: two callers, three subsystems, 3 items.
* ClientSharing: 3 connections, each with one of four hellos and a server with one of four
  sets of options (4 connections in MCClientSharingShared, whose story has four launches;
  2 where two suffice).  Limit 1 lets the memory overflow with three launches; the
  theorems hold for every limit.  One toggle is enough to change an agreement.
* ClipboardRequests: two applications, two clients, a text target that can stand for
  another, 2 requests, 2 copies, one packet between the threads, 2 changes of the peer
  and 2 resets: with them a queued `last_client_exited` runs after another client has
  come, and two applications meet in one request under translation.
* X11Reads: 2 reads, TARGETS and one more target, contents of one part plus the INCR header and
  end (2 parts in the further configurations), 2 copies, 1 token, 3 events waiting.  Two
  reads are needed to share a property or to be on either side of an owner change.
* X11Offer: 2 applications, 3 offers, one token of the peer (of either kind) or one
  disabling, 2 owner events waiting: three offers are a copy, the image of it and another
  copy.  Applications copy text or files (`Copied`), and publish images later.
* FileTransfer: two files of 2 chunks (each after the other's slot: one at a time), one small
  file, questions about one of each, one cancellation, errors of the disk.  The theorems hold
  for any number of files and chunks.
* SocketInput: header of 2 bytes, reads of up to 3, queue of 2 buffers, payloads of 1 to 5,
  one empty read; eight streams (raw parts; noise with and without ssh; too many parts; an
  index too high; a packet too big until the limit is raised, and for good; an empty part).
  `MaxFirstSize` is 2: payloads are on either side of it, and bytes that look like a header
  without being one are in the frames whose own header does not.
  A header and a payload are cut at every offset.  The theorems hold for every stream that
  `Layout` allows, and any sizes and limits.
* CatlinkBridge: 2 copies at the peer, 1 further phase, 2 local copies, 2 pastes, of these
  and the loss of the broker 3 in all; tokens of four shapes (an image that is a file too,
  files announced as text, text, nothing).  The safety properties also hold with 4 in all
  (3.9 million states).

Connections, clients, applications and windows are interchangeable where their
configuration says SYMMETRY; no liveness is checked with it, and the action properties
and invariants checked there treat them alike.  Deadlock checking is off where the
system may stop: a closed connection, a cleaned up window, all requests or files used up.
It is on for MmapRing.

## Fairness

* WindowSource `FairSpec`: the main loop runs expire, soft and timeout timers that stay
  due.  The client, the network and the encode thread may stop.
* OutputPath `FairSpec`: threads run, timers fire, a lock is handed over, the main loop
  runs its idle calls.  A write may block for ever.  `ReadingPeer` adds that it does not,
  so that the lost wakeup is not blamed on the peer.
* EncodeQueue `EncodeFairSpec`: callers finish their call, the encode thread goes on, each call
  it runs returns, a close that has begun goes on (it may fail).
* X11Reads `Spec`: the timers of the reads fire; nothing is asked of the applications.
* FileTransfer `FairSpec`: timers fire, and a thread that has begun to handle a packet goes
  on with it.  Whether packets arrive is up to the network and the other end.
* SocketInput `InputFairSpec`: the threads and the main loop go on; the other end may stop.
* CatlinkBridge `Spec`: the main loop handles events, requests time out, waits that may end
  do when they are on top of the stack, threads go on, and the broker answers a request
  for what it has been given or told to be missing.  The peer may never answer.

The other modules have no liveness property, and no fairness.

## Proofs

Each theorem assumes the named ASSUME of the module it is about, and nothing else.  Every
proof has the same shape: none of the properties is inductive, so an invariant that says why
it holds is proved to be kept by each action.

* `WindowSource_proofs`: TypeCorrect, DelayedRegionHasTimer (RegionHasTimer), TimersNeverStray
  (NoStrayTimer), SoftExpireCountBounded, NothingStaysPending (EncodingPendingIsBusy),
  DrainedBeforeGone (GoneMeansDrained).  `Good` is `Sound` (for soft, timeout and
  may-send timers the count of sources is 1 exactly when the attribute is set; a set timeout
  attribute implies that there is a region and that the timer is its own) and `Timed` (a
  region has a timer).  The last part of `Sound` is what makes the timeout branch of
  `expire_delayed_region` correct: it starts no second timer if there is one, and so
  relies on the one that it finds being this region's.  The methods are proved one
  by one to take a good record to good ones; a step only combines them.
  The last two rest on `DrainInv`: the end marker that cleanup puts in the encode queue is
  the last entry that the queue ever gets, because from then on the window is retired and
  has no region that could be sent; ui_cleanup runs when the marker has been taken.
* `ClientSharing_proofs`: TypeCorrect, FenceIsSound, OwnersNeverReclaim, SessionIsOwners
  (OwnerIsSession).  `FenceInv` adds that the list of
  retired projections is exactly the latest former owners, so that a candidate that is not
  in the set is none of them.  Without the test in `handle_sharing`, `accept` itself would
  not keep the list and the set in agreement.  For OwnerIsSession, `OwnerShown` counts the
  client that is accepted but not yet added as connected, and `KnownAreDone` says that no
  client, and no hello in the queue, is of a connection whose capabilities are still to come.
* `ClipboardRequests_proofs`: TypeCorrect, WaitersAreTimed (WaitersHaveTimer),
  AnsweredExactlyOnce (AnsweredOnce), AnswersAreFresh (FreshAnswer).  `Types` adds that replies
  carry the ids of requests that were sent; `TimerInv` adds that timers are those of such
  requests, so that the timer of a new request is none of the others', and a request leaves
  the table only together with those who wait for its target; `OnceInv` adds that an
  application waits for one target at most, and only once it has asked and was not ignored.
  `FreshInv` is for
  the last: the packets of one client arrive in the order of its copies (`InOrder`), and what
  the proxy has seen of a client is not newer than anything of that client which is still to
  come, so that contents in an inbox are fresh enough for everyone who has asked before.
* `WindowSource_proofs`, about MmapRing: RingTypeCorrect, BuffersInsideArea (InsideArea),
  DrainedAreaIsFree (DrainedIsFree), LiveBuffersIntact (NoOverwrite), for an area of any
  size.  That buffers stay inside rests on the size that `mmap_write` has tested: `data_end`
  does not move while the writer holds what it read of `data_start`, however far `data_start`
  has moved since.  That the drained area is free rests on where the latest buffer ends,
  wherever it is on its way.  NoOverwrite measures every place from `data_start`, in the
  direction in which the server writes: the live buffers follow each other, oldest first, none
  past `data_end` (`RingInv`); what is written begins there and does not get round to
  `data_start`, because the `data_start` that the writer has read is further away than where
  it has got to since.
* `X11Reads_proofs`: ReadsCalledOnce (CalledOnce), and ReadsImplement: every step of X11Reads
  is a step of LocalReads or changes nothing it speaks of.  The proxy hears of another copy
  in the step that begins a new epoch and ends every read; conversions of an earlier epoch
  write to properties that nobody looks at any more.  So there is a floor under the age
  of whatever a property of the present epoch can hold.  ReadsTypeCorrect adds `Typed`, what the
  bounds give: a conversion writes its parts in order and no more of them than there are
  (`Progress`), so that every part that is stored, collected or delivered exists.
* `OutputPath_proofs`, about EncodeQueue: OneThread (OneEncodeThread), FreedAfterLastUse
  (AtEndIsLast), AllRunBeforeEnd (EndedMeansAllRun).  The calls have ranks: those that must
  run first (1), the calls for the end (2), the marker (3).  The call that runs, the queue and
  the call that the main loop is about to make are sorted by rank, whatever others queue
  meanwhile: calls that are optional, and cleanups of encoders, which count as rank 1 until
  the last subsystem has been cleaned up, when nothing of a higher rank has been queued, and
  as late from then on.  EncodeTypeCorrect adds `Counts`:
  the calls for the end are no more than the subsystems cleaned up so far that have one (the
  subsystems are finitely many: they are the base classes of the connection).
* `OutputPath_proofs`: TypeCorrect, DisconnectIsLast (LastIsLast), PacketsKeepOrder
  (NoneLostOrSwapped).  From the moment it has
  the write lock, `flush_then_close` keeps it until it has closed the connection, so that
  the format thread, which puts packets with the lock held, puts none behind the last one.
  For the order, `FlowInv` goes through five places, from what is sent back to the lists of
  the producers: the packets of one place are before those of the next, and a step moves a
  packet from the front of a place to the end of the next.
* `FileTransfer_proofs`: TypeCorrect, ProcessedWhole (ProcessedIsWhole, unless writes can be
  short without an error, which MCFileTransferShort shows to be needed), EndsInStep (InStep),
  SentIsProcessed (AllSentIsProcessed).  A file is asked
  for, offered and opened once: of its request, its question, its answer and its first
  packet there is at most one, and none once it is being received (`Asked`).  And a
  file that is being received, and has not been cancelled, has on the disk exactly the
  chunks that were counted, also between the steps of a handler (`Received`); after the last
  test, that or the file is in `late`.  And the ends
  take turns (`Turns`): of the file, its chunks and its acks there is one at most, on its way
  or in the hands of a thread, and the counts of the ends differ by one exactly while a
  chunk goes down.
* `CatlinkBridge_proofs`: TypeCorrect, LocalCopiesAnnounced (LocalCopyAnnounced),
  OwnOfferNeverEchoed (NeverEchoed), RetiredOfferReleased (RetiredIsReleased), PastesAreFresh
  (FreshPaste).  With a broker, a claim, what GTK serves and the generation are of one offer
  (`ClaimInv`); what we have put in the selection is marked as ours (`OwnInv`), which is why
  it is not echoed, and a clear event that GTK would heed implies that the selection is
  another's (`Clears`).  For the local copies, `FreedInv`: whoever has taken the selection
  from us, a change of owner is no longer hidden by the time that the last event is handled,
  because the claim is gone already or a clear event for it is in the queue; and `ToldInv`:
  the present owner has been announced, is being announced, or has a change event that comes
  after that.  For the pastes, `FreshInv`: what is held of an offer, or is on its way with
  its generation, is of the copy that it was announced with or of a later one.

* `X11Offer_proofs`: TypeCorrect, QuietIsAnnounced (QuietMeansAnnounced), TokensDoNotMix
  (TokenOfOneOffer), TokensOfLocalOwner (TokenOfLocalOwner), IdsTellContents
  (OneContentPerIdUnlessOdd).  `QueueInv`: the last event that waits says who the owner is and
  which offer is its latest, so that `QuietInv` holds when it has been handled: the proxy
  knows of that offer, and has told the peer of it or is reading what it will tell it, or
  the copy is `missed`.
  `ReadInv`: a reading is of a local owner, and what it has gathered is of the present offer
  or of a later one, because what changes the offer ends the reading.  `IdInv`: what
  `offer_metadata` compares with is what was sent last, unless a token has come since; it
  keeps an id for the same event or for the same files, and files that are not odd are those
  of their offer.
* `ClientSharing_proofs`, about SocketInput: InputTypeCorrect, GoodInputAccepted
  (OnlyBadInputRefused), and InputImplements: every step of SocketInput is a step of
  PacketChannel or changes nothing it speaks of.  `Flow` follows the bytes: there is a
  frame f, the next that will be complete, such that the bytes that the parser holds, those
  in the queue and those in the hands of the read thread follow one another without a gap
  from the first byte of f that was not parsed (`AtFrame`, `Reaches`), until a close drops
  what is queued; the parts that are kept are those of f's packet before f, and what was
  put together is what comes before that packet, all handled but the last if that is in
  hand (`InPacket`, `HandledKept`).  So a header that is complete is
  f's, a payload is f's, and whatever is refused is a fault of f or of its packet.  `Flow`
  alone is not inductive: that the parser holds fewer parts than it refuses, or has ended,
  and that a size was noted only if it is over the limit, is `ParserInv`.

Only model-checked: everything that is liveness (fairness and ENABLED are outside the
prover), so also the liveness halves of ReadsImplementPromise and InputImplementsChannel.

## Not modelled

* The macOS and Windows halves of the Catlink clipboard bridge, which publish files from a
  thread and check the generation by polling; its HTML targets, which go the way of images.
* Ping, child reaper and background worker: small state machines (two timers and a list; a
  table polled on SIGCHLD; a queue with one thread like EncodeQueue's).
* The av-sync encode queue delays frames that the damage pipeline has grabbed; the video
  region detection, the batch delay, bandwidth and quality heuristics compute delays and
  choices that WindowSource leaves open.
* The handshake: digests and PAM are library calls; its end, `auth_verified`, is the
  first action of ClientSharing.
* The proxy server and the websocket and RFB protocols are framings or pairs of the socket
  handler that OutputPath and SocketInput model.
* Codecs, colour conversion, X11, GTK and platform bindings are native code or calls into
  libraries; command line, configuration, audio, webcam and printing are option parsing
  and wrappers around subprocesses.
