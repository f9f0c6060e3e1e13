# Mergence, specified

Mergence is a terminal multiplexer with many clients: one host process owns the
shells, browsers and desktop shells attach to them over WebSockets, leave, come
back and share control. This directory holds TLA+ models of the host and of the
browser client, the TLC configurations that check them on small instances, and
proofs that TLAPS checks for every instance.

Paths below are relative to the repository's root; `server/` abbreviates
`apps/server/src/`, `client/` `packages/yaade-host-client/src/`, `ghostty/`
`packages/ghostty-react/src/`, `app/` `packages/yaade-app/src/mux/`, and `ui/`
`packages/yaade-ui/src/`.

## 1. The system

```text
 browser                                   host
 window layout   tilings, panes            socket task        terminal owner (one each)
   | mux store   sessions, tabs            writer task        PTY, child, leases, replay
   v    ^                                     ^                ^        |            |
 panel  | multi-server client                 | frames, events | lanes  | output     | append
   |    v                                     |                |        v            v
 client API ------> web transport <=====> server.rs --> TerminalHost --> EventHub  history owner
   | output                                   |                                      |
   v                                          v                                      v
 output writer --> parser (worker)       mux runtime --> state store --> SQLite  archive files
                      |
                      v
                 frames, renderer
```

| Component | State | Operations | Meets others through |
|---|---|---|---|
| Terminal control, `server/terminal_control.rs` | writers, observers, primary, lease generation, remembered command ids | acquire, renew, release, release a connection, take over, transfer, authorise a mutation, list, purge by clock | called by the terminal's owner thread only; every mutation passes `authorize_terminal` (`server/terminal.rs:1412`) |
| Event hub, `server/event_hub.rs` | shared sequence, bounded history, broadcast channel, index of terminal subscribers | emit, emit terminal, subscribe, replay window, attach, detach | mutex; a broadcast channel to socket tasks; direct calls into mailboxes |
| Socket task, `server/server.rs` | snapshot sequence, attached terminals | hello, snapshot or replay, forward events, handle commands, close | select over socket and broadcast; starts and joins the writer task |
| Outbound mailbox and connection outbound, `server/outbound_mailbox.rs`, `server/connection_outbound.rs` | four lanes, byte counters, order numbers; per terminal flow credit, attach barrier and replay fence | enqueue per lane, pop, discard, attach, complete or fail it, acknowledge, close, stop, next | mutex; `tokio::sync::Notify` to the writer task |
| Terminal history, `server/terminal_history.rs` | byte budget, mailboxes, index of archive states; active segment, blocks and manifest on disk | append, close, flush, read a page; write, finalise, trim, recover | bounded channels to one history owner thread; readers on their own threads |
| Terminal host, `server/terminal.rs` | map of entries; per terminal a child process, lanes, status, replay ring | create, dispose, authorised dispose, mutations, exit, timed cleanup | one owner and one reader thread per terminal; replies over one-shot channels |
| Mux runtime and state store, `server/runtime.rs`, `server/store.rs`, `server/database_owner.rs` | sessions, tabs and terminals with revisions, persisted as a document (the catalogue) | create, restart, cancel, close, move, select, reorder, reconcile at start-up | store mutex, FIFO database thread, host calls, exit events |
| Device authentication, `server/device_auth.rs` | pairing codes and devices in the database; challenges, sessions and counts of failures in maps | pair, challenge, authenticate, use a session, exchange its token, revoke | a mutex over the maps; statements to the database between its critical sections |
| Transport, `client/web-transport.ts` | status, server epoch, last sequence, the current socket and its timers, pending requests | connect, accept, reconnect with a cursor, sleep and wake with the page, invoke over socket or HTTP | the WebSocket; status events to the client API |
| Client API, `client/create-yaade-api.ts` | per terminal a replay floor, buffers, resync flags | attach, page the archive, resynchronise, retry, acknowledge | the transport; data listeners of the panels |
| Multi-server client, `client/multi-server.ts` | connection objects, active server, scoped names and their owners | set and select servers, list, create, command, events | one client API per server; one facade for the panels |
| Mux store, `app/mux-store.ts`, `app/mux-client.ts` | indexed sessions, tabs, terminals with revisions; selection | fold events, listings and answers; optimistic closes; reconcile | the client API's events and answers; React subscribers |
| Output writer, `ui/panels/terminal-output-writer.ts` | pieces that wait, flood and gap flags | coalesce onto frames and microtasks, shed, replay, acknowledge | the panel above it, the parser below |
| Workers, `ghostty/worker/` | fair scheduler; per terminal a ring of updates, versions, visibility | schedule commands, present, recycle, recover | messages between page and worker |
| Surface and renderers, `ghostty/surface.ts`, `ghostty/renderers/` | frame and dirty flags, viewport model, rows and glyph atlas | frames, sizes, fonts, hiding, renderer recovery | the core's updates; the browser's frames, contexts, visibility |
| Panel, `ui/panels/TerminalPanel.tsx` | phase, pending input, size under way | attach, input, resize, status, exit | the client API; the surface |
| Panels and windows, `packages/yaade-panels/src/tree.ts`, `app/TerminalMultiplexer.tsx` | tiling, focus, zoom; saved layout | split, dock, close, zoom, create into a pane, save, adopt | the host's tab layout; other browsers |
| Desktop client, `apps/desktop-gpui/src/` | snapshot, views of running terminals, selection; subscriptions of the socket thread | hydrate, attach, apply events, create, close, select, resize | a thread for calls, a thread for the socket, one queue of events to the app |
| Resident surfaces, `ui/panels/terminal-surface-placement.ts` and the slots that mount them | which slot holds a terminal's surface | register, move, show, hide | desktop and mobile layouts |

What is hard about it, by kind; `PROJECT.json` lists each place under `hazards`:

- **Several writers on one shell.** Leases, takeovers and disconnects meet
  commands that are still on their way; a retried command must not run twice.
- **Two roads for one sequence.** Events and terminal frames share a counter,
  but frames go straight into the mailbox and events wait in a receiver.
- **Slow viewers.** Nothing may block the PTY, so every queue is bounded and
  must say when it dropped something; counters must not leak.
- **Wake-ups.** The writer task waits on a notification that producers send
  after they unlock, and the socket task waits for the writer.
- **Crashes.** The archive is four kinds of files that are written one by one.
- **Threads that finish late.** Disposal by a client, by a timer and by an
  evicting create race each other, time out, or fail to kill the child.
- **Two stores of truth.** The mux runtime updates a store and a host that can
  each fail alone.
- **Answers older than events.** The browser folds events, listings and single
  answers that overtake each other; a socket is replaced while requests are on it.
- **Pictures patched from differences.** Worker updates, retained rows and a glyph
  atlas each assume a predecessor that hiding, resizing or a lost context removes.
- **Two browsers on one layout.** Each saves late and adopts what the other saved.

## 2. Modules

| Module | Models | About |
|---|---|---|
| `TerminalControl` | `terminal_control.rs`, `authorize_terminal` | one action per operation of the registry, any clock |
| `DeviceAuth` | `device_auth.rs` | requests of paired devices, cut into critical sections |
| `MuxCatalogue` | the catalogue's document in `store.rs`, the commands of `runtime.rs` around it | several sessions, tabs and terminals; who is told what |
| `EventStream` | hub, socket task, mailbox, wire and transport of one client | events, frames, lag, overflow, disconnects, host restarts |
| `FrameQueue` | | what a mailbox promises: an urgent and an ordinary queue |
| `OutboundMailbox` | `outbound_mailbox.rs` | operators on the four lanes; implements `FrameQueue` |
| `ConnectionOutbound` | `connection_outbound.rs` with the tasks around it; EXTENDS `OutboundMailbox` | attach, credit, fences, close, the writer's waiting |
| `DurableLog` | | what an archive promises: a log that grows, is trimmed, and closes |
| `TerminalHistory` | `terminal_history.rs` | implements `DurableLog` through crashes |
| `TerminalHost` | the life of terminals in `terminal.rs` | create, dispose, exit, cleanup |
| `TerminalOwner` | what one owner thread of `terminal.rs` does in a turn | batches, output, replay, requests of the program, themes |
| `MuxRuntime` | terminals in `runtime.rs` and `store.rs` | commands across catalogue and host, exits, crash and start-up |
| `TerminalResync` | `create-yaade-api.ts`, and the listener side of `TerminalPanel.tsx` | one terminal's output across connections and mounts |
| `WebTransport` | `web-transport.ts` | the reconnect loop, sockets, timers, requests |
| `OutputWriter` | `terminal-output-writer.ts` | output between listener and parser |
| `MultiServer` | `multi-server.ts` | several hosts behind one facade |
| `MuxStore` | `mux-store.ts`, `mux-client.ts` | the browser's copy of the catalogue |
| `FairScheduler` | `fair-scheduler.ts` | commands of the terminals that share a worker |
| `WorkerTerminal` | `worker-terminal-core.ts`, `terminal-worker.ts` | one terminal whose parser is in a worker |
| `SurfaceFrames` | `surface.ts`, `renderer-controller.ts`, the renderers | from the updates to the picture |
| `TilingTree` | `tree.ts` | the tiling algorithm, as operators |
| `WindowLayout` | `TerminalMultiplexer.tsx` and what it calls; EXTENDS `TilingTree` | one window in one or two browsers |
| `SurfacePlacement` | the surface registry and the slots | where the surface of a terminal is |
| `TerminalPanel` | `TerminalPanel.tsx` | input, size and status of an attached process |
| `DesktopClient` | `apps/desktop-gpui/src` | the native client: two threads, their queue, the app |
| `...Proofs` | | the theorems of section 5, in a module beside each module they are about |
| `MC*` | | instances for TLC |

Parts that share no state are explored side by side in one run: a variable
`part`, fixed in the initial state, says which of them moves, and the others stay
at their initial state. `MCTerminalControl` has the parts leases, catalogue and
devices; `MCOutbound` one terminal, two terminals and the mailbox alone;
`MCTerminalHost` the terminals, one owner and one archive; `MCReaders` an archive
and the desktop client; `MCClient` resync, worker, scheduler, servers, store,
transport and output; `MCWindow` layout, placement, panel and frames.

Definitions carry the names of the functions they translate; `map` in
`PROJECT.json` gives the lines of each. Definitions marked "Fault" in a module
are plausible mistakes in the definition that follows them. They are no part of
a specification; each is substituted for that definition to see that a property
notices it.

### 2.1 TerminalControl

The registry of one terminal. A lease is a record with its id, holder, generation
and expiry; ids are minted in order and stand for the code's UUIDs, and the
smallest id is the oldest, as in the code's insertion-ordered maps. Each operation
is one step, because only the owner thread calls the registry and runs each
operation to its end. `MutateFenced` takes any fence a client can hold: one of any
minted lease, any generation there was, of either epoch and any command id,
which covers commands delayed, repeated and reordered by the network.
`SetClock` moves the wall clock anywhere within its bound, also back, since the
code reads `SystemTime`. Two history variables record the accepted command ids
and the generation of the last mutation.

`MuxCatalogue` is the document that `store.rs` replaces whole under its lock. A command
of `runtime.rs` is three critical sections: it reads what it will compare with
(`before`), makes one operation of the store, and reads again to tell all clients what
changed; other commands come between them. A title, a layout or a status is only a new
revision. `DeviceAuth` is the same idea for requests of devices: each section that holds the lock, and
each statement to the database, is a step, and any of them may fail. Time is left out:
a code or an entry may expire at any moment. Codes, nonces and tokens count up.

### 2.2 EventStream

The hub (`Emit`, `EmitTerminal`), the socket task (`Subscribe`, `SendSnapshot` or
`SendReplay`, `Forward`), the writer (`Write`), the wire and the client
(`Receive`). `Subscribe` and the snapshot are two steps, as the code takes the
receiver first and reads the state afterwards. A broadcast receiver of the size
`BroadcastCapacity` loses its oldest message when it is full; the task finds out
at its next receive and closes. Both protocol versions are covered: 2 gets hello
and snapshot, 1 a replay of the history with a gap notice.
`emitted` and `covered` are history variables: what the hub emitted,
and what the client applied, received in a snapshot, or was told it missed.

### 2.3 OutboundMailbox and ConnectionOutbound

The mailbox module defines the lanes and one operator per method; its order
numbers make the reliable, raw and semantic lanes one queue; `At` is what stands
at given places of a lane, and so what a discard leaves. `ConnectionOutbound`
gives every method of the connection its step (each holds the mutex), an attach
three (`BeginAttach`, `Snapshot`, `AttachResult`), and the writer's loop five: it
creates its `Notified` future (`Arm`), looks (`Look`: `PopFrame`, `TakeClose`,
`FindNothing`), polls the future for the first time (`Park`), is woken (`Wake`),
and has sent (`Sent`). `notify_one` leaves a permit when no future waits;
`notify_waiters` reaches futures that exist already, polled or not.

### 2.4 TerminalHistory

One terminal's archive. Variables are split into what is on the disk (`active`,
`files`, `manifest`), the mailboxes and budget, the owner thread's program
counter and job, the in-memory index, and the readers. `FlushAll` and page reads
enter through the same barrier messages as in the code. A flush is three
steps (`WriteBlock`, `WriteManifest`, `ResetActive`), trimming to the quota two,
and `Crash` may come between any of them. A crash is one of the process: files
are renamed into place and survive. `FailRecord` leaves a half-written record in
the active segment.

### 2.5 TerminalHost

The map of entries, one owner thread per terminal with its urgent lane, the
reader's bounded channel, the child, and a cleanup timer per exited terminal. A
caller's request is a command in the lane and a wait; the caller itself removes
the entry from the map after the reply. `create` is the capacity check
(`Create`), the search for an exited terminal to evict (`Inspect`, `Evict`) and
the insertion (`Insert`), with everything between them left to others. Requests
may give up (`TimeOut`), kills, children and threads may fail, all counted by one
bound. The owner blocks in `child.wait` (`owner = "waiting"`) once the reader has
ended, as `observe_terminal_exit` does.

`TerminalOwner` looks into one owner. Its turn takes urgent commands, ordinary ones and output,
each class up to a limit (`turn`); writes and resizes are gathered in batches; output goes
to the replay ring, to checkpoints, to the recorder and to the scanner that answers what the
program asks (device attributes, colours, theme changes). Data are sizes and tokens, and
whether a lease grants a mutation is a choice. A write to the program is a wait of its own
(`writing`): the kernel takes `InputRoom` bytes and no more until the program reads.
A behaviour follows one of six stories, so that the cross product of all commands with
all output need not be explored: output with and without a recorder, and its end;
requests cut anywhere; themes; commands of which some are refused; calls that fail, and
disposal; attaches without end, to a program that prints before it reads.

### 2.6 MuxRuntime

The catalogue holds per terminal its status, process, revision and whether it is
archived; `process` is what `TerminalHost` does in detail, reduced to the states
a mux command can tell apart. A command is a record in `call`: it reads its
targets when it begins, disposes of their processes one by one (`NextTarget`,
`Dispose`), and ends with a fenced update (`Start`, `Record`, `Cancel`) or an
unfenced one (`CloseRecords`). Each update is one step, because `mutate` keeps the
store's lock over the write to the database, and is `Refused` when the revision
moved on or the write fails. The listener is two steps (`Receive`, `UpdateExit`), as
the code finds the terminal under one lock and updates it under another. `Crash`
ends a host with any of its processes surviving, `TerminateStale` and `Reconcile`
are the next host's start. A shutdown is a crash that no process survives.

Two history variables record what the code gives up: `stray`, the processes
whose recording was refused or that were recorded behind a close, and `missed`,
the ended processes whose terminal was not told.

### 2.7 The client's connection: WebTransport, TerminalResync, OutputWriter

`WebTransport` is the reconnect fiber (`loop`: it opens a session, sits in it,
waits), the socket with its connect and heartbeat deadlines, and the requests on
it. `WakeRealtime` replaces a socket when the page wakes; `PathDies` makes a socket
mute without closing it. What events do to the cursor is `EventStream`'s matter.

`TerminalResync` is one terminal in the client API: the replay floor, the buffer
that bridges an attach, the gap flag, the resync task and its retry. The panel's
own attach and the resync are two calls that may be under way together, each a
request and its archive pages. The host is what the client can see of it: numbered
output, a ring, an archive that loses its oldest output, the checkpoint of its recorder
(`picture`, the last output it shows), and a stream armed by an attach. A checkpoint clears the screen and
shows a terminal as it was: `Picture` replaces what is shown, as a truncated replay does. `hole` becomes true
when the parser is fed past output it has not had. `Races` names nine orders of
events the code does not guard against (section 4); the run leaves them out and shows that, up to its
bounds, no other order breaks the properties. A checkpoint of the run is as new as the output at which it was stored,
and each later output stores one; in "picture" it may be older.

`OutputWriter` is the queue between the listener and the parser. Output is a stream: a piece has a number and
the place where it ends, and what waits lies between `start` and the end of the last piece, so that shedding and
taking part of a piece move `start`. Coalescing, the switch between frame and microtask, shedding at the limit and
the replay that replaces what was shed are each one step. `asking` says that the panel attached
with queries to answer (`replayMayNeedQueryResponses`): replayed output then takes the queue like live output.
A replayed page is never larger than the limit, which the host's page size ensures.

### 2.8 The client's copy of the host: MultiServer, MuxStore

`MultiServer` keeps a connection object per server, and gives each resource a name
scoped to its server. Calls carry what they captured before their `await`, so that
an answer of a removed or redefined server is one of the interleavings.

`MuxStore` holds entities under revisions with the indexes the code maintains by
hand. The host changes (`HostChange`), emits events, and answers; answers and events
travel separately, so any answer may be older than events already folded. Closes
are staged, confirmed or rolled back. `Unordered` names orders that break it.

### 2.9 Workers and pictures: FairScheduler, WorkerTerminal, SurfaceFrames

`FairScheduler` translates the deficit round robin exactly, with commands of
different cost and lanes of different weight; a pump is one microtask.

`WorkerTerminal` abstracts a terminal's content to a version; an update says which
version it brings and which it patches. The ring's slots travel in updates and come
back in recycles. Presentation suppression, synchronised updates with their timer,
failing commands, a dying worker and the recovery are in it.

`SurfaceFrames` goes on from there. A row's text is a number with one glyph of its
own, so that a row drawn from an atlas that was emptied shows something else. A
turn of the event loop is one step, with a failed renderer's recovery in the
microtasks at its end. `UpdateOf` is the emulator's update (in the page or a
worker), `Applied` the viewport model, `WebGlRender` and `CanvasRender` the two
renderers. `AtlasHoldsScreen` assumes that a screen of different glyphs fits into
the atlas; without it the WebGL renderer fails on every frame (section 4).

### 2.10 The window: TilingTree, WindowLayout, SurfacePlacement, TerminalPanel

`TilingTree` holds the pure operations of the tree as recursive operators.
`WindowLayout` puts them under one window of a host that one or two browsers show:
the user acts, effects run, a save is debounced, sent under the revision it read,
accepted or refused; other browsers' saves arrive as events and are adopted.
`SurfacePlacement` is where the one resident surface of a terminal is, while the
desktop and mobile layouts mount and unmount slots for it. It is hidden while a replay's history replaces the preview,
and shown at the end of the attach. `TerminalPanel` is a panel
attached to a process: pending keys, the input writer, the resize under way and
its repetition, exits and restarts, and a socket that is lost with requests on it.

### 2.11 The native client: DesktopClient

One thread makes calls, one reads the socket, both put events into one queue, and the app
takes them in order; the app's answers go back through two queues. The host is external and
as small as the client can tell: a document with a revision, shells that print numbered
chunks, a stream armed by an attach that it answers or refuses (`client.rs:472`), and others who change the document too. One session is
modelled. `window` is the size that views are told, `known` (history) the newest revision
applied.

## 3. What TLC checks

| Run | Instance | States | Shows |
|---|---|---|---|
| `control` | leases: 2 connections of 2 principals, 3 command ids, window 2, 3 leases, 4 accepted mutations, clock 0..1. Catalogue: 2 clients, 3 commands on 1 session, 2 tabs, 2 terminals. Devices: 2 requests at once, 2 devices, maps of 1, 5 requests | 310 k | the primary is a writer, writers share a generation, a holder has one lease; no command twice within the window; mutations are applied in generation order; replacing all writers raises the generation; the document is consistent and clients are told of every change; a code pairs one device, a challenge has one session, maps keep to their limits, revoked devices are not served |
| `events_stream` | 4 sequence numbers per epoch, history 2, receiver 2, mailbox 1, 1 frame, 2 disconnects, 1 restart, both protocols | 467 k | no event is lost except one a frame overtook; without a frame only duplicates are rejected; frames never are; the client catches up |
| `events_overtaken` | the same, smaller | | finding 1 |
| `outbound` | one terminal attached twice, or two attached once each; lanes of 2, credit 1, 1 event; the mailbox alone with sizes 1 and 2 and 3 frames | 670 k | counters are the bytes in the lanes and the credit is held by queued frames; a gap is preceded by a fence and a fence is reported; the socket task's wait for its writer ends and frames do not sit; the mailbox implements `FrameQueue` |
| `readers` | 2 readers of a live terminal, 1 failed append; a desktop client with 2 tabs, terminals or processes and 2 uses of everything else | 1.80 M | pages hold exactly what was written when they were asked for; a view shows each chunk once, and the client comes to show what the host has |
| `history_read_at_close` | 1 record | | finding 2 |
| `host` | terminals: 2 callers, map of 1, lane of 2, 2 terminals, 1 fault. Owner: six stories, lane of 3, batches of 3, ring of 4, room for 1 byte of input. Archive: 4 records, blocks of 2, quota of 1 block, budget 2, 1 crash anywhere, 2 closes, 1 read after recovery | 459 k | the limit is overshot only by overlapping creates or after a failed call; living children can be reached; no dead entry stays; archives are closed; the exit is the last word; exited terminals are reaped; replay has no unsaid gap, input arrives as sent, what a program asks is found and every command answered; written records survive until the quota drops them; a closed archive is complete; `DurableLog` is implemented; appends are written and archives that were closed are completed |
| `mux` | 2 clients, 1 terminal, 2 processes, 3 commands, 1 rename, 1 fault, 1 crash | 683 k | a process of a serving host has a terminal or a command that will record it, except strays; never two processes for one terminal; running means that a process runs or that its end is on the way, except missed ones; no process the catalogue knew survives a restart; the listener gets exits done |
| `mux_exit_lost` | 1 client, 1 process | | finding 3 |
| `client` | the seven parts of the browser's end of the host, see below | 567 k | the parser is never fed past output it lacks; updates patch what is shown and slots come back; the scheduler's counters are true; names go to their host; the store's indexes are true and it ends up agreeing with the host; a request is answered by its own socket; acknowledgements are in order; every part catches up |
| `mux_store_ghost` | 1 session, window and terminal, 1 change | | finding 4 |
| `window` | the four parts of a window, see below | 1.0 M | tilings are well formed and survive storage; browsers end up agreeing; living terminals stay on show; the surface is where the user looks; input in order and once; status and size true; the picture true |

The properties of a run are often conjunctions of named parts: `LeasesAgree`
(`PrimaryIsWriter`, `WritersShareGeneration`, `OneLeasePerHolder`), `DevicesSound`
(`OneDevicePerCode`, `OneHeir`, `MapsBounded`, `FailuresBounded`, nobody revoked served),
`CatalogueSound`, `OutboundSafe` (`MailboxInv` of the mailbox alone, otherwise
`OutboundInv`), `OutboundFlows` (`TaskJoins`, `FramesFlow`), `DesktopSound` (`FedOnce`, `FedAll`,
`SelectionTogether`, `UpToDate`), `HostInv` (`EntriesBounded`, `ChildrenReachable`, `NoOrphan`,
`ArchiveClosed`), `RecordsAndInputSound` (`RecordsKept` of the archive; `OwnerSound`:
`ReplayWhole`, `InputFaithful`, `RequestsFound`, `ThemeKnown`), `HostSettles` (`Reaped`,
`Drained`, `AnswersAll`), `ProcessInv`, `CatalogueIsTrue`, `NothingLost`, `WorkersSound` (`PatchesFit`,
`Accounts`, `Awake`), `RoutesHome` (`Understood`, `FacadeIsActive`), and `Settles` of `MCClient`
(`CatchesUp`, `Presents`, `Drains`, `Reconnects`, `OutputFlows`).

Why the bounds are enough:

- *control*: two connections that also differ in principal are the least for a
  takeover, a transfer and an observer's promotion, and three leases are the least for a
  promotion after a takeover. The window of two is passed by four acceptances, so an id
  is forgotten and used again. Two clients with a command each under way, and a third
  command, put any change between another command's reads and its operation; two tabs let
  a tab be compared with another. Two requests with maps of one entry make each
  addition drop one, five requests pair a device, open and exchange a session twice
  over or revoke it between. The theorems of section 5 hold without the bounds.
- *readers*: the archive as below; the desktop client has two of whatever it has to tell
  apart, in one of two settings (tabs and terminals around one process, or processes that
  follow each other), and two clicks, breaks, fences or failures in any combination.
- *events*: capacities of one and two let every queue overflow; four sequence
  numbers let the history evict, the receiver lag and the stream go on after
  either; two disconnects let a reconnect itself fail; one restart makes an epoch
  with smaller numbers than the client's cursor.
- *outbound*: every limit can be exceeded by the frames there are; two attaches
  let the second meet frames and fences of the first, and two terminals attached at the
  same time fill each other's lane and hold each other's credit.
- *host*: one place in the map and two terminals make every second create meet
  the limit, evict, or overlap the first; a lane of two can be filled by two of
  the three requesters. Four records are two blocks, one above the quota, so each
  of the flush, trim and finalise paths runs, and a crash can hit each step. An owner's
  limits are passed by the commands and chunks of its stories: a batch by bytes and by
  number, a turn, the ring, and the room for input by every write.
- *mux*: after the command that creates the terminal two more can overlap each
  other and it; two processes are the least for a restart; one rename moves a
  revision between any read and its update. With one terminal a list of targets
  has one element: a tab whose second disposal fails is not covered.
- *client*. Resync: four frames with a buffer of one, a ring of two, a tail and pages of
  one overflow each, and a truncated replay has two pages; one disconnect and two mounts let an old attach, a resync and a
  new attach meet; of disconnects, mounts and troubles any three. Worker: two slots and two updates exhaust the ring, three
  commands and one fault reach recovery. Scheduler: three terminals for one place,
  costs 1 and 3 above a quantum of 1. Servers: the current and one remote, defined,
  removed or replaced by another definition while its answer is on the way (three
  connections, two versions of the list), two commands, or one and a change of status. Store: two sessions, two windows and two terminals so
  that something is moved or selected next; of three changes, one loss and one request any three.
  Transport: two realtime requests and one over HTTP, of two failures and two wakes any three, so
  a wake can hit the reconnect of the first failure. Output: pieces below and above
  the interactive size, a limit that one large piece or two smaller ones pass, three pieces.
- *window*. Layout: two edits in one browser or one in each of two, and a reload, on
  at most three panes with two terminals; the two edges of different orientation
  stand for all four. Placement is not bounded. Panel: two processes (a restart),
  two sizes, two user actions, one lost connection or failed call. Frames: two
  update slots so that several are drawn at once, an atlas that two rows fill, and
  three events, so that one can be lost, one hidden and one drawn.

The bounds named `Max...` in the cfg files limit only how often the
environment acts (records, events, faults, crashes). A behaviour that used them
up ends, which is why deadlock is not checked in those runs; that no *thread*
hangs is what the liveness properties say.

### Fairness

`FairSpec` gives weak fairness to steps that a scheduler or the runtime takes on
its own: threads and tasks that are runnable run. It is never given to the
environment (users, children, producers, crashes, failures, disconnects).
Beyond scheduling it assumes that

- a socket send ends, with success or an error (`Sent`, `Write`); the code sets no
  timeout on it, and a peer that stops reading without closing holds the writer,
  the socket task and its leases for as long as TCP lets it;
- the client's page stays open and keeps reconnecting (`Subscribe`, `Receive`);
- a terminal owner answers an attach (`Snapshot`);
- an owner's thread runs, and the program goes on printing while its output is taken, and
  reading while there is input (`Owner`, `Prints`, `Reads` of `TerminalOwner`);
- in `TerminalHost`, the 90-second timer fires (`Expire`), and a caller that has
  its reply goes on (`Remove`). A child's exit is *not* assumed: `Exit` is fair, but is
  enabled only when the child is dead;
- in the browser (`...Steady` of each part), timers and frames fire, the host
  answers what it received, and a worker takes its commands. The liveness
  properties are of the form "if it stays undisturbed, it settles", because the
  environment may disturb it for as long as the bounds allow. The window, the
  servers and the store state no fairness: their properties speak of states in
  which nothing is under way;
- in `MuxRuntime`, only the listener's own two steps are fair: commands may stop
  anywhere, and a host need not come up again.

### Exceptions written into properties

Some properties hold only outside a hole that the code has; the property names
the hole. `NothingLost` and `Converges` except events that a frame may have
overtaken (finding 1). `EntriesBounded` holds while no creates overlap and no call has failed; `NoOrphan`,
`ChildrenReachable` and `Reaped` except terminals on which a call did: a dispose that
times out and is carried out later leaves an entry whose owner has stopped
(`server/terminal.rs:614`), a thread that cannot be started leaves an entry
without an owner (`:556`), and an authorised dispose whose kill fails leaves a
child that nobody can control (`:1714`). `ClosedIsComplete` excepts restarts and
failed appends. In the browser: `PatchesFit` and `Presents` speak of the first core
of a terminal, because its viewport model is not reset by a recovery; `Awake` of the scheduler
excepts a cancel; `TilesAgree` excepts a refused save; `TilesKeep` a reload and the
adoption of another tiling; `PanelAgrees` what was lost with a socket or typed where nothing
was connected; `PictureTrue` a terminal in a synchronised update, a page in which no renderer could be made,
and rows that the canvas renderer leaves below a grid that shrank. `ClientsToldAll` excepts tabs
in `untold`, `AnswersAll` the owner and program that wait for each other (`Circular`), `RequestsFound` a
request inside an unfinished colour query, `FedOnce` and `FedAll` a view that was `remade`, and
`Placed` a slot that was passed by (section 4).

## 4. Findings

Each is a run that TLC must refute; `PROJECT.json` quotes the sentence of the
repository that it contradicts.

1. `events_overtaken` (`server/event_hub.rs:152`). A terminal frame takes its
   sequence number after an event but enters the mailbox before it. The client's
   cursor moves to the frame's number and the event is then dropped as a duplicate.
2. `history_read_at_close` (`server/terminal_history.rs:880`). Finalisation removes
   the archive's state from the index before it flushes; a page read in between
   mixes the old manifest with the new active segment and misses records.
3. `mux_exit_lost` (`server/runtime.rs:228`). A shell that ends before the update
   that names its process has its exit dropped; the update then says running, and
   nothing corrects it.
4. `mux_store_ghost` (`app/mux-store.ts:565`). The store keeps only the revision of an
   event about a terminal it does not hold; the listing answered before that event
   brings the closed terminal back for good.

The models show more disagreements, which the passing runs except and no run of
its own refutes:

- *A second close of an archive* (`server/terminal_history.rs:1106`). It waits for a
  sequence that is never reported as written again and stays pending, although
  `close_terminal` calls itself idempotent (`:549`). A dispose of an exited terminal
  sends such a close. The run makes it (`MaxCloses = 2`); `Drained` therefore does not ask that
  every close be carried out, but that the archive of a terminal that was closed be complete.
- *A torn record before a crash* (`:750`). A failed append leaves its bytes; records
  appended after them are not recovered by the next process. Set `MaxFailures` to
  1 there and TLC refutes `RecordsAndInputSound`.
- *A terminal closed while it starts* (`server/runtime.rs:781`, `:652`).
  "Closing a terminal disposes its PTY." (`docs/architecture/terminal-runtime.md:35`)
  does not hold for the process of a create or restart that is under way: it is
  started all the same, its recording is refused or overwritten, and it runs
  until the host ends (`stray` in `ProcessesNamed`).
- *A command that disposes and is then refused* (`server/runtime.rs:728`). The
  revision is compared before the disposal and again by the update; a rename in
  between leaves a terminal that says running without a process. The same
  happens to a terminal that is closed after it was archived with its process kept
  (`server/store.rs:957`), and to the exit of a process whose terminal is updated
  between the listener's two steps (`missed` in `RunningIsTrue`).
- *A lagging listener* (`server/runtime.rs:207`). One lagged receive ends it, and
  with it every later update by an exit.
- *More terminals than the limit* (`server/terminal.rs:173`, "too many terminals (max 64)"). After a
  call on an exited terminal failed, each later create evicts that same terminal again, and one create after
  another passes the limit without any overlap. It needs three terminals; a proof attempt showed it,
  and `EntriesBounded` now says so.
- *An owner and a program that wait for each other* (`server/terminal.rs:1317`, also `:1442`, `:1793`). The
  owner blocks in `write_all` to a program that blocks on its own output. Every other command
  waits then, disposal too, against "input/disposal stays responsive" (`:1128`).
- *A request that is missed* (`server/terminal.rs:2062`). The escape that starts it ends an
  unfinished colour query and is skipped with it.
- *An attach does not wait for "ready" and "detach"*, which are ordinary commands while it is an urgent
  one.
- *A change that clients are not told of* (`server/runtime.rs:534`, `:511`). Selecting a terminal,
  creating one without a tab and closing one that was moved compare the revision of *another* tab, so
  that nothing is said when the two revisions coincide; a move tells only of tabs it read before.
- *A session of a revoked device* (`server/device_auth.rs`). An authentication under way may open a
  session after the revocation removed them; it is refused at its next use. The queues of keys name
  entries that are long gone and so never shrink; failures counted as "invalid-device" are never asked for.
- *The native client.* A view made again after a late listing is never attached again, because the set of
  attached processes never shrinks (`remade`); a late listing overwrites a newer snapshot of the socket, and no
  listing follows a failed call (`known`); an archive's tail cut on attach leaves a hole without a notice.

In the browser, most of them switched off by a constant of the model; naming the
race in the constant makes TLC show it:

- *`Races` of `TerminalResync`*. `"wake"`: a page wake starts a new generation while a
  request for resynchronisation waits, and the request is lost. `"cold"`: a panel
  mounted over HTTP before the socket is open never gets a stream. `"overlap"`: a
  resync and a streaming attach share the buffer. `"overrun"`: the gap path raises
  the floor past output that was not delivered. `"picture"` (`client/create-yaade-api.ts:375-395`): a
  resync shows the checkpoint of the answer after the whole archive was replayed, and when the checkpoint is
  older than the answer's last output, which it is unless it was stored with it (`server/terminal.rs:1807`), the
  screen goes back to what it was then and the ring's tail does not follow, against "only bytes newer than the
  replay cursor are released afterward" (`docs/architecture/terminal-runtime.md:61-63`). `"trimmed"`
  (`client/create-yaade-api.ts:287`): the archive loses what comes next in a replay that has begun, and only the
  first page looks for such a gap; TLC shows it once `MaxTrouble` is 2. A proof attempt showed three more, two of which small
  bounds had hidden. `"tail"` (`client/create-yaade-api.ts:398-399`, `:800-802`): when a page comes back empty, what the
  attach's answer carries is shown instead, of which the host has cut all but the newest 256 KiB
  (`server/terminal.rs:1584`) without counting that as truncation; a resync shows it without a reset,
  and a full attach whose pages end early shows nothing in their place if the checkpoint holds the last output; against "an incomplete archive resets to the bounded tail instead of
  exposing a gap" (`client/terminal-reconnect.test.ts:347`, which tests the one case that does). `"stale"`
  (`:559-572`): a truncated replay resets the parser and is cut short after a page, while output of before the
  reset has been, or is yet to be, acknowledged; the retry asks after that and skips what lies between.
  `"remount"` (`:866`): the attach of a panel that is gone ends while the next surface attaches and deletes
  the mark that makes live output wait; it is dropped as if no renderer consumed it (`:601`), against the "replay
  barrier" of `docs/architecture/terminal-runtime.md:61`. Each refutes `NoHole` or `CatchesUp`.
- *`Unordered` of `MuxStore`*. `"coalesce"`: a reconcile joins a listing that is already
  under way and older than the gap. `"session"`: the answer to a read of one session
  has no baseline. `"unknown"`: finding 4. `"answers"`: HTTP answers out of order. `"restored"`
  (`server/runtime.rs:480`): a session comes back from the archive and the host says so without its windows and
  terminals; a store that does not have them sees no gap in a revision and shows the session empty.
- *A slot that is passed by* (`ui/panels/TerminalSurfacePlacement.tsx:25`, `passedBy` in `Placed`). A slot takes
  the surface in an effect that runs only when its own props change. The end of a zoom gives the surface
  back to its home and no effect of the dock's slot runs: the pane stays blank. With a zoomed pane, a change of
  focus or palette moves the surface into the dock's slot that is not on screen, and so does a way back from a
  small screen; on a phone, going back to a terminal whose view still slides out leaves it blank. This is
  against `plans/008-resident-terminal-surfaces.md:150-152`. A zoom that stays mounted on a small screen draws
  unseen, and a slot that takes the surface shows it although a replay hides it
  (`ui/panels/terminal-surface-placement.ts:68`, `ui/panels/TerminalPanel.tsx:533`).
- *`PanelRaces`*. `"exit"`: an exit and an update between the attach's answer and the
  panel's subscription leave it saying running. `"late"`: requests of a lost socket are
  carried out after newer calls over HTTP.
- *`AtlasHoldsScreen`* (`ghostty/renderers/webgl2/webgl2-renderer.ts:323`). With more
  different glyphs on screen than the atlas holds, each frame throws, each
  recovery makes another WebGL renderer, and the canvas is never tried.
- *`MayDispose`* (`ghostty/worker/`). Disposing of a core drops the recycles it just
  queued, against `docs/terminal-renderers.md:79-81`; `PatchesFit` excepts disposal.
- *A synchronised update that outlives its timeout.* Showing the surface, a theme or a
  recovered renderer is then not painted until more output arrives; `PictureTrue`
  excepts it.
- *A failed resize* counts as acknowledged and is never sent again (`lost.size` in
  `PanelAgrees`).
- *A refused save of a layout* is not tried again, although the comment at
  `app/TerminalMultiplexer.tsx:1965` promises it (`refused` in `TilesAgree`). Also
  there: loading a second page un-zooms the first, and two pages fill the same empty pane with a
  terminal each, one of which ends without a pane.
- *Scheduler.* `cancel` frees a place and schedules no pump (`Awake`).

## 5. What is proved

Eight modules hold theorems; what they state holds for every value of the constants that
meets the assumptions named in the module (TLC evaluates them for the instances of
section 3). A theorem states the definition that a run checks, so that the run
shows it on a small instance. Each specification has one inductive invariant, a
conjunction of named parts; one lemma per action, or per move that actions share, shows
that a step keeps it, and the last lemmas lift it to the specification.

### Terminal control

`AccessProofs` proves, for all sets of connections, principals, commands
and epochs and all values of the bounds,

| Theorem | Statement |
|---|---|
| `TypeCorrect` | `Spec => []TypeOK`: types, and at most `MaxCommandIds` ids remembered |
| `LeaseSafety` | the primary is a writer, writers share the generation, no holder has two leases of a mode |
| `FencingOrder` | mutations are applied in the order of generations |
| `HandoverFences` | replacing all writers raises the generation |
| `CommandsOnce` | no command id is accepted twice within the window |

Assumptions: `ConnectionsAssumption` (every connection has a principal),
`EpochAssumption` and `BoundsAssumption` (the window and the time to live are
positive); TLC evaluates them for the instance it checks.

*The argument for the first four.* The lease properties need each other: a
renewed or promoted lease keeps the generation of the writers only because it is
the current one, and the primary found by a purge is a writer only because a
writer is left. `LeaseInv` is their conjunction with the types. The operations
are built of a few moves: purge, renew, mint, remove the leases of a connection,
replace all writers. One lemma per move (`PurgeStep`, `RenewStep`,
`AcquireNewWriterStep`, `TakeoverStep`, ...) shows `LeaseStep`: `LeaseInv` holds
afterwards, the generation did not fall, and a step that replaced all writers
raised it. `IndInv` adds that the generation of the last mutation is at most the
current one. A fenced mutation is accepted only under a live writer, which
has the current generation by `LeaseInv`; hence the order of mutations.
`NextStep` combines the moves action by action and `Invariance` lifts it to
`Spec`. The oldest lease is a `CHOOSE` of a minimum, and that it exists rests on the
well-foundedness of `<` on the naturals (`OldestLease`).

*The argument for the command window.* `NoReplayWithinWindow` speaks about all
accepted ids, the code remembers a few. `Window` says that those are the last
ones accepted, in order, and that there are fewer than the limit only if
nothing was forgotten yet. A new id is not among the last `MaxCommandIds`
accepted (`AcceptKeepsWindow`), so an equal one is farther away.

### Event stream

`EventStreamProofs`: `StreamHolds` (the invariant), `StreamLosesNothing` (`[]NothingLost`: an
event at or below the client's cursor was received, is covered by a snapshot, or was
overtaken by a frame; no frame is rejected) and `StreamRejectsDuplicates`
(`[]OnlyFramesOvertake`: unless a frame overtook one, the client rejects only what it has), under
`ProtocolAssumption`, `LimitsAssumption` and `BoundsAssumption`.

Loss is prevented at four places that know nothing of each other: the replay ring, the
receiver of the socket task, its mailbox and the wire. The invariant says that these four
are one stream. `RingComplete`: the ring holds, in order, whatever this process emitted
and has not dropped. `StreamComplete`: with `Settled`, the events the client need not hear
of any more, each event on the wire, in the mailbox and in the receiver comes after all
before it (`Follows`), and an open task that did not lag has everything. `FramesAhead`: a
frame is newer than the cursor and than everything sent before it; that is why it can
overtake, and why nothing else can. `CursorSettled` is the property itself in these
terms. `CursorInPast`, `Phases`, `WireShape` and `QueueShape` say which messages can stand
where. The longest lemmas are the replay of the ring on subscription
(`SendReplayStep`), the forwarding of an event past a frame (`ForwardStep`) and the
client's step (`ClientAdvances`).

### Mux runtime

`MuxRuntimeProofs`: `MuxHolds`, `ProcessesBelong` (`[]ProcessInv`) and `CatalogueStaysTrue`
(`[]CatalogueIsTrue`), for finitely many callers (`CallersAssumption`), any number of
terminals, processes, crashes and lags.

A command reads the catalogue, works without a lock, and comes back. What makes
that safe is the revision: `Known` says that what a command or the listener read of a
terminal is still so *while the revision it read is the current one*. `CommandsSound` says of each
phase what the command may be part of (`Shape`), what it knows (`Knows`), what a record says
whose revision it set itself (`Starts`), and that it has disposed of the processes it saw
before it goes on (`Handles`). `OneStarter`, `OneRecord` and `OneRecorder` give
each process one record or one command that will record it. `ProcessInv` follows from these
with `RecordsSound`, `ExitsOver`, `Down`, `Survivors` and `ProcessesNamed`. For `CatalogueIsTrue`,
`RunningAccounted` says who has to tell the end of a process that is recorded as
running: an event in the channel, the listener, or a command; `missed` holds the ends that
are lost (finding 3 and section 4).

### Terminal host

`TerminalHostProofs`: `HostHolds`, `HostIsSound` (`[]HostInv`) and `ExitsLast` (`ExitIsLast`, an
action property), for finitely many callers, any capacity of map and lane, any number of
terminals and faults.

`CallsSound` says what a request that holds a terminal may rely on, `LanesAgree` that the
urgent lane and the callers agree: somebody awaits each command, exactly one, unless a call on that
terminal has failed. `Lives` ties the entry, the owner thread, the child and the last word on the
output to each other; `OneTimer` makes the removal after an exit unique. `Room` is the argument for the
limit of the map: the create that is past the check counts the terminal it is going
to evict as gone, and nobody else inserts meanwhile. The first version of `EntriesBounded`
excepted only overlapping creates, and TLC agreed on two terminals. The proof failed at the step
where a create gives up on an eviction, which led to a behaviour of three terminals that breaks
it (section 4); it now excepts failed calls too, and the run and the theorem state that.

### Terminal history

`HistoryProofs`: `PagesAreExact` (`LiveSpec => []ExactPages`), for any readers, quota, block size, mailbox
and byte budgets, and any failures (`HistoryAssumption`), of a terminal that stays open in a process
that stays up; a close in progress breaks the property (section 4), and after a crash there is no live archive.

A page is read from files without the lock, from a copy of the state that may be old. `StateSound` says of the
state what makes a copy usable: the blocks lie one after the other, each file holds what the name of its
block says, the pending records come after the last block, and every record written above the
quota's mark is pending or in a file (`Sound`). A flush changes the state twice, so this is not said of `state` but of `Effective`, what the
state amounts to while its block is on the disk but not in the manifest, or in the manifest
and still pending. `CopySound` is what is left of it in a reader's copy: the records the reader needs are
in it or below the mark, since a block that the quota removes raises the mark above its records, and no later
block has the name of an earlier one. A state that a reader builds from the disk is put in place only while
nobody loaded the archive, when all is `Empty`. `Control` is where the owner can be, and that it locks only
what is loaded. `Contents` unfolds a recursive function by its least counterexample (`ContentsUnfold`),
which gives the order of a page's records (`ContentsInOrder`) and that none is missing (`PageExact`). The
lemmas go by action, and for the moves of records by one about the state alone
(a record added, pending records made a block, blocks trimmed).

### Connection outbound

`ConnectionOutboundProofs`: `OutboundHolds` (`[]OutboundInv`) and `NothingSkipped` (`NoSilentGap`, an
action property: a frame of a terminal goes out only if it is the next one the client
expects of it, or the client expects none), for both protocols, any lane limits and credit, and any
terminals (`NoTerminalAssumption`, `LaneLimitsAssumption`, `ProtocolAssumption`, `FlowAssumption`).

The mailbox sends by order number from three lanes that may drop different things, so
that "the next frame" is not the head of a queue. `LanesSound`: each lane rises by order
number, and a terminal's frames rise by sequence in the same order. `StreamsSound`: if `n + 1`
is what the client will expect of a terminal once the priority lane is sent (`Due`), the
frames that no fence precedes follow `n` without a hole (`Continues`, `Unbroken`), up to what
the terminal has produced if it is live. `AttachSound` and its clause for an attach that is
answered carry this across the withdrawal of the frames that a snapshot covers.
`Reported` says that a terminal is fenced off only together with a fence or with nothing left that would
raise expectations, `Credited` that frames past the acknowledgement hold credit. Each action is
quiet or one of a few moves (produce a frame, finish or fail an attach, enqueue in the
reliable lane, pop), and the lemmas go by moves.

### Client: realtime connection and several servers

`AccessProofs`, without assumptions: `OwnSocketHolds` (`TransportSpec => []OwnSocket`: a
command that waits for its answer was sent on the current socket, which is announced as
connected only after its snapshot; a wake of the page replaces a socket without
aborting HTTP requests) and
`NamesFindTheirHost` (`ServersSpec => []RoutesHome`: a call reaches the server its name lives on, and the facade
shows the active one). For the first, `Spared` says what a closing socket was closed for, and that
with nothing else wrong only the wake closes one. For the second, `NamesHome` says that a name is
registered with its own server *before* anybody holds it, which includes the names that a listing
under way will give out.

### The browser's copy of the catalogue

`AccessProofs`: `IndexesStayTrue` (`MuxStoreSpec => []StoreCoherent`), for any sessions, terminals and number of
changes, lost events and requests, and whatever `Unordered` lets happen (`StoreBounds`). It is about code that
maintains two indexes terminal by terminal in some places (`Left`, `Entered`) and by a
rebuild in others, and repairs a selection after each. `StoreCoherent`, "a rebuild changes nothing", is not inductive. A close
that succeeds removes the mark that hid the terminal or window and rebuilds nothing (`Confirmed`), which leaves the indexes true
only if the store's copy is archived by then; and it is not if the store has a copy that it takes for newer than the
answer. So `StoreInv` adds what may be under way. `MapsFit`: no copy in the store is under a revision
the host has not reached, and each names a session the host has; `EventsFit` and `AsksFit` say the same of every event and
answer, and that the answer to a close is the host's copy *of now*, archived. Of the host's steps the argument needs only `Grows`:
revisions rise, and an archived window or terminal stays as it is. `MapsStay`, `AskStays` and `UnderWayStays` carry everything
across it, and `CloseTermConfirmed` and `CloseTabConfirmed` then show that the answer wins. Each of the store's
operations has one lemma that takes a coherent store to a coherent one (`TermReplaced`, `TabReplaced`,
`SessionReplaced`, `EventMerged`, `ListingMerged`). A lost socket fails every request in turn (`AfterFailures`, a recursive function):
`FailuresInTurn` takes the shortest run of failures for which no function satisfies the definition, and
`AllFailCoherently` the first incoherent store of the run, both by `WFMin`, since induction is out of reach.

### Device authentication

`AccessProofs`: `PairedDevicesHold` (`AuthSpec => []DevicesSound`), for any number of devices, codes
and overlapping requests. `DeviceLimits` assumes that limits are positive, handlers
finite, and the failure key `"pair"` no device id: an id has at least eight letters
(`server/device_auth.rs:594`). `CodesSound`: a code that a request or a device uses is used up and has
no other user. `HeirsSound`: a challenge has one heir, itself, then the request that took it or the session
it led to, then the exchange of that session's token. `FailuresCounted`: the failures of a key and
the requests that may still add one stay below the limit plus the number of handlers, since each passed
the check before; so the overshoot is the overlap and no more. `MapsBounded` needs that the
loop over a queue of keys drops enough although keys may be named twice or be long gone:
`DropsEnough`, from `AsManyAsKeys`, a count of the places at which distinct keys last stand.

### Mux catalogue

`MuxCatalogueProofs`: `CatalogueHolds` (`CatalogueSpec => []CatalogueSound`), for finitely many clients
and any number of commands (`CatalogueBounds`; `MaxEdits` only bounds the ids that are there).
`CatalogueSound` itself is not inductive, for three reasons that `CatalogueInv` adds. A command
works on what it was asked for when the document has moved on: `RequestsFit` says that this was made once, and
belongs to the same session still, which rests on `SeenBefore` (nobody was told of what is not there)
when it is asked, and on `Follows` (no operation takes anything back) afterwards. The operation needs
what was ever made to have its session (`Made`). And a new session or tab needs an id that
nothing had: `Room` counts that every command asked, and every one still to come, has one left of each
kind. The document's own part, `Sound`, is a statement about any document,
so each operation of `store.rs` has a lemma that does not mention the state:
a sound document gives a sound one that follows it and uses up at most one id of a kind. The longest are moving and
closing a terminal (what showed it must show its tab's next), and closing a tab, which may leave its session
without one for a moment: `SoundBut` is what holds then.

`EveryoneIsTold` (`CatalogueSpec => []ClientsToldAll`): what the document says and a client that is up to
date was not told is on its way to it, or the client will ask. `ToldInv` restates this as a debt: whatever
differs between what a client knows and the document, and does not stand in `untold`, is *owed*, that is,
covered by an entry of what the client will still look at (`AllOwed`). Four facts make that
inductive. A request compares the session it is about with itself, a tab with itself or with nothing
(`AskFits`, `LookFits`, `OneOf`), so that an answer settles exactly what it compared. Nothing is told of before
its session (`SessionsTold`), since a client drops what it cannot place. A terminal, also a closed one, is of a
tab of its own session (`Homes`), so that the news of a session covers it. Each operation of the
store then has one lemma saying that the news it publishes covers all it changed (`StepTells`,
`OutcomeTells`), whichever phase of the command it happens in (`Goes`).

### The window: panel and surface

`PanelProofs`: `InputArrivesInOrder` (`PanelSpec => []InputInOrder`) if `PanelRaces` leaves "late" out,
`PanelTellsTruth` (`PanelSpec => []PanelAgrees`) if it is empty:
in the races left out the code breaks the property (section 4), which is what the assumptions name;
and `SurfaceStaysPlaced` (`PlacementSpec => []Placed`), which assumes nothing.

What a user types passes through a pending list, a batch, a chain of promises, a call and the socket. `PanelInv`
says that what was received, is on the wire, in the call, in the chain, in the batch and pending, read
one after the other, is one increasing line (`FlowsInOrder`); and that a writer
waiting for its call has nothing on the socket (`OneWay`), since the next batch may otherwise overtake the
last. `PanelAgrees` speaks of a panel at rest only; `AgreeInv` adds what leads there, in three parts. *News*
(`NewsInv`): the messages on their way speak of ever later processes, say of none that it ended unless it did,
and end with the host's present state; with none on the way the panel has that state (`Shown`). *Keys* (`KeysKept`):
each key typed is received, at one of the places above, or in `lost.keys`; once all of
these are empty only the first and last remain. *Sizes* (`SizesInv`): one call with a size is open at a time, none while
one is on the socket (`SizesSent`), none speaks of a later process (`SizesPast`), and the last size sent
is the host's, still under way, or given up (`SizeArrives`).

`PlacementInv` ties the surface's parent, its record and the slots that want it: the slots that wait are
those mounted, with the record each would give (`SlotsFit`); of any two of them one subscribed after the other,
the list's slot before the one that keeps a leaving detail, and the slot looked at, unless it was passed by, after all others (`HeardInv`), so the
latest to ask, which takes the surface, is that slot; and a pause belongs to an attach that hid the surface (`ReplayInv`).

`OutputIsAcknowledgedInOrder` (`OutputSpec => []AckedInOrder`) has no such assumption. The writer's functions call
one another, so the invariant `OutputInv` speaks of the record they pass on: `InLine` (the pieces
in the queue come after all that was acknowledged or will be, what was shed comes after it too, and nothing was
shed unless the writer knows of a gap), `Tended` (below the limit, and something is due for what waits), and
`Calm`: during a replay that is flushed in the same turn nothing waits and nothing was shed, so that writing it past the
queue keeps the order. Each function has one lemma (`Sheds`, `Takes`, `Schedules`, `FlushesNow`,
`FlushesAll`, `Discards`, `Enqueues`, `Replays`), each action composes them.

### What stays with TLC

- *Liveness*: `Converges`, `OutboundFlows`, `HostSettles`, `ExitRecorded` and `Settles`. Fairness and
  ENABLED are beyond the proof system.
- *Recursion and folds over data*: `MailboxInv`'s account of bytes is a fold over lanes, and what
  `TilingTree`'s recursive operators compute needs induction over trees; neither can be instantiated
  for the installed provers.
- *Crashes of the archive*: `RecordsSurvive` and `ClosedIsComplete`; `PagesAreExact` covers a process that stays up.
- *Refinements*: `ImplementsQueue` (the lanes merged by order number) and `ImplementsLog` (a flush is
  several steps of the archive and one of the log).
- *Safety still to be proved* (section 7): `DesktopSound`,
  `RecordsAndInputSound`, `NoHole`, `WorkersSound`, `StoreAgrees`,
  `PictureTrue`, and `TilesSound`, `TilesAgree`, `TilesKeep` as far as they do
  not rest on recursion.

## 6. What is not modelled

- *History*: total quota and retention of closed archives, deletion, reverse
  pages and page limits, the binary codec and its checksums (a record that is
  not complete is one value), buffers that shrink when idle. There is one archive.
- *Terminal host*: what a checkpoint holds, directory reports (OSC 7), the paging of an
  attach's archive. Leases are `TerminalControl`'s matter: here a mutation is granted or
  refused.
- *Transport*: HTTP routes, uploads, device revocation on the host's side. `EventStream` and
  `WebTransport` split the client's end: cursor there, sockets and requests here.
- *Mux runtime and store*: `MuxRuntime` has one tab with all terminals, `MuxCatalogue` no
  processes; what a layout holds, authorisation, and the direct
  `terminal:create` and `terminal:dispose`, which start and end processes without
  the catalogue, are in neither. A process can always be identified (`capture_process_identity`
  may in fact fail, and its survivor is then not terminated).
- *Client API*: the snapshot stores, validation, and invocations that only pass on a
  request. *Multi-server*: pairing, subscriptions handed to panels.
- *Workers*: keys, mouse, links and selections, which are requests without protocol.
- *Frames*: what is inside a cell, cursor, overlays, selection, scrolling, themes, a new pixel ratio
  with the same backing store, a throw inside `resize` or `clear`, buffers on the GPU.
- *Window*: ratios beyond equal or not, moving a terminal in from another window, a new window when
  all panes are full, failed requests, rectangles and viewport edges.
- *Panel*: launching a process of its own, previews, links, titles.
- *Composition*: the parts of the browser are checked side by side, not against each
  other or the host's modules; each assumes of its neighbours what the code uses of them.
- *Device authentication*: scopes, rate limits by time, signatures (right or wrong, a choice).
- *Desktop client*: painting, keys, several sessions; the Tauri shell.
- *Not started*: key maps and navigation history; input and pointer events of a surface.
- *Out of reach or without protocol*: other UI, the vendored
  terminal and its bindings, codecs and schemas, service installation, scripts.

Further places where something can hang or stay, which the models leave out: a socket send without a timeout
(`server/server.rs:777`), which fairness assumes away; an owner that waits for a child that
closed its terminal and lives on (`server/terminal.rs:1833`); index states of closed
archives that nothing evicts (`server/terminal_history.rs:991`).

Known behaviour that no property forbids: a transfer passes the caller's own
principal for the target connection (`server/terminal.rs:1683`), so a target of
another principal cannot use the lease until it expires; a mutation without a
fence acquires a lease on the spot (`:1424`) and is not deduplicated; releasing
the leases of a closed connection is dropped when the urgent lane is full
(`:1019`).

## 7. Plan

Left to model:

1. Input, pointer and viewport scrolling of a surface; selection and overlays in `SurfaceFrames`.
2. Total quota, retention and deletion in `TerminalHistory`, with several archives.
3. Navigation between windows, and `MuxRuntime` with two terminals over the process
   lives of `TerminalHost`.

Proofs to add: `RecordsSurvive` of `TerminalHistory` with crashes and, step by step through a flush, its
refinement of `DurableLog`; the refinement of `FrameQueue` by the mailbox (lanes merged
by order number); `NoHole` of `TerminalResync`.

## 8. Running

```sh
tlasany TerminalHost.tla
tlc -workers 2 -config MCTerminalHost.cfg MCTerminalHost.tla
tlapm AccessProofs.tla              # and EventStreamProofs, MuxRuntimeProofs, TerminalHostProofs,
                                    # ConnectionOutboundProofs, MuxCatalogueProofs, PanelProofs,
                                    # HistoryProofs
```
