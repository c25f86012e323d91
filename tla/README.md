# S.P.E.C.T.R.E: a TLA+ model of the daemon and its page

S.P.E.C.T.R.E is an SSH workbench: a Go daemon that keeps SSH connections, SFTP
clients, terminal sessions and tunnels alive, and a React page that talks to it
over HTTP and a few WebSockets. What is hard in it is not any single handler but
what handlers, goroutines and the page's callbacks do to each other. This
directory holds TLA+ models of those parts, TLC configurations that check them on
small instances, and TLAPS proofs of the properties that matter most.

Paths below are relative to `src/`.

## 1. Inventory

| component | code | state | operations |
|---|---|---|---|
| Upload limiter | `internal/sftp/upload.go` | `MaxConcurrent`, `active`, condition variable | acquire, release, SetMaxConcurrent |
| Upload pipeline | `web/src/hooks/useUploadQueue.ts`, `useSftpProgress.ts`, `internal/server/sftp_ws.go`, `server.go` | queue items, POSTs under way, `progressCh`, hub jobs, the page's socket | enqueue, reply, progress message, clear, settings, POST handler, broadcast |
| SSH manager | `internal/ssh/manager.go`, `server.go` | `connections` map, each connection's `State` and `Client` | connect, disconnect, monitor, keep-alive, loss handling, lookup |
| SFTP client cache | `internal/sftp/manager.go` | `clients` map and its lock | GetOrCreate, Remove |
| Tunnel manager | `internal/tunnel/manager.go`, `internal/server/tunnels.go`, `internal/store/tunnels.go` | `running` map, rows, listeners | create, start, stop, delete, update |
| SOCKS5 server, port forward, tracker | `internal/proxy/` | listener, forwarded connections, counters | start, accept, close, snapshot |
| Terminal sessions | `internal/ssh/terminal.go`, `web/src/components/terminal/` | session map, output buffer, attached socket | create, attach, detach, pump, kill |
| Terminal tabs | `web/src/store/terminalStore.ts`, `pages/Terminal.tsx` | open tabs, active tab | add, reconnect, select, remove |
| Connections in the page | `web/src/store/connectionStore.ts`, `pages/`, `hooks/useSystemEvents.ts` | which account has which connection, alerts, the trust dialog | connect, disconnect, lost, trust |
| Tunnels in the page | `web/src/store/tunnelStore.ts`, `components/proxy/` | listed rows and statuses, busy flags | start, stop, delete, create, event, snapshot |
| Connection graph, forms, route trace | `web/src/components/proxy/` | last snapshot, form fields, last answer | draw, select, submit, trace |
| File manager page | `web/src/store/fileStore.ts`, `pages/FileManager.tsx` | connection, path, entries, selection | select, navigate, delete |
| Vault | `internal/crypto/`, `web/src/store/settingsStore.ts` | key in memory, stored hash, what the page believes of both | setup, unlock, lock, encrypt |
| Keys, groups, saved connections | `internal/server/keys.go`, `server.go`, `web/src/store/*.ts` | rows, the page's lists of them | create, rename, delete, assign, list |
| Known hosts | `internal/ssh/hostkey.go`, `internal/server/known_hosts.go` | known_hosts rows | check, trust, delete |
| Proxy routing | `internal/proxy/chain.go`, `dialer.go`, `internal/server/proxy*.go` | rows only | choose the route of a connection |
| Daemon | `internal/daemon/daemon.go`, `cmd/spectre/main.go` | pid and runtime files | start, stop, restart, status |
| Import, export, self update, tray, service, assets, other user interface | see `PROJECT.json` | little or none | |

How they interact: the SSH manager's lost-connection callback empties the SFTP
cache, ends terminal sessions and emits events; the SFTP handlers look a
connection up in the SSH manager before they ask the cache; a tunnel's start
borrows or makes an SSH connection; an upload takes an SFTP client, passes the
limiter, and its progress travels through a channel, the hub and a socket to a
page that also gets the POST's reply on another connection. Every store of the
page is fed by the replies of its own requests and, for connections and tunnels,
by a socket's events, which travel apart.

What is hard, component by component, and what makes it right:

- **Limiter.** A condition variable with `Signal` on release and `Broadcast` on a
  new limit; sleepers compete with newcomers. Right when no wakeup is lost, the
  counter balances, and no transfer starts above the limit in force.
- **Pipeline.** Reply and progress of an upload travel separately and in any
  order; events are dropped when a buffer is full or no socket is open; server
  and page clamp the same limit differently. Right when the page keeps its slots
  busy, the hub forgets finished jobs, every upload ends, and an item's final
  state is wrong only if its last event was really lost.
- **SSH manager and SFTP cache.** The monitor, the keep-alive probes, disconnect
  requests and lookups all touch one connection; the cache holds its lock across
  a call to the host. Right when a connection ends once, whoever ends it ends all
  of it, nothing of a lost connection stays cached, and nobody is stuck for good.
- **Tunnels.** `Start` gives up its mutex for the SSH connect and the listen.
  Right when a running tunnel listens on an address of its own, no listener is
  forgotten, and row and running tunnel agree.
- **Terminal.** Attach, detach, the output pump and the notices of the end use
  three locks, and one of them writes with none; a page that comes back attaches
  before its old socket's handler detaches. Right when what a page shows has no
  gap, the newest socket stays attached, and the end is told.
- **Stores of the page.** Replies of two requests may come in the other order,
  events come before or after the reply they belong to, and the user moves on
  while a request is under way. Right when a list that has settled is the
  daemon's, what is shown belongs to what the page names, and nothing live drops
  out of sight. Where the code does not prevent a wrong order, the property says
  exactly which order has to happen first.
- **Vault, keys, groups.** The handlers read the database, decide, and write in
  separate statements with nothing held in between. Right when what was encrypted
  can be decrypted with the accepted password, and rows name only keys and groups
  that exist, but for the interleavings the properties name.

`PROJECT.json` lists under `hazards` each of these at the line where it bites,
with the properties that cover it or the reason none does.

## 2. Modules

| module | models | used by |
|---|---|---|
| `UploadLimit` | abstract: a set of transfers bounded by a limit that changes | `UploadSlots` |
| `UploadSlots` | the limiter of `upload.go` | `UploadPipeline` |
| `UploadPipeline` | page, POST handler, `Upload`, channel, hub, socket around `UploadSlots` | `MCUpload` |
| `ConnectionLifecycle` | abstract: a connection is visible once, ends once, is told after | `SshManager` |
| `SshManager` | SSH manager, SFTP cache and their handlers | `MCSshManager` |
| `TunnelManager` | tunnel manager, handlers, rows and listeners | `MCTunnelManager` |
| `TerminalSession` | one terminal session and the pages that come and go | `MCTerminal` |
| `TerminalTabs` | the tabs of the terminal page and the sessions behind them | `MCPage` |
| `ConnectionPage` | the page's connection store and the places that connect | `MCPage` |
| `TunnelPage` | the page's tunnel store, its socket and its two lists | `MCPage` |
| `ProxyGraph` | the SOCKS5 tracker, its snapshots and the graph drawn of them | `MCPage` |
| `ProxyForms` | the dialogs that create tunnels | `MCPage` |
| `RouteTrace` | the Route Trace tab | `MCPage` |
| `FilePage` | the file manager | `MCPage` |
| `GroupPage` | groups and the saved connections in them | `MCPage` |
| `KeyPage` | the key store and the connections that name keys | `MCPage` |
| `VaultPage` | the vault, its modal and the settings page | `MCPage` |
| `UploadSlots_proofs`, `UploadPipeline_proofs`, `SshManager_proofs`, `TunnelManager_proofs`, `TerminalSession_proofs` | theorems and proofs about the module of that name | |
| `ListPages_proofs` | theorems about `ConnectionPage`, `TunnelPage`, `GroupPage` | `Page_proofs` |
| `ToolPages_proofs` | theorems about `FilePage`, `TerminalTabs`, `RouteTrace`, `ProxyGraph`, `ProxyForms` | `Page_proofs` |
| `Page_proofs` | theorems about `VaultPage`, `KeyPage` and `MCPage` as a whole | |
| `MC*` | instances for TLC | the `.cfg` files |

### UploadSlots, UploadPipeline

Each upload is one goroutine. In `UploadSlots` an action is one critical section
of `limitMu`: a newcomer or a woken sleeper tests the limit and takes a slot or
sleeps (`Acquire`), a holder gives its slot back and signals one sleeper
(`Release`), a new limit wakes everybody (`SetMaxConcurrent`). `slot` says where
each goroutine is. A limit outside 1..10 becomes 3.

`UploadPipeline` extends it. On the page an action is one run of JavaScript
between two awaits: `Enqueue`, `ReplyArrives` (which also starts the next item),
`UpdateFromWS`, `SettingsReachBrowser`, `ClearCompleted`. `ProcessQueue` is
`processQueue` called up to `k` times in a row, as `setMaxConcurrent` does. On
the server `request[i]` follows a POST through `RegisterJob`, `AcquireSlot`,
`BeginTransfer`, `ReportProgress`, `EndTransfer` and `ReleaseSlot`; `progressCh`
is the bounded channel with its non-blocking send; `HandleProgress` is the
broadcaster and the hub, which blocks on a full socket. Files are abstract; only
the kind of an event (uploading, done, error) is kept. `lost` and `dropped` are history
variables: the items whose last event reached no page, and those for which it found
the channel full.

Left out: bytes and speeds, `ProgressWriter`'s throttling (any number of
`ReportProgress` steps may happen), a reply that is lost between page and daemon,
more than one page, `clearCompleted` while something is still pending (the page
calls it only when nothing is).

### SshManager

`connections`, `state` and `hasClient` are the manager's map and the fields of
`ManagedConnection`; `transport` is what TCP and the host know of the connection.
`reporter[c]` holds the program counters of the monitor and of the probes of
connection `c`, with the steps of `handleConnectionLost` and of the callback
`server.go` installs (`LostMark`, `LostClean`, `LostTell`, `LostForget`,
`LostClose`); `disconnect` and `leaving` are the handlers of a user's disconnect,
from the lookup to the event; `request`, `wanted`, `sftpClients` and `sftpLock`
are the SFTP requests and the cache, whose lock is held from `SftpGets` to
`SftpOpened`, over a call to the host. `MonitorWaits` on a nil client sets
`crashed`: `Wait` panics, nobody recovers, and no action is enabled from then on.

Left out: terminal sessions (the callback and `Disconnect` also end those:
`ShellEnds` of `TerminalSession`), the content of events, failed dials (they change nothing), and the route a dial
takes.

### TunnelManager

A request is an HTTP handler: start, stop, delete or update, with a program
counter, the row it has read and the listener it has in hand. `running` is the
manager's map; `holder` says which tunnel opened the listener on each port, which
is what the operating system knows. Port 0 asks for any free port, and the entry
then reports the row's port 0, as `BindAddr` does. An action is one critical
section of `Manager.mu`, one SQL statement, or one slow call (connect, listen,
close). `raced` and `twiceStarted` are history variables: the tunnels on which
two requests, or two starts, overlapped. They only ever grow until the tunnel's
id is new again, and no code action reads them.

Left out: hosts (all tunnels bind one), the connections through a tunnel (a stop
waits for them for any time, `StopReturns`), `Stats` and the lists, the SSH side
(a connect succeeds or fails; which connection it is does not matter here).

### TerminalSession

One session: `pump` is the goroutine of `pumpOutput`, whose chunk is kept
(`PumpReads`) before it is sent (`PumpSends`, `PumpSent`); `handler[w]` follows
`handleTerminalWS` of the `w`-th socket through `AttachWebSocket`, the greeting and
the deferred `DetachWebSocket`; `notice[n]` follows `notifyDisconnected` for each of
its callers: the pump, `waitClose`, and the manager's loss handling. `page`, `shown`
and `told` are what the pane of each socket has. A user leaves the page and comes
back on the next socket, while the old handler may not have noticed yet. A write to a
socket has a beginning and an end; where two goroutines write to one socket at a time
the socket may be `garbled`, and nothing more need arrive on it, because what
the WebSocket library does then is not specified. `displaced` has the sockets
whose place in `wsConn` another socket's handler took.

Left out: input, resize and ping messages (nothing modelled here depends on them) and
the size of the terminal. Chunks are numbered, and the buffer's limit is in chunks.

### The page

Each of these modules has one store or component of the page together with the daemon
handlers that answer it. A request is a record with its state (`at`), and an action is
one run of JavaScript between two awaits, one statement or critical section of a
handler, or one delivery. Replies, events and the user's steps come in any order.

- **ConnectionPage.** `activeConnIds`, `connectingIds`, `cardAlerts` are the fields of
  `connectionStore.ts`. Connects start at a card, at the Dashboard, at a terminal's
  Reconnect, or after a changed host key was trusted, each with its own guard.
  `MarkConnectionLost` removes the account's entry whichever connection the event is
  of. `/ws/system` is opened once; events emitted after it dropped reach nobody.
  A tunnel's start may dial the account too (`TunnelLooksUp`, `TunnelConnects`): no
  event and no reply names that connection, so the page never shows it, but it is in
  the map that a later connect or disconnect of the account finds.
- **TunnelPage.** Replies, lifecycle events and the snapshots that the daemon sends to
  every client whenever one connects change one list; `busy` is one flag per list. It
  belongs to the component, so leaving the page and coming back (`ProxyPageReopened`)
  takes it down while its request goes on (`left`). `Blocked` are tunnels whose port is
  taken, whose start is always refused. One page creates and deletes rows: nothing tells
  a second page of that but its next list.
- **ProxyGraph.** `tracker.go`'s registration, close (by either side) and counters,
  the snapshot, and what `ConnectionGraph.tsx` makes of the last one: order, cut,
  tiers, icons, rings, edges and the panel of the selected node. `destNodeID` may map
  two destinations to one node. Pan, zoom, hover and coordinates are left out.
- **ProxyForms.** The suggested port, the SOCKS dialog, whose key mounts it anew when
  the list changes, and the forward dialog, whose button does not wait.
- **RouteTrace.** A trace goes through the connection or, when it is down, from the
  daemon's machine; meanwhile the fields may change. The parsing of the tracers' texts
  is left out: a trace answers one of `Answers`.
- **FilePage.** Connection, path, list and home requests, the selection, and both ways
  to delete. Making a directory is a request and a refresh (`Refresh`). Drag and drop
  and downloads are left out.
- **GroupPage.** Each request with its reads and writes as separate steps:
  `handleUpdateConnection` reads a row and saves all of it later, which also
  inserts a row deleted in between. `crossed` has the rows that were assigned a group
  that was going.
  `groupStore.error` is no part of the state, because no component shows it: a list that
  fails leaves the old one standing (`groupsUnlisted`).
- **KeyPage.** `handleDeleteKey` counts, then deletes; the forms wait for the list that
  follows a change. Key files and their encryption are left out.
- **VaultPage.** `handleVaultSetup` looks for a hash, stores its own and unlocks in
  three steps; unlock in two; status reads hash and lock one after the other. A key and
  a hash are told by the password they come from; ciphers are left out.
- **TerminalTabs.** `removeTab` sends a kill and does not wait; a reconnect gives the
  tab a new session without a kill of the old one; a reload (`TabsReload`) empties the
  store while the daemon keeps every session and completes what it was asked.

`MCPage` puts the ten next to each other. They share no variable in the model: what the
stores share in the code are connection identities, which each module takes as given.
A behaviour takes up one part, so the run explores the ten one after the other, and a
property of one part is checked in all its states and in the initial state of the others.

## 3. Runs

| run | cfg | question | result |
|---|---|---|---|
| `upload` | `MCUpload.cfg` | types and clamps, `ActiveCountsHolders`, `NoIdleSlot`, `BrowserKeepsSlotsBusy`, `HubForgetsFinishedJobs`, `StuckOnlyAfterLoss`, `LimitRespected` (refinement) | hold |
| `upload_settles` | `MCUploadSettles.cfg` | `EveryUploadSettles` (liveness): every file enqueued, posted at once or not | holds |
| `upload_target` | `MCUploadTarget.cfg` | `UploadGoesToItsTarget` | violated, finding 1 |
| `ssh_manager` | `MCSshManager.cfg` | types and event counts, `EndedConnectionsAreClosed`, `LossLeavesNoSftpClient`, `LifecycleKept` (refinement) | hold |
| `ssh_closing` | `MCSshClosing.cfg` | `LostConnectionsAreForgotten`, `EndedConnectionsGetClosed` (liveness) | hold |
| `ssh_crash` | `MCSshCrash.cfg` | `DaemonSurvives` | violated, finding 2 |
| `tunnels` | `MCTunnelManager.cfg` | types, `RunningTunnelListens`, `RunningAddressesDiffer`, `OrphanNeedsTwoStarts`, `SerialRequestsKeepRows` | hold |
| `tunnel_busy` | `MCTunnelBusy.cfg` | `PortBusySaysError` | violated, finding 3 |
| `tunnel_stop` | `MCTunnelStop.cfg` | `StopFreesThePort` | violated, finding 4 |
| `terminal` | `MCTerminal.cfg` | types and the buffer's limit, `CatchUpHasNoGap`, `AttachedUnlessDisplaced`, `EndIsTold` (liveness) | hold |
| `terminal_reopen` | `MCTerminalReopen.cfg` | `ReopenedPageGetsOutput` | violated, finding 5 |
| `page` | `MCPage.cfg` | the types of every part and the properties below | hold |

The properties of `page`, by module:

| module | property | says |
|---|---|---|
| `ConnectionPage` | `LiveCardsAreLive` | a card that says live names a live connection, or one whose end is on its way, reached no socket, or overtook the reply |
| `ConnectionPage` | `NoConnectionGoesAstray` | the page loses sight of a live connection it asked for only by a reload or by a connect, the page's or a tunnel's, that overlapped another step of the account |
| `FilePage` | `RowsBelongToThePage` | the rows are the listing of the connection and path the page names, unless list requests overlapped a move |
| `FilePage` | `DeletesHitListedPaths` | what is deleted was listed by the connection it is deleted on |
| `TunnelPage` | `PageShowsDaemon` | with nothing under way the page shows the daemon's rows and statuses, unless the socket dropped or rows came late or twice (rows created and deleted by one page) |
| `TunnelPage` | `OneRequestPerRow` | a row gets a second request only after another row took over the list's busy flag, or the page was left and opened again meanwhile |
| `ProxyGraph` | `CountersBalance` | the tracker's active counts are the open connections, whoever closes them and how often |
| `ProxyGraph` | `GraphTellsTheCounts` | the graph cuts the least busy, and circle, icon, ring, edge and panel agree where no two destinations share a node |
| `RouteTrace` | `ShowsTheLastTrace` | the tab shows the last trace's answer, under that trace's host and connection |
| `GroupPage` | `RowsKeepTheirGroups` | a row names an existing group, unless it was assigned one that was going |
| `GroupPage` | `GroupListSettles` | with no call under way the sidebar has the daemon's groups, unless a list failed, which nobody is told, or two replies came in the wrong order |
| `KeyPage` | `KeyListSettles` | a list of keys that has settled is the daemon's, or an error is shown, unless two replies came in the wrong order |
| `VaultPage` | `EverySecretOpens` | everything encrypted opens with the accepted password, unless two set-ups overlapped |
| `KeyPage` | `NamedKeysStay` | a saved connection's key exists, unless it was saved when the key was going |
| `ProxyForms` | `SuggestedPortsDiffer` | proxies created with suggested ports differ in port, if the list the suggestion came from still held |
| `TerminalTabs` | `SessionsHaveTabs` | a session no tab shows was left by a reload, a reconnect, a tab closed meanwhile, or a lost answer or kill |

The exceptions in these properties are not slack: each is a behaviour of the code
that breaks the plain statement, kept in a history variable that only those steps
set, so that any other way to break it is an error of the run.

Deadlock is checked in the upload and tunnel runs. In the SSH, terminal and page runs
it is not: those systems do stop, when every identity, chunk or request is used up or
the daemon has crashed.

For each property of a passing run `PROJECT.json` names a mutant: an operator next
to the one it replaces, with the bug the property is there to find.

### Bounds

- **Uploads:** two files, limits 1 and 3 (or 1 and 2 in the liveness run), a
  channel and a socket of one message. Two files are what competes for one slot
  and fills a channel of one; a third adds a second sleeper, which the proofs
  cover. The requested limit 11 is one the server takes for 3 and the page
  for 10, so the limit is lowered and raised on both sides. Two connections let a file go to the wrong one.
- **SSH:** two connections of one account, one probe and the monitor of each, one
  disconnect and one SFTP request. Two reporters and a disconnect are all the
  parties that end one connection; a second connection is what the disconnect by
  account may pick instead and what waits at the cache's lock. The liveness run
  has no probe: the probe takes the monitor's path. The crash run needs a single
  connection. A connection is dialled once (`Conns` bounds the dials).
- **Tunnels:** two tunnels that want port 1 or any port, two ports the system
  assigns (one of them port 1), two requests at a time. All hazards of `Start`
  are races of two requests on one tunnel or on two; a third only adds another
  copy of them. `Kinds` is a forward that is served and one that is not;
  SOCKS5 differs from a forward only in `StopReturns` and in port 0.

- **Terminal:** two sockets, so that one page leaves and the next comes; two chunks and
  a buffer of one, so that the buffer loses the older chunk; one watcher beside the
  pump, so that two goroutines tell the end. The proofs cover any number of each.
- **Page:** two requests under way at a time in every part, which is what one race
  needs; two ids that are alike (connections, keys, tabs, passwords of eight
  characters, proxies); one short password; three sessions for two tabs, so that a
  reconnect finds one; one saved connection and one group, one account with
  two connections; two SOCKS proxies in one list, so that one row takes over the flag of
  another: one is created, the other is there and its port is taken, so that its start
  fails and frees the flag (the two lists are alike, so the forwards' is left empty); an
  event buffer of one; three destinations of which two share a node and a graph cut
  to one node; two hosts to trace and answers with and without a silent hop; one
  directory and one file below the root. A ring has one segment, since only whether there
  is a ring is told apart.

Symmetry is declared in safety runs only: files and connections in `upload`,
connections in `ssh_manager`, tunnels and requests in `tunnels`, requests and alike
ids in `page`.

### Fairness

- **Uploads:** weak fairness on each step of a goroutine that is not blocked, on
  the end of a transfer (the transport reports an error when it is dead) and on
  the delivery of replies and messages. None on the user's steps and none on
  opening a socket. Weak fairness is enough for `AcquireSlot`: a newcomer or a woken
  goroutine stays ready until it has tested the limit and got a slot or gone to
  sleep.
- **SSH:** weak fairness on goroutines and on calls to a host, which end with an
  answer or when TCP gives up; strong fairness on the two steps that wait for the
  cache's mutex (`LostClean`, `DisconnectCleans`), because a Go mutex hands itself
  to a waiter that has starved for a millisecond. Nothing makes a transport die
  or a user disconnect.
- **Tunnels:** none. `PortForward.Stop` waits for its peers without a bound, so
  the code justifies no liveness property of a request.
- **Terminal:** weak fairness on the pump, on each caller of `notifyDisconnected` and on
  each socket's handler: they are goroutines that wait at most for `wsMu`, which its
  holders always release, and for a write. None on the shell, on a kill or on the
  pages. `EndIsTold` promises nothing to a socket that is garbled, left or displaced.
- **Page:** none; only safety is checked there. A reply may never come.

## 4. Findings

1. **A file may go to another connection than it was dropped on.** Items carry no
   connection; `processQueue(connId)` posts the first pending item to the
   connection of whichever call got there. `SPECTRE-SKILLS.md` gives the item a
   `connectionId` and uploads to it. Files enqueued for two connections while the
   slots are full show it.
2. **A disconnect can take the daemon down.** `monitorConnection` reads
   `conn.Client` without the lock after the connection is in the map; `Disconnect`
   sets it to nil. In between, `Wait` is called on nil and its panic ends the
   process, and with it the sessions that `README.md` says persist.
3. **A refused start is told as stopped.** `SPECTRE-API.md` documents status
   `error` for a port that is in use; the first check of `Start` returns without
   `setError`, so the event carries `stopped`.
4. **A stop can leave the port bound.** Two overlapping starts of one tunnel: the
   second cannot listen and its `setError` replaces the first one's running entry.
   The tunnel's stop then finds no listener to close.
5. **A page that is reopened may get no output.** `DetachWebSocket` clears `wsConn`
   whoever is attached. The handler of a page that left detaches when its read
   fails, which may be after the user came back: the new page has had the buffer and gets
   nothing more. `.cursor/skills/spectre/architecture.md` promises "`buffer` catch-up +
   live `output`" to a page that is reopened.

Other behaviour met on the way contradicts no text of the repository, and is stated
as an exception of a property instead: the event of an old connection removes the
account's newer one from the page (`NoConnectionGoesAstray`); an old list reply fills
the page of another directory or host (`RowsBelongToThePage`); saving a row
that was deleted after it was read inserts it again, and a group that is being deleted
can still be assigned (`RowsKeepTheirGroups`); two vault set-ups leave a key
that the stored hash does not accept (`EverySecretOpens`); a reconnect leaves the
tab's old session running, and a reload all of them (`SessionsHaveTabs`); one row's
answer, or a visit to another part of the page, frees another row's buttons
(`OneRequestPerRow`); a connection made for a tunnel is shown nowhere
(`NoConnectionGoesAstray`); a list of groups that fails is shown nowhere
(`GroupListSettles`).

## 5. Proofs

All theorems hold for every value of the constants that meets the `ASSUME`s: what is
counted is finite (`Jobs`, the connections through a proxy `Routed`, the ids of proxies
`ProxyIds`); the requested limits are integers and the buffers' sizes numbers; the
"no value" constants are not values; ports are positive; a path has a name, and what
is above a directory is a directory or the root (`DirNodes`); a tracer's answer has a
hop, and each is alive or timed out (`Answers`). TLC checked each formula, the
inductive invariants among them, before it was proved.

Every invariant and every refinement that a passing run checks is a theorem, and so is
the action property `AttachedUnlessDisplaced`; the four liveness properties are not.

- **`UploadSlots_proofs`.** `NoIdleSlot` is not inductive: a release may hand the
  last wakeup to a goroutine that a newcomer then overtakes. `SlotInv` strengthens
  it to `SleepersCovered`: as long as somebody sleeps, the slots in use and the
  wakeups under way fill the limit between them. With the exact counter
  (`CounterIsExact`) it gives `NoWakeupLost`, and `LimiterImplementsLimit`, the
  refinement of `UploadLimit`.
- **`UploadPipeline_proofs`.** Every step of the pipeline is a step of the limiter
  or leaves it alone (`PipelineUsesLimiter`), so the limiter's theorems hold of the
  whole pipeline. `PipeInv` is the page's side. `QueueInv`: an item is in the queue
  once, and the count of POSTs is exactly the number of items at work, so that with a
  free slot nothing stays pending (`NoFreeSlotLeft`). The theorem rests on what
  `processQueue` called `k` times takes, all that are pending or at least `k`: the
  first position that it leaves has that many before it. `EventInv`: every
  item whose end is not told yet has its last event behind each earlier one, in the
  channel, the hub or the socket, unless it is in `lost`, and a job's entry in the hub
  outlives its upload only with that event in the channel, or in `dropped`; this gives
  `HubForgets` and `NoUploadLooksStuck`.
- **`SshManager_proofs`.** The inductive invariant says who is at work on a
  connection: nobody before it is registered, at most one goroutine that won the
  report of its loss, at most one disconnect that deleted its entry, and that the
  winner of a loss has emptied the cache before it tells anybody. Event counts
  are part of the types, so `TypeCorrect` contains that each event is sent at
  most once. `NoSftpClientAfterLoss` needs `LossHasCause`: a client opens only
  over a transport that still answers, and loss is reported only after it does
  not. `Closers` adds that a connection that has ended and is still open has
  a goroutine that will close it, which gives `EndsAreClosed`.
  `ManagerImplementsLifecycle` is the refinement.
- **`TunnelManager_proofs`.** In layers, each proved from the ones before.
  `TypeInv`: the types. `HandInv`: a listener in a request's hand has one owner and
  is in no entry; gives `RunningListens` and `AddressesDiffer`. `StartsInv`: while
  only one start of a tunnel is at work the tunnel does not run before it
  registers, and each listener is in a hand or in the entry; gives
  `OrphansComeFromTwoStarts`. `SerialInv`: what the only request on a tunnel that
  was never raced knows of its row; gives `SerialRowsKept`.
- **`TerminalSession_proofs`.** `SessionInv` adds to the types who holds `wsMu`
  (`LockInv`), that the buffer is the end of the output (`BufferInv`), that a socket
  shows nothing before its handler has written the buffer (`FreshInv`), and, in
  `ShownInv`, how far an attached page is: up to date while the pump reads, and one
  chunk behind while it has one in hand, unless it got that one out of the buffer and
  has had no other twice. This gives `NoGap` (`CatchUpHasNoGap`) for any output,
  buffer and number of sockets, and `StaysAttached`.
- **`ListPages_proofs`.** Three lists that the page keeps of what the daemon has.
  - `ConnInv`: a connection belongs to the account under which a reply, an event or the
    page has it, and each that the page shows or is told of can be traced: it is alive,
    its end is under way, or the page missed that. A connection of a tunnel's start is in
    no reply. An account that was never raced is
    `Orderly`: one connection that the page asked for, one request, and none alive while
    a request is with the daemon or an end is under way. `CardsAreLive` and `NoneGoesAstray` follow.
  - `TunnelInv`: nobody knows of a row before it is created; the last event on a row
    tells its status; a row that the page has wrong has a reply or an event under way
    that makes it right (`Settling`), which gives `PageSettles`; a busy flag that no
    other row took stands for the one request of its row since the page was opened
    (`FlagsStand`), which gives `RequestsOfARow`.
  - `GroupInv`: besides `RowsKeepTheirGroups`, some call under way will tell the page
    the groups as they are, or the page has them, unless a list failed or was overtaken
    (`GroupsTold`).
- **`ToolPages_proofs`.** Five tools of the page.
  - `FileInv`: of a page that no request overlapped, every list under way is for what
    it shows, and what is selected was listed by its connection.
  - `TabsInv`: a call has a session just when the daemon has given it one, no tab is
    there twice, and every tab has a session. A tab is removed at its position, so
    the others keep theirs (`OthersStay`).
  - `RouteInv`: no trace is under way but the last, what is shown is of the last, and
    the hops of a result say where it came from and how far it came.
  - `TrackerInv`: each destination's counters are the cardinalities of the sets of
    connections they count. `GraphInv` adds that each row of the snapshot has the
    counts that the connections listed with it have, which a connection made
    later does not change. `GraphTells` then needs no more of the sort than how many
    rows are ahead of one: those ahead of a row are ahead of every row it goes
    before. `ProxyGraph` states the order that way.
  - `FormsInv`: a form nobody typed in suggests a port that its list did not have in
    use. That there is one is a pigeonhole argument over as many ports as rows and one
    more; that the first is found is a least element.
- **`Page_proofs`.**
  - `VaultInv`: `EverySecretOpens` is not inductive: it needs that, while no two set-ups
    have overlapped, a set-up past its check still finds no hash, one that has stored
    still finds its own, and an unlock past its check has the stored password
    (`OneSetup`); and that the page never asks for an unlock while there is no hash
    (`ConfiguredMeansHash`), where the handler accepts any password. The last is a
    theorem of its own, `NoUnlockWithoutHash`.
  - `KeyInv`: `NamedKeysStay` needs what a deletion under way knows (`CountHolds`): once
    it has counted, no connection names its key but one saved since, which `savedLate`
    holds; and that every save under way is of a connection (`SavesHaveUsers`).
    `ListInv` adds which call will tell the page the keys, and that the spinner turns
    for a list under way, and gives `KeysSettle`.
  - `PageRunsItsParts`: every behaviour of `MCPage` is one of each of the ten parts, so
    the theorems about the parts hold of what the run explores; `PageTypes` is the
    first of them put together.

Where a proof needs induction over numbers (a first or a last position, a least port)
it takes a least element (`WFMin` with `NatLessThanWellFounded`): the library's
induction theorems have an operator as a parameter, and so have the facts about `SelectSeq`
and `SortSeq`, which the provers cannot instantiate. For that reason no module
sorts or selects a sequence: `ProxyGraph` counts what is ahead of a row instead, and
`UploadPipeline` says which items are the first `k`.

The provers say nothing of liveness, which needs fairness and ENABLED:
`EveryUploadSettles`, `LostConnectionsAreForgotten`, `EndedConnectionsGetClosed` and
`EndIsTold` are only model-checked.

## 6. Plan and what is not modelled

Next, in order of importance:

1. Proofs: the safety half of the liveness properties (a step that is due stays due
   until it is taken), and what `SshManager` and `ConnectionPage` say of one connection
   in common.
2. Composition of `TunnelManager` with `SshManager`: a tunnel over a connection that
   is lost. Nothing tells the tunnel, so there is nothing to check of it but that.
3. The daemon's pid and runtime files over stop, restart and a second start.

Not modelled, and why:

- The route of a dial (chain, tunnel or direct) and import and export: decisions
  within one request, from rows nothing else changes meanwhile; the dial's outcome is
  any, in every module that dials.
- The daemon's life cycle, the tray and the service manager: calls to the operating
  system by separate processes.
- First use of a known host, its list and removal, and the other tables: single
  statements. A changed key and its trust are in `ConnectionPage`.
- Ciphers, key files, the SSH and WebSocket libraries, and remote files: external.
  `TerminalSession` takes two writers on one socket as a socket that may fail.
- The system hub's unlocked write: its events are whole or lost in `ConnectionPage`
  and `TunnelPage`; `TerminalSession` follows the same hazard for a session's socket.
- Self update, version texts, the tracers' output: text processing without state.
- Authentication: checks of one request. Layout, animation, statistics: shown only.
