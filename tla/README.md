# LanClipBoard in TLA+

LanClipBoard (`src/`) shares the clipboard of desktops on one network. Every
machine runs the same process: it polls the desktop clipboard, posts what the
user copies to the machines it knows, keeps the latest entry of each machine,
and writes a received entry to the desktop clipboard when the user presses a
hotkey, or at once under Wayland. This directory holds TLA+ models of the process
and of its network, the TLC configurations that check them, and proofs
checked by TLAPS.

## Inventory

| component (file) | state it keeps | operations | interacts with |
|---|---|---|---|
| clipboard monitor (`clipboard_listener.py`) | `last_fingerprint`, the entry being sent | poll, swallow a change, publish, broadcast | reads the desktop clipboard; storage, allowlist, peer registry; posts to peers |
| storage (`clipboard_storage.py`) | `storage_dict`, the end of the suppression window | `store_clipboard_entry`, `get_latest_clipboard_entry`, `mark_programmatic_clipboard_write`, `has_entry` | called by monitor, handlers, worker and keyboard thread; queues pastes under Wayland |
| HTTP API (`api_module.py`) | nothing of its own | `handshake`, `post_clipboard_entry`, `get_file`, `broadcast_to_peers`, `get_files` | peer registry, storage, allowlist of this machine; the API of the others |
| paste worker (`paste_queue_handler.py`) | the entry in hand | take, download, write the clipboard, mark | queue, storage, `/api/file` of the origin, desktop clipboard and keyboard |
| allowlist (`shared_file_registry.py`) | path -> expiry | register, test, prune | monitor, `get_file` |
| peer registry (`peer_registry.py`) | candidates, authorized peers by address and by device id | mark, accept?, authorize, revoke | discovery, handshake endpoint, every peer check |
| discovery (`mdns_discovery.py`) | services seen, addresses of services, rate limit | bootstrap, resolve, three-attempt handshake, remove, announce | Zeroconf callbacks in another thread, peer registry, `/api/handshake` of the others |
| keyboard thread (`keyboard_listener.py`) | `pressed`, `combo_active` | press, release, Windows filter | puts the newest entry on the queue; hears the keys the worker types |
| platform clipboards (`*_clipboard.py`) | the desktop clipboard | read, write, type the paste keys | monitor and worker |
| start and shutdown (`main.py`) | all of the above | lifespan: load, start threads, serve, join | every other part; the signals of the window |
| configuration window (`config_ui.py`) | the form, the status label, `server_process` | load, save, reset, generate and import keys, start, stop | writes the YAML file, starts and terminates a server process |
| configuration file (`config/config_loader.py`) | YAML | `load_config` | window, `main.py` |
| encryption (`security_services.py`) | key archives, encrypted copies of files | `encrypt_file`, `decrypt_file`, texts, archives | API, window, `main.py` |

What is hard here: three threads, an event loop and Zeroconf's thread share the
storage, the registries and the desktop clipboard; a write of the worker is told
from a copy of the user only by the clock; posts time out at the sender while the
receiver still serves them; clocks of two machines order entries; peers come and
go between a check and its use; bootstrap handshakes run before anybody listens;
files change and answers break off while they are downloaded; a server takes its time
to end after the window has asked it to; and the keyboard thread hears the worker's own
keys. What makes each part correct:

- storage: the entry of a machine is its own, and never replaced by an older one;
- monitor and worker: what the worker writes is not broadcast again, what the
  user copies is, and the exchange ends;
- API: entries come only from peers, under the address they came from; a file
  can be fetched as soon as a machine knows of it;
- file transfer: what is pasted is complete, decrypted and what was listed; an
  encrypted copy belongs to one response and goes with it; a worker comes back;
- window and process: "Stopped" is true, there is one server, it runs with what the
  window showed, and Stop ends it;
- discovery: only invited machines are authorized, and machines that stay up end
  up linked;
- keyboard: one chord, one paste, and the hotkey is never dead.

`PROJECT.json` lists every hazard at its line with the properties that cover it.

## Modules

| module | models | lines of the code |
|---|---|---|
| `LatestStore` | abstract: per node the latest item of each author | - |
| `ClipboardSync` | monitor, storage, ingestion, broadcast, allowlist, download, worker of every node, the network and restarts | `clipboard_listener`, `clipboard_storage`, `paste_queue_handler`, `shared_file_registry`, most of `api_module` |
| `SuppressionWindow` | monitor and worker of one machine against the clock | `has_entry`, `mark_programmatic_clipboard_write`, the sleeps |
| `Discovery` | peer registry, bootstrap, mDNS, handshake endpoint of every node | `mdns_discovery`, `peer_registry`, `handshake`, the lifespan up to the yield |
| `Hotkey` | the listener, the user's keys and the keys the worker types | `keyboard_listener`, the end of `paste_clipboard_entry` |
| `FileTransfer` | one origin and its files, several clients that download lists of them | `get_file`, `get_files`, `encrypt_file`, `decrypt_file`, `shared_file_registry` |
| `Configurator` | the window, its files and the life of the server processes | `config_ui`, `load_config`, the lifespan of `main.py` |
| `MC*` | the instances that TLC checks | - |
| `ClipboardSync_proofs`, `_safety_proofs`, `_refinement_proofs`, and one `_proofs` module for each of the others | theorems | - |

### ClipboardSync

A step is what a thread does between two points where another thread or machine
can notice it. The monitor's loop body is cut at the poll (`ReadClipboard`), at
`has_entry` (`Swallow` or `Publish`: one locked test, then assignments no other
thread sees, the fingerprint and, before anything leaves, the allowlist), at the
store (`StoreLocal`), at the snapshot of the peers (`StartBroadcast`) and at each
post. `Post` puts a request into `net` and goes on: with `httpx` the sender waits
at most two seconds, so whether the request has been served when the next one
leaves is open. A request is served in two steps because the peer list is read
before `await request.body()`: `Admit` and `Handle`. Serving order is free, so
late and reordered posts are covered; `Lose` drops one. `net` is a set:
a sender does not repeat a post, and two equal ones have the same effect.
The worker's write (`Paste`) and its `mark_programmatic_clipboard_write` (`Mark`)
are two steps, as in the code. A platform writer may fail silently (`PasteFails`:
the window opens all the same) or raise (`PasteRaises`: it does not).

Data: a text is a member of `Texts`, a file list one member of `Paths`;
`ReadAs` is what a node's `get_clipboard_entry` makes of a content (X11 and Wayland
strip texts, which the Wayland machine of the instances does to the second text);
`TempCopy` is the path under which a download is saved; `Oversized` holds what
`_new_entry_is_valid` refuses. Timestamps are `1..MaxStamp`, chosen anew at every
publication: clocks of different machines disagree and may be set back. Addresses
are `<<"id", n>>` (the device id an author writes) and `<<"ip", n>>` (what the
receiver puts in its place). The two expiries (1.5 s, 300 s) are steps that may
happen at any time; `SuppressionWindow` adds the clock. Requests
admitted by a process die with it, but a request in `net` sent by a process that
has stopped may still arrive.

### SuppressionWindow

One machine, time in ticks of half a second, `Poll`, `Window` and the longest
broadcast `PostTicks` as parameters. Contents are taken as the monitor reads them.
Threads are prompt: time passes only while the monitor sleeps or waits for a
peer, and not between the worker's write and its mark. Without that assumption no window
is long enough, so it favours the code; the interleavings of write,
look and mark within a tick are all there. Contents carry their author as a ghost,
which tells a hidden copy of the user from a hidden write of the worker. The ghost `age` counts
the ticks that the present content has waited for the monitor; it is cut one above
`Longest` = `Poll + PostTicks`, the longest round of the loop.

### Discovery

A node is `down`, `starting` (inside the lifespan, answering nobody) or `up`. A call
is a handshake with its remaining attempts, for bootstrap and for mDNS separately;
`Reach` is the whole endpoint, and `accepted` or `refused` is the answer on its way
back, so the peer can be removed, or the caller stopped, in between. `known` is
what the Zeroconf browser has reported and `services` what was resolved: the
removal of a service that was not resolved revokes nobody. `seen` is the rate limit
of five seconds, which may lapse at any time. Announcements repeat (`_periodic_announce`),
so `Hear` is always possible between two running nodes when multicast works. One
address stands for one device id, and several updates of a service that wait for
their resolution count as one. Nothing serializes the handshakes: five seconds after
the last one an update starts another, whether or not that one has ended. `Tasks` gives
each caller the places its overlapping mDNS calls may take; an update waits when all are in use.
The ghost `excused` holds the pairs that a stop, a removal or a lost answer has parted, until both
sides have each other again: `OneSidedExplained` says that nothing else leaves an
authorization one-sided.

### Hotkey

`held` is what the user's fingers do, `logical` what the desktop believes, `pressed`
and `comboActive` what the listener keeps. `KeyDown` is the Windows filter followed by
`on_press`, `KeyUp` is `on_release`; the worker types Ctrl (or Cmd) and v through the same
two operators, marked as injected. The listener handles each event when it
happens. `platform` is chosen in the first state. Under Linux the worker types
nothing. Auto-repeat is modelled as repeated presses; desktops that report
a repeat as release and press would add requests. Lost events are not modelled.
`Others` are keys outside the chord. They matter under Windows: the filter swallows
the letter of a chord, so `pressed` never holds the whole chord, and the release of any key
then arms the chord again while the letter repeats. The ghost `credit` counts the chords that the
user completed less the requests, `overlaps` the releases of other keys over a
held and answered chord under Windows, and `typed` says that the worker has pressed a key. Until
then the requests never exceed the chords and the overlaps together (`OncePerArming`).

### FileTransfer

One machine shares, the others download; each worker is at one position of `get_files`:
`ask` (before the request for the next path), `wait` (for the headers), `body`, `paste`.
The origin's event loop serves a request in two steps, because the peer is checked before
`await request.body()`: `Admit`, then one of `RefuseFile`, `ServePlain` and `ServeEncrypted`.
A response is a stream of `Parts` = 2 chunks, enough for the file to be edited in
between. `Open` begins each file by truncating what an earlier download left under its
name (`Truncated`). The ghost `since` is the version each file had when the worker took its list.
Without keys each chunk is read when it is sent; with keys the stream reads the
private copy that `encrypt_file` made in one go under a name `mkstemp` found free. The copy
is removed by the response's background task, `Cleanup`, at some time after the
response is over. What becomes of that task when the client
has gone is the server library's business: `Break` allows both that it runs and that it is lost
(`orphans`), and a restart always loses it.

A chunk carries its path, the version of the file it was read from and the key
it is locked with; nothing else of a content matters. `Decrypts` is the
whole of the cryptography: same key or failure. A client without a key tries to
decrypt a plain file named `.enc` and gives up (`IsEncrypted` looks at the name).
`Base` gives the names under which downloads are saved, so two paths may share one
(`Namesakes`). The code then breaks its docstring ("a list of local paths successfully
retrieved", `api_module.py:542`) in two ways that `PastedAsListed` states and excepts, and nothing
more: a later file takes the earlier one's place, and without keys the second file is
opened under the name of the first (`api_module.py:582`), so that if it breaks off the first path is
returned all the same and a torn file is pasted.

### Configurator

The window handles one event at a time and blocks in `wait(timeout=5)`, which is
the value `"waiting"` of `window`. A server process is `spawned` (interpreter and imports, no
configuration read), `starting` (configuration and key loaded, discovery and bootstrap),
`serving`, `draining` (the signal is handled, open responses go on), `joining`, `gone`.
The form has the three fields the server's behaviour depends on: the port, security with an
archive chosen, and whether the right password has been typed. `_collect_config` never writes
a password, so it reaches the server through the environment of the process only.
`Reads` maps the path shown to the file that a server started from it loads: the path is
not passed on, and `load_config` takes `config/config.yaml` of the project. `touched`
collects the processes that may therefore have loaded something else than the window
showed, those for which the file was written again before they read it included.
`GenerateNewKey` changes the form and then saves: the form stays changed when it is not
valid or the file cannot be written.
Closing the window destroys it and nothing else, since `_on_close` is not bound.

External: uvicorn runs the lifespan up to its yield before it binds the port, runs the rest
of the lifespan when the bind fails, handles the signal by draining, and a signal before it
has installed its handlers ends the process; the server library streams responses as
`FileTransfer` says.

## Runs

| run | instance | states | what it shows |
|---|---|---|---|
| `sync_faults` | 2 nodes (one Wayland), 1 oversized text, a file and its copy, 2 stamps; 1 copy, 1 change of peers, 1 restart, 1 fault | 510 000 | types; attribution; files shared before visible; only peers stored; what is pasted was published, a file list by its downloaded copies; no entry slips between the threads unless a step fails; the stores implement `LatestStore` |
| `sync_traffic` | 2 nodes (one Wayland), 2 texts, 2 stamps; 2 copies and 1 change of peers, or 1 copy and 2 hotkeys; fair | 94 000 | reordered posts never replace a newer entry; every broadcast is delivered while the link holds; whatever the timing of the windows, the exchange ends |
| `window_prompt` | 3 contents, poll 0.5 s, window 1.5 s, broadcasts up to 2 s; fair | 78 000 | an undisturbed paste is not rebroadcast; one mark hides one change; every content is looked at within one sleep and the longest broadcast; a copy outside the window is broadcast |
| `discovery` | 2 nodes, one without `auto_accept`, 2 attempts, two overlapping mDNS calls of one of them; a stop, or a loss and a removal; fair | 737 000 | only invited peers are authorized; an authorization is one-sided only by a stop, a removal or a lost answer; nothing prolongs a start; machines that stay up link for good |
| `hotkey` | shipped chord and another key, 6 presses, all platforms; fair | 91 000 | never wedged, no request without the modifiers, one request per chord, and under Windows one more per key that goes up over it, while the worker types nothing; the keys of the worker ask for nothing by themselves, the pastes end |
| `file_transfer` | 2 clients, 3 files, lists with two files of one name or with a file named `.enc`; no keys or one client with the origin's key, 2 downloads and one edit, deletion, lapse, revocation or restart; or keys everywhere and 2 downloads; fair | 756 000 | what is pasted is complete, unlocked, what was listed (but for files of one name), and no older than the paste; encrypted copies are private and owned; a download ends |
| `configurator` | 2 processes, 2 ports, 2 paths, a file by hand or none; an edit, a closed window or a crash; fair | 615 000 | "Stopped" is true, one server per window, servers run as shown, Stop works |

Five runs end in a violation and back a finding of `PROJECT.json`:

- `echo_wayland`: with the two-second poll that `main.py` imposes under Wayland the
  1.5 s window is over before the monitor looks, and the paste is broadcast as
  a local copy.
- `echo_loop`: two machines under Wayland, copied to at the same time, paste each
  other's text unasked, see it when the window is over or used up, take it for a copy of
  their user and send it back, without end. The bounds are as small as the loop allows: two
  copies, one stamp, queues of one entry, and a peer may leave and come back (which the
  loop does not need).
- `user_copy_lost`: `has_entry` knows the time and not the content, so a copy the user
  makes right after a paste is hidden and never broadcast.
- `bootstrap_only`: two machines that list each other and, first or last, a
  switched-off address each make their three attempts while the other is not listening,
  and with multicast off they never try again. The system then really stops, so this
  configuration does not check for deadlock.
- `hotkey_once`: combo_active is reset by the first key that goes up; the Ctrl+V the
  worker types then completes the chord with the keys still held. (The repeat of the
  swallowed letter under Windows is another way; `OncePerArming` in `hotkey` counts it.)

### Bounds

Each behaviour starts with one of the `Budgets`, which bounds what happens outside the
program: copies, hotkeys, changes of peers, restarts, faults; in `Discovery` stops, losses and
removals. A run with several pairs of troubles checks each of them, not all at once. `MaxStamp`
bounds the clocks: with two stamps an entry can be older, as old and newer than
another. `MaxQueue` bounds the paste queue: a request or hotkey waits while
it is full, which only delays; two entries are enough for one to be pasted while
another waits. Two machines are enough for each property because each relates at
most an author and a holder; the proofs hold for any number. `Attempts` is 2 in
the passing discovery run and 3, the code's number, in `bootstrap_only`; one of the
two machines may have two mDNS calls under way, which with the calls of the other
overlap in both directions, and `Discovery_proofs` holds for any `Tasks`. In
`Hotkey` six presses complete a chord at least twice with its keys
released in any order, and longer queues are cut at two. In `FileTransfer` the `Cases`
pair the keys with the bounds: two downloads let two clients meet at one file and a second
download overwrite the first; two names for copies are both in use when two clients
read, and used again for the files that follow. In
`Configurator` two processes are the one the window terminates and the next;
threads are joined one after the other with the same timeout, so one stands for all,
and `Configurator_proofs` does not depend on it.

### Fairness

Each thread of each node and the serving of each pair of nodes are weakly fair
(`FairSpec`): they are loops that the code restarts after every exception. Users,
faults, expiries, discovery and restarts owe nothing. In `Discovery` the event
loops, the end of the rate limit and the periodic announcements are fair; starts,
stops, losses and removals are not. `EventualDelivery` is about broadcasts that
reach `StartBroadcast`: an exception before that loses the change for good
(`PublishFails`). `EventuallyQuiet` is the promise that the exchange ends (`ExchangeStops`) where
at most one machine pastes unasked; with two it is broken, as `echo_loop` shows under the same fairness.

`TransferEnds` rests on the worker alone: its thread runs and httpx times out
(`api_module.py:544`); nothing is assumed of the origin or the network. `StopWorks` rests on
the processes being run, on `wait(timeout=5)` coming back, and on open responses ending
(`ResponseEnds`): uvicorn sets no limit of its own, but every client has a read timeout of
at most sixty seconds. Threads are not assumed to end: the joins time out, and the
threads are daemons.

That a start comes to its end is checked and proved as the action property `StartupAdvances`
(nothing prolongs a start and each step of its calls brings it nearer to
listening), not as `phase = "starting" ~> ...`: TLC needs far too long for that formula on the
instance of `discovery`. The step that it leaves open, that a call left alone takes its next
step, is the fairness of the calls.

## Proofs

`ClipboardSync_proofs` proves the invariant `Basic` for every number of machines, texts,
files, stamps and faults. It is `TypeOK` strengthened by `MonitorOK` and `WorkerOK`
(at `check` the monitor holds a clip, past `store` a published entry of its own; at `fetch` the
worker holds a file list, at `paste` an entry: `TypeOK` alone lets them be empty,
and the next step would not keep its type) and by `LinksOK` (no machine is its own peer,
posts to itself or receives from itself, without which a machine's own address and its
own id could both name it). On it rest

- `Attribution` (`AuthenticCopies`, inductive together with `Basic`),
- `SharedFirst` (`SharedBeforeVisible`), by the stronger and simpler invariant that every
  published file list is on its author's allowlist, and by attribution,
- `Admission` (`OnlyPeersStored`),
- `PasteAttribution` (`PastesPublished`), by `WorkerHolds`: at `fetch` the worker holds a peer's
  list as it was published, under the address it came from, and at `paste` what `PasteOf`
  makes of a published entry,
- `NothingGetsLost` (`NothingSlips`): an entry that is underway to a linked machine, or has
  arrived, stays so in every step but a fault, a restart or the end of the link.
  This is the safety half of `EventualDelivery`, faults included. `Basic` is enough:
  what it needs is that the post sets out for every authorized machine, that a
  served request leaves an entry at least as new, and that a store never goes back,
- `Refinement` (`Spec => Latest!Spec`): `Publish` is the abstract `Author`, `StoreLocal` and
  `Handle` are an `Adopt` or a stutter, `Restart` a `Forget`, all others stutter.

`SuppressionWindow_proofs` proves the types and `PromptPollSuffices`: with `Poll <= Window`, for all
intervals, an undisturbed paste is not rebroadcast. Its invariant `Covered` says that
as long as nothing disturbs, the window outlasts the monitor's sleep. The pair (2 s, 1.5 s)
of the code under Wayland is what `echo_wayland` refutes.

`OneHiddenChange` (`OneSwallowPerMark`) holds for all intervals, by `HidesOnce`: while the
window is open it has hidden nothing.

`NotedInTime` (`ReadInTime`) also holds for all intervals, those under Wayland included. Its invariant
`OnSchedule` is a budget: what a content has waited and what is left of the
post and of the sleep never exceed `Poll + PostTicks`, and a change that the monitor has in hand
is either the present one or one whose successor is new. `NeverHidden` is the safety half of
`CopyIsBroadcast`: a copy made while the window is shut stays pending until it is
broadcast, overwritten or a paste begins.

`Discovery_proofs`: the types rest on `Calling` (a call in progress has an attempt left; without
it the counter could fall below zero). `NobodyUninvited` (`OnlyInvited`) rests on `Admission`:
without auto_accept every candidate is invited, and whoever is being called is invited, so
that a late answer authorizes nobody else. `OneSidedOnlyByTrouble` (`OneSidedExplained`) rests on
`Paired`: a one-sided authorization is backed by an acceptance under way or an
excuse, and every acceptance under way by the authorization that the callee gave with it, or
an excuse. `StartsAdvance` (`StartupAdvances`) is a rank:
per call of the bootstrap, the attempts left and, at equal attempts, whether the present one is
still to be made.

`Hotkey_proofs`: one invariant carries everything. What the listener remembers is down for the
desktop, an active combination still has a key that will go up (these two give
`AlwaysArmedAgain`), and as long as the worker types nothing the listener's set is the user's
outside Windows, and a held, unanswered chord has its credit or an overlap that armed it
again (`AnsweredOnce`, which is `OncePerArming`). It is proved for
every chord with at least one modifier and exactly one other key, any other keys and any number of
presses. `ModifiersDown` is an action property: each request is made by a press whose filter or
set saw the modifiers.

`DownIsUnderFingers` says that what is down for the desktop is held by the user or by the worker
at its present step of typing. `WorkerAsksNothing` (`OwnKeysAskNothing`) and `WorkerGetsDone` (the
safety half of `PastingStops`: with the user's hands off, every step of the worker leaves fewer
pastes or fewer keys to type) rest on it. Both assume `~(Chord \subseteq {PasteMod, PasteKey})`.
The shipped chord has Shift and meets this; the configuration accepts any list of keys
(`config_ui.py:756`), and with Ctrl+V itself as the chord each paste would ask for the next.
The assumption stands in the two theorems, not in the module, because nothing in the code enforces
it; the other theorems hold without it.

`FileTransfer_proofs`: the types rest on `Progress` (a worker never has more files than its list).
`CopiesArePrivate` and `CopiesAreOwned` rest on `OneCall`: a client has one request that
somebody still waits for, or one response, and only while it waits or reads. Without it a
late request could be answered into another transfer and a copy would lose its owner.
`PastesWhatIsListed` adds `Delivery`: every file a worker has is the listed one (`AsListed`), its
open request and its response are for the next one (`Asked`, `Answered`), and each chunk that
has come is part of it, under the client's key (`Arriving`; the version of an encrypted chunk is the
one the copy was made of, by `PrivateCopy`). Lemma `Elsewhere` is the point of the argument: the
file that is arriving is written over one that has arrived only if there are no keys and the
two share a name; `StillListed` says that nothing else of what was listed is touched. `PastesFreshFiles` (`PastedFresh`) has an invariant of its own,
`Freshness`: since the worker took its list, every file it has finished, the version behind its response
and each chunk of the file that is arriving are of that time or later; it needs `OneCall` (a copy
made for an earlier request is never streamed into a later download) and the truncation. `DownloadAdvances`
is the safety half of `TransferEnds`: `Left` counts files, positions and chunks, each
step of a worker leaves less, and no step of another client, of the origin or of the network
adds to it.

`Configurator_proofs`: `Honest`, that is `OneServer` and `StoppedIsTrue` together, is inductive (each
needs the other when the window starts or stops a process). `ServersStartAsShown` adds `Prepared`:
an untouched process that has not yet loaded its file will find in it what was shown.
`ProcessesGoForward` is the safety half of `StopWorks`: a process never goes back to an
earlier stage, each step of its own takes it to a later one or leaves fewer threads to join, and
once it no longer serves no response is opened.

The assumptions are the ASSUMEs of the modules, which TLC evaluates on every
instance. Only model-checked: the liveness properties (`EventualDelivery`,
`EventuallyQuiet`, `CopyIsBroadcast`, `EventuallyLinked`, `PastingStops`, `TransferEnds`, `StopWorks`),
which need fairness and ENABLED. For `EventualDelivery`, `CopyIsBroadcast`, `PastingStops`,
`TransferEnds` and `StopWorks` the theorems above are what an argument for any number of machines, files or
presses would start from: nothing undoes progress, and each step makes some. For
`EventuallyQuiet` and `EventuallyLinked` there is none: an echo may be published anew, and a removal takes a
link back, so progress is not step by step.

## Not modelled, and why

- The encrypted forms of entries and handshakes: which body an endpoint accepts in which mode is
  modelled for files only (`Servable`); elsewhere a body that is not understood is one
  of the failures.
- The second index of the peer registry, by device id: only `debug_snapshot` reads it. Devices that
  change their address are therefore two nodes.
- The key archives (`security_services.py` up to the texts): ciphers and ZIP files. The window's
  use of them is in `Configurator`, by whether the password is right.
- `LANCLIPBOARD_KEY_PASSWORD` in the window's own environment, which its children inherit.
- Key events that a desktop withholds from the listener; chords with several letters or none.
- Fixed values: the port 8000 of the peers, the limits of a text, the intervals other
  than the polling interval and the window.

Out of scope: the cryptography, the formats of the platform clipboards, the layout of the
configuration window, logging, and the debug endpoints, which change nothing.
