# A TLA+ development of the qyz Lua client

This directory holds a formal model of the game client in `src/scripts` and of
the core of the Lua runtime in `src/luajit` that it runs on: TLA+
modules translated from the Lua and C code, TLC configurations that check them on
small instances, and proofs that TLAPS checks for every value of the constants.
Everything in the models stands for lines of the code; `PROJECT.json` ("map")
names the lines of each definition.

## 1. The system

The program is the Lua half of a Unity client of an online role-playing game.
One Lua state runs on Unity's main thread. Unity calls `update`,
`second_update` and `late_update`; the socket (`Aio.Session`, C#) calls
`on_connect`, `on_abort`, `on_disconnect` and `message.receive`; asset loads,
the platform SDK and buttons call closures. No two handlers run at the same
time, and a handler is never suspended (apart from a few coroutines that only
sequence animations), so *a handler is an action*. What makes the client hard
is the order in which handlers run: everything a handler learns may be stale
by the time the next one uses it, and the connection may break between any two.

The repository brings its own Lua runtime, LuaJIT, in C. There the second actor
is the garbage collector, which does a little of its work whenever the program
allocates: its steps fall between any two operations of the program. Below it
lies a memory allocator of its own.

### Inventory

| Component | Code | State it keeps | Operations | What must hold |
|---|---|---|---|---|
| Connection, reconnection | `network.lua` | the session, `AutoReconnect`, `reconnectCount`, the selected server | `connect`, `reconnect`, `close`, `on_connect`, `on_abort`, `on_disconnect` | retries are bounded, the player is told, nothing reconnects after a logout |
| Account session | `auth.lua` | `isOnline`, keepalive times, `LoggedInPlatform` | OnlineAnnounce, KeepAlive, ErrorInfo, `second_update`, `Logout` | a silent server is noticed; no watchdog survives its connection |
| Role login | `login.lua` | `roles`, `selectedroleid`, `loginroleid`, ping times | SGetRoleList, SCreateRole, SRoleLogin, SRoleRelogin, SPing, SKickRole, `role_logout`, `logout` | client and server agree on the role that plays |
| Login dialogs | `ui/dlglogin.lua`, `dlgchooseplayer.lua`, `dlgcreatplayer.lua` | which dialog is up | log in, play, create, return, log out | no dialog without a way out |
| Messages | `common/message.lua` | `ProtocolCount`, the type registry | `send`, `receive`, `dispatch` | each game message is processed once and in order, over reconnections |
| Map context | `network.lua:108-158` | `MapContexProtocolIndexSet` | single, batch, SLeaveMap | each context protocol is dispatched once |
| Event bus | `common/event.lua`, `gameevent.lua` | two listener maps, `next_id` | `add`, `addwitheid`, `remove`, `trigger` | no call after removal, one failure harms nobody else |
| Instance pool | `character/characterinstpool.lua` | the array of cached GameObjects | `GetCharacter`, `PutCharacter`, `second_update` | an object has one user; the oldest is evicted |
| Timers | `system/timer.lua` | listener ids, counters | start, stop, reset | a restarted timer runs |
| Send throttle | `common/msgmanager.lua` | last send time per name | `send` | nothing important is dropped |
| UI manager | `uimanager.lua` | dialog states, the dialog stack | show, hide, destroy, async load | what is up agrees with what was asked for last; a load that ends late is the only exception |
| Scene manager | `scenemanager.lua` | the load under way | `load`, callbacks, delayed `OnLoad` | callbacks belong to the load that ended |
| Characters | `character/charactermanager*.lua` | the characters in sight | enter, leave, load | a character that left is not shown |
| Automatic fighting | `ai/autoai.lua`, `autoaistate.lua`, `roleskillfsm.lua` | `_Running`, `_curState`, timers, the state of the skills | `Start`, `OnEvent`, timers, skills, joystick, navigation | off means off; an idle machine looks for monsters; it does not hang |
| Works, navigation, skills, other AI | `character/work`, `navigation`, `pathfly`, `skill`, `ai` | state machines per character | add, remove, update | exclusive works do not run together |
| Runtime: collector | `luajit/lj_gc.c`, `lj_gc.h`, `lj_func.c`, `lj_str.c`, `lj_udata.c`, `lj_state.c` | colors, gray lists, the sweep, finalizers under way | `lj_gc_step`, `lj_gc_fullgc`, barriers, closing and finding upvalues | what the program can reach is never freed, the rest is; finalizers run once |
| Runtime: tables | `luajit/lj_tab.c` | array part, nodes and their chains, free nodes | get, set, `lj_tab_reasize`, `lj_tab_next`, `lj_tab_len` | a table is a function from keys to values, and `next` visits each field once |
| Runtime: allocator | `luajit/lj_alloc.c` | chunk headers, bins, designated victim, top, segments | malloc, free, realloc | blocks do not overlap; what is free is merged and found again |
| Tasks, guides, dungeons, plots, items, family, shop, screens | the rest of `scripts` | mirrors of server state | requests and replies | display what the server said |

### How they interact

`network` owns the socket. It announces `network_connected` and
`network_abort` on the event bus, to which `auth` and `login` listen; those two
never call each other but share the connection: each has its own watchdog (the
keepalive of the account, the ping of the role) and each calls
`network.reconnect()` when its watchdog is due. `login` sends the count of
`message` when it resumes a role. `role_logout` closes the connection and asks
`scenemanager` for the login scene, whose callback resets `login` and, for
`to_choose_player`, connects again. The SDK calls back into `auth.Logout`.
Automatic fighting hears of the world through `autoai.OnEvent`, which timers,
the joystick, navigation callbacks and the role's skills call, and attacks through
the skills in turn.
Server messages reach all of them through `message.dispatch` on the event bus.

The event bus walks its table with `pairs` while the handlers change it, and so
relies on what `lj_tab_next` promises: fields may be changed and cleared, and
an insertion makes the rest of the walk undefined. `HashTab` shows that promise
of the C code, `EventBus` uses it (`dirty`). Tables, strings, closures and threads are
objects of the collector, which frees them to the allocator; the collector sees
the address of a freed string used again only through `lj_str_new`, and
tables do when a node still holds the old key.

### What is hard

* **Reconnection.** Three places turn `AutoReconnect` on or off, four reset the
  count or hide the dialog, and two watchdogs reconnect independently.
* **Answers that come late.** `SRoleLogin` names no role: the client logs in
  whatever is selected when the answer comes.
* **Dialogs that come late.** `uimanager.show` loads a dialog asynchronously,
  and `hide` does nothing until the load has ended: what was hidden meanwhile
  comes up all the same.
* **Loss.** Whatever is under way when a connection breaks is gone. The count
  and the index set are what makes up for it.
* **Mutation during traversal.** The whole frame is one `trigger` that walks a
  table its handlers change.
* **Failure of one step.** A handler may fail anywhere; `utils.xpcall` logs the
  error and the next handler runs.
* **A collector between any two steps.** Each store has to keep the colors
  right, and a mistake shows a whole cycle later, in another object.
* **Intrusive data.** In tables and in the allocator, links, keys and sizes lie
  in the data; an insertion or a release rewrites neighbours that it has to
  identify from a tag or a stale key.

`PROJECT.json` ("hazards") lists each hazard at its line with the properties
that watch it, and says of those without one why.

## 2. The modules

```
Session      <- SessionProofs        network + auth + login + dialogs, with
                                     socket, server, SDK, scene, UI, player
MsgCount     <-+                     the receive count      --implements--> Delivery
EventBus     <-+ MessageProofs       common/event.lua
MapContext   <-+                     the context protocols
InstPool     <-+ CharacterProofs     the pool of character instances
AutoAI       <- AutoAIProofs         automatic fighting: states, timers, skills

Collector    <- MCCollector          lj_gc.c against the Lua program
             <- CollectorProofs
HashTab      <- MCHashTab            lj_tab.c           --implements--> LuaTable
             <- HashTabProofs
Heap         <- HeapInvariant        lj_alloc.c
                <- HeapProofs
```

The first group models the client, the second the runtime. `<- ...Proofs` are
modules of proofs, `<- MC...` hold the instances that TLC checks. `MessageProofs` and
`CharacterProofs` each hold the proofs about two modules that share no variable, one after the
other; the definitions of `MsgCount` and `InstPool` that would clash there are called
`CountInit`, `CountSpec`, `PoolInit`, `PoolSpec` and so on. `HeapInvariant` states the
inductive invariant of the allocator, which is longer than its properties, and proves what changes
within a segment keep of it.

### Session

The composition of `network.lua`, `auth.lua` and `login.lua`. Variables carry
the names of the code. `link` is the state of the C# socket, and has a value
the Lua code cannot see: `"halfopen"`, a connection whose peer has vanished
without closing it. A time variable (`recvSPingExpireTime`) is `"nil"`,
`"armed"` or `"due"`; no two timers are ordered.

| Code | Model |
|---|---|
| `network.on_abort` / `on_disconnect` | `SocketAborted` = socket closes + `on_abort` + the two listeners (`NetworkAbort`) |
| `network.on_connect` | `SocketConnected` (with `login.on_connected`) |
| the session's own retry while `AutoReconnect` | `SocketRetries` (external) |
| `network.connect/reconnect/close` | operators of the same names, parts of the handlers that call them |
| `auth.onmsg_*`, `login.onmsg_*` | actions of the same names; where both listen (OnlineAnnounce) one action holds both, because the two touch different variables |
| `second_update` of both | one action: whoever is due reconnects |
| `login.role_logout`, `logout` | operator `role_logout`; actions `Logout`, `PlayerLogsOut`, `PlayerClosesAlert`, `onmsg_SKickRole` |
| the callback of the login scene | `OnLoginSceneLoaded` |
| the buttons of the dialogs | `PlayerLogsIn`, `PlayerPlays`, `PlayerCreatesRole`, `PlayerReturns`, `PlayerClosesAlert` |
| `uimanager.show`, `showorrefresh`, the callback of its load | operator `Show`, action `DialogLoaded`; `shown` = `isshow`, `opening` = `loaded == LOAD_ING` |
| `uimanager.hide` | `shown \ {d}`: it leaves `opening` alone |
| `uimanager.ShowSingleAlertDlg` | operator `ShowSingleAlertDlg` |
| `uimanager.DestroyAllDlgs`, `hideimmediate` of a cutscene | action `DestroyAllDlgs`, and in `role_logout` and `onmsg_SEnter` |

Two handlers fail half way in the code and do so in the model: SRoleLogin with
no role selected (`login_sucess` indexes nil), and its busy branch (it uses
`uimnager`, a global that does not exist).

A dialog is shown by `Show(d, sh)`, where `sh` is what the handler leaves
shown: it comes up at once when it is loaded, and otherwise enters `opening`
until `DialogLoaded`. Whoever hides it in the meantime hides nothing. A load may
find no asset (the dialog stays in `opening` for ever), and the `init` or `show` of a
dialog may fail (it does not come up). Dialogs are unloaded some time after they are
hidden, so any show may have to load. The three alerts are contents of one
dialog, `dlgalert_reminder_singlebutton`: the first one stays, with its
callback, and later ones are dropped; so is an alert when one of another screen
is up, or when a cutscene has locked the manager (`MayBeCovered`).

Environment, as constants: `LoginErrors` (which errors an SRoleLogin may
carry), `Late` (which dialogs may load slowly or fail, a bound for TLC), `Patient`
(the player does nothing while a message is under way or the login scene is
loaded, and leaves a role dialog alone that comes up while a role plays),
`PromptClose` (the socket reports a Close before the next `second_update`).
The socket sends only while it is open; what is sent otherwise is lost, and
`message.send` may drop any message that follows one of its name too soon (the
throttle of `msgmanager`), so `Send` always has the outcome that nothing is
sent. The
server holds at most one role for the account, keeps it for a while when the
connection breaks (`ServerForgets`), and accepts a relogin for that role only.

### MsgCount and Delivery

`message.receive` counts messages by their name, SPing overwrites the count,
and CRoleRelogin sends it. The server (external) numbers what it sends in a role
session and sends again what comes after the count it is given. Histories:
`last` is the number the client has really got to, `exact` is whether the
client can know it: it began the session with count 0 or an SPing has come
since, and no message failed to decode since (`receive` fails before it counts).

`Delivery` is the promise without the mechanism: while `exact`, each Deliver
processes the next message. `MsgCount` implements it: `Promise` instantiates it
with the histories for its variables, and `ExactlyOnceInOrder` is its
specification.

### MapContext

The same server-side list of protocols reaches the client one by one and in
batches, and after a reconnection in another batch. `times[i]` counts the
dispatches of protocol i of this map; `stale` marks a client that came to its
map with the indices of another one (login does not clear the set; only
SLeaveMap does). `Bad` are the indices that cannot be decoded: a batch decodes
every message before it looks at the set, so a bad one ends the loop.

### EventBus

`stack` holds the triggers under way, innermost last, because handlers trigger.
`visited` and `due` of a frame are histories (which listeners were called, and
which were there at the start and not removed since). `dirty` says that a
listener was *inserted* in the table during the walk; Lua's `next` then
promises nothing, and the model lets the walk visit anything or end anywhere.
`home[e]` is the event with which e's owner registered it.

### InstPool

`owner[o]` says who has GameObject `o`: nobody, the pool, or a character that
shows a model. Eviction and expiry destroy it. `second_update` keeps the entries
that have not expired (`Kept`) in their order; the new array is the one
increasing enumeration of them, which is how the proofs can speak of it
without a recursion.

### AutoAI

`cur` is `_curState`, `timers` the set of `Timer`s that run, `probes` the number
of one-shot `FrameTimer`s that entering idle starts and nothing stops, `skill`
the state of `RoleSkillFsm`, `home` whether the navigation under way is the one
whose callback raises `backtopos`.

| Code | Model |
|---|---|
| `autoai.OnEvent` | operator `OnEvent`: `Deaf` (not running, or a cutscene), `NewState` (the table), `Exit` and `Enter`, then the state's own `OnEvent` (`Attacks`, `JoyArmed`, `GoesHome`) |
| `autoai.Start(b)` | `StartOn`, `StopOff`; a call that changes nothing does nothing. `_Running` is assigned first, so the event `stop` is always dropped |
| `ifunc`, `jfunc`, `ReturnToStartPos`, `CastSkill`, `ToSimpleMode` | `IdleTimer` and `IdleProbe`, `JoyTimer`, `ResetPosTimer`, `CastSkillTimer`, `ToSimpleMode` |
| `RoleSkillFsm` | `UpdateWalkToTargetState`, `SkillExpires`, `NotifyAttackComplete`, `OnButtonCastSkill`, and `AttackNow` when the machine attacks |
| `PlayerRole` | `OnJoyStickMove`, `OnJoyStickStop`, `RemoveEffect` |

`OnEvent` takes the values that its caller leaves in the variables it changes
itself, because the code calls it at the end of handlers that have already
changed them. `target`, `able`, `far` and `cutscene` are what the machine can ask
of the world; they change at any time.

### Collector

The incremental mark-and-sweep collector of `lj_gc.c`, with the parts of the
runtime that share its colors, against a program that loads, stores, creates,
captures locals, closes upvalues, switches threads and sets upvalues and
environments through the C API. `color` is relative to the current white:
`"white"` is it and `"old"` the other one, so that a dead object is an `"old"`
one and the flip at the end of the atomic phase swaps the two.

| Code | Model |
|---|---|
| `gc_onestep` | `GcStep`: one action per case of the switch; a sweep step sweeps one object |
| `atomic` | `AtomicOpenUpvalues`, `AtomicRoots`, `AtomicAgain`, `AtomicSeparate`, `AtomicClear`, with `Propagate` until gray is empty in between; `stage` keeps the program out |
| `propagatemark`, `gc_traverse_*`, `gc_mark` | `Traverse`, `Strong`, `Mark` and `Grayed` |
| `lj_gc_separateudata`, `gc_finalize` | `Separated`, `Flagged`; `Finalize`, whose callback may keep its argument or fail |
| `lj_gc_fullgc` | `FullGc` starts it; `full` says how far it has come; the program runs meanwhile only in finalizers |
| `lj_gc_barrierback`, `lj_gc_barrierf`, `lj_gc_barrieruv`, `lj_gc_closeuv` | `BarrierBack`, `Barrier`, `CloseUv` |
| `func_finduv`, `lj_str_new` | `NewFunc` and `Intern`, which resurrect what is dead and not yet swept |
| frames that cover stale slots | `wide`, switched by `Frame` |

Lists are sets, since no property depends on their order. Steps are single:
the debt accounting of `lj_gc_step` decides only how many there are at a time,
and the model lets the program run between any two.

### HashTab and LuaTable

`HashTab` is a table as `lj_tab.c` keeps it: `arr` is the array part, `node` the
hash part with its links, `free` is `freetop`. A hash is a number, of which
`Main` takes the remainder as `hash & hmask` does, so that keys collide or not
as a table grows. `Displaced` is the heart of `lj_tab_newkey`: the node that
occupies the main position of the new key without belonging there moves to a
free node, and strings that a recycled address put on its chain are chained
back. `StringRecycled` is how they come about: the collector frees a string,
which nodes with a nil value do not keep alive, and a new string with another
hash gets its address.

What the code does in loops (walking a chain, reinserting the fields of a table that
is resized, halving and doubling for a border) is a recursive function over nodes or over the
number of turns. A loop takes at most a known number of turns, after which the function
does not change any more: `Border` takes as many as the interval is long, `Unbound`
as many as there are fields. The linear search by which `unbound_search` ends when the
index overflows is left out.

`LuaTable` is what a program may expect: fields, and a traversal that visits
each field once unless a new one is assigned on the way. `Implements` maps its
content to what `lj_tab_get` returns for every key.

| Code | Model |
|---|---|
| `lj_tab_get` and its variants | `Find`, `Get` |
| `lj_tab_set`, `lj_tab_newkey` | `Set`, `NewKey`, `Chained`, `Displaced` |
| `rehashtab`, `bestasize`, `resizetab`, `lj_tab_reasize` | `Rehashed`, `BestBins`, `Needed`, `Resized`, `Reasize` |
| `lj_tab_next`, `keyindex` | `Begin`, `Advance`, `KeyIndex`, `Later` |
| `lj_tab_len` | `Length`, `Border`, `Unbound` |

### Heap

The allocator, counting words. `heap.chunk` maps the address of each chunk to
its header; what the program writes is not kept, except that `foot` of a chunk
is only meaningful while the chunk before it is free. Each operator of the code
is an operator over `heap`, and those that depend on the operating system or on the
order of a list return the set of their possible results: `mmap` may put
memory anywhere or fail, `munmap` and `mremap` may fail, and a bin does not say
which of two equal chunks is first. `seg` is `m->seg`, the segment of the top;
the records behind it are the set `linked`, since no result depends on their
order. `ReleaseUnused` lets `munmap` succeed for any set of the segments that
are `Releasable`. `MallocCall`, `FreeCall` and `ReallocCall`
are the three things `lj_alloc_f` does.

| Code | Model |
|---|---|
| `lj_alloc_malloc`, `tmalloc_small`, `tmalloc_large` | `MallocSmall`, `MallocLarge`, `FromDvTopOrSys`, `Take` |
| `alloc_sys`, `prepend_alloc`, `add_segment`, `direct_alloc` | `AllocSys`, `GrownAt`, `Prepend`, `AddSegment`, `DirectAlloc` |
| `lj_alloc_free` | `Free`, `FreeForward`, `Filed` |
| `alloc_trim`, `release_unused_segments` | `Trim`, `ShrunkTops`, `ReleaseUnused`, `Releasable`, `Released` |
| `segment_holding`, a changed record of a segment | `Holding`, `Resized` |
| `lj_alloc_realloc`, `direct_resize` | `Realloc`, `InPlace`, `Moved`, `Fits`, `Remapped` |

## 3. What the runs check

| Run | Module, config | Properties | What it shows |
|---|---|---|---|
| `session` | `Session`, `Session.cfg` | `WatchdogArmed` `NoWatchdogWhenClosed` `RetryWithinLimit` `DisconnectionDlgHonest` | for an impatient player, a socket that reports late and a disconnection dialog that loads late or never: connections are watched exactly as long as they last, retries stay within the limit, and the dialog outlives its reason only if its load does |
| `session_patient` | `Session`, `SessionPatient.cfg` | `RoleAgrees` `RoleMatchesServer` `LoggedOutStaysOff` `DeadLinkDropped` `RetryTerminates` | with two roles, a patient player and a role dialog that loads late, client, role list and server agree on the role; a logout is final; a half-open connection is given up; retrying ends |
| `msg_count` | `MsgCount`, `MsgCount.cfg` | `CountExact` `NothingMissing` `ExactlyOnceInOrder` | the count resumes at the right message, and implements `Delivery` |
| `map_context` | `MapContext`, `MapContext.cfg` | `AtMostOnce` `Complete` `InOrder` | overlap, loss and undecodable protocols |
| `event_bus` | `EventBus`, `EventBus.cfg` | `MapsAgree` `NoCallAfterRemove` `CleanTriggerComplete` | registration and nested triggers |
| `inst_pool` | `InstPool`, `InstPool.cfg` | `NoAlias` `OldestFirst` | the pool shares nothing and evicts the oldest |
| `auto_ai` | `AutoAI`, `AutoAI.cfg` | `IdleWatched` `OffMeansOff` `JoyEnds` `AttacksOrHangs` | states and timers agree, whatever is switched, pressed or played in between; only a cutscene strands the machine in `joymove`; left alone beside a monster, it attacks for ever or hangs in one of three named ways |
| `collector` | `MCCollector`, `MCCollector.cfg` | `ReachableSurvives` `NoBlackToWhite` `GrayOnOneList` `UpvalueColors` `CleanRestart` `FinalizedOnce` `FinalizesGarbage` `GarbageGoes` | on eight small heaps, nothing reachable is freed or counts as dead, finalizers run once and only for garbage, and garbage goes |
| `collector_setupvalue` | `MCCollector`, `MCCollectorShared.cfg` | `ReachableSurvives` (violated) | finding 1 |
| `hash_tab` | `MCHashTab`, `HashTab.cfg` | `LengthIsBorder` `Implements` | a table is a function, `next` visits each field once, and the length is a border, through collisions, rehashes and recycled strings |
| `hash_tab_resurrected` | `MCHashTab`, `HashTabResurrected.cfg` | `Implements` (violated) | finding 2 |
| `heap` | `Heap`, `Heap.cfg` | `TypeOK` `Tiled` `TagsAgree` `Filing` `BlocksKept` `Apart` | headers, bins and segments agree and blocks stay intact, wherever the system maps memory and whatever it refuses |

`TypeOK` states the types of the variables in every module with behaviours of
its own. `heap` checks it, since it says that `release_checks`, which the code
counts down to zero, is never zero between two calls. Elsewhere no run checks it:
it is proved (section 4). The theorems state two more properties that
no run repeats, `IdsNeverReused` and `FrozenWhenDeaf`.

### Bounds, and why they are enough

* Session: `QuietReconnects = 1` and `MaxReconnectCount = 1` (4 and a
  configured number in the code) leave one quiet failure, one announced one and
  the one that gives up; every comparison has both outcomes. The count saturates
  one past the limit (`CountLimit`); all larger counts behave alike. One
  message under way per direction (`MaxWire`) is enough for an impatient player
  to act between a request and its answer; `session_patient` has two
  roles, since agreement on *which* role needs two, and room for two messages, of which
  a patient player never has more than one under way (`OneAtATime` of the
  proofs). `Late` holds the
  dialog that the properties of a run can tell: the disconnection dialog in
  `session`, the one that selects a role in `session_patient`; with all of
  them at once, the interleavings of loads that no property looks at multiply
  the states. The theorems hold for every `Late`.
* MsgCount: four messages per role session, three under way, and a count of up
  to four left over from an earlier session: relogin with nothing, something and
  everything lost, and a stale count below, at and beyond the log.
* MapContext: four protocols with the third one bad: a batch before, at and
  after the bad one, overlapping singles, and maps of every smaller size.
* EventBus: three listeners, two events, triggers nested twice: a handler that
  triggers its own event while its own event is walked, one that removes
  another, one that is registered again.
* InstPool: four objects of two models with a pool of two: one over the maximum
  with an object to spare; a clock of three with a cache time of one.
* AutoAI: everything is Boolean or an enumeration but `probes`, which saturates
  at `MaxProbes`: two tell apart a FrameTimer left by an earlier visit to idle
  from that of this one, and more of them do nothing new.
* Collector: each behaviour takes one *arena*: the objects it may create, the depth
  of the stacks, and which rare operations it calls. Each of the eight holds the
  fewest objects with which one mechanism can go wrong: two userdata so that one
  waits for its finalizer while the other is separated; a closure, its upvalue
  and a string; the same captured in a thread that is dropped; a weak table of
  each kind with what it treats specially; one userdata with stale stack slots
  and full collections in any phase. Objects are identities and are created
  again when freed, so a behaviour goes through any number of cycles.
  The shared upvalue needs two closures and has an arena of its own.
* HashTab: up to five keys at once: numbers that collide with strings, from an
  empty table, from one with four nodes and from one whose array part overlaps
  the numbers; and four strings, of which one is recycled. Tables grow from 0
  to 8 nodes, so that every rehash of such a table happens, and a chain is long
  enough for a displacement in its middle.
* Heap: one word is the unit. The smallest chunk has 4 words as in the 64 bit build,
  the tree bins start at 8 and a page has 24, so that a page holds a few chunks and four
  pages a few segments. Two blocks of four sizes (small, small with a remainder,
  large, and beyond the threshold of direct mapping) bring about every branch of the
  code that is modelled, from each of the ways in which a segment may adjoin.

The theorems do not depend on these values (section 4).

### Deadlock and fairness

Deadlock is checked in every run but the two of Session, where the client really may stop: after
`ERR_KICK_BY_ANOTHER_USER` it does nothing until the player presses the button,
and a player who is asked for nothing may do nothing. The run of the pool does not
deadlock because `second_update` always runs.

`FairSpec` assumes weak fairness of four things. *The socket resolves*: a
connection attempt or a Close ends, one way or the other, by the timeouts of
TCP. *The socket retries* while `AutoReconnect` is set, which is what that flag
of `Aio.Session` is for. *Time passes*, so an armed ping comes due. *Unity calls
`second_update`* each second. Nothing is assumed of the server, of the player
or of the network: attempts may fail forever, in which case `RetryTerminates`
says that the client gives up. `DeadLinkDropped` needs no server either; that is
the point of the ping.

Both liveness properties are checked with the patient player and the prompt
socket of `session_patient`; neither helps them, since the first concerns a
player who does nothing and the second attempts that fail.

`LiveSpec` of AutoAI assumes weak fairness of each timer and of the skills'
clocks: every frame advances them. Nothing is assumed of navigation, which may
walk for ever, of the player or of the world. `AttacksOrHangs` asks instead that
from some moment on there is something to attack (`Calm`), no cutscene, no
joystick, and the role in range of where it began. In range, because the model
has no distances: out of range the ten-second timer could send it back between
any two steps.

`FairSpec` of Collector assumes that the collector keeps making steps,
`[]<><<GcStep>>_vars`: a program that allocates pays for each step with
`lj_gc_check`, and a step is always possible (a cycle that ends begins anew). That is
weak fairness of `GcStep`, written so that TLC need not evaluate
ENABLED. Nothing is assumed of the program, which may refuse to drop a
reference for ever; `GarbageGoes` only says that an object cannot stay garbage.

### Assumptions that some properties need

* `RoleAgrees` and `RoleMatchesServer` hold for a *patient* player and without
  the error that resets `loginroleid` (`login.lua:378`, which the code marks
  TODO). They fail for a player who selects again, or a role that is created,
  while CRoleLogin is under way, because SRoleLogin carries no role: hazard
  `login.lua:363`. They fail as well for one who chooses a role in a dialog that
  was being loaded when the role logged in, and comes up over the game (hazard
  `uimanager.lua:273`); the patient player leaves it alone.
* `DisconnectionDlgHonest` does not promise that the dialog goes with its reason:
  one that is still being loaded when the session recovers comes up
  afterwards, and stays until the next recovery or logout hides it.
* `LoggedOutStaysOff` needs `PromptClose`: if `second_update` finds a keepalive
  due between `network.close(false)` and the socket's callback, `reconnect()`
  sets `AutoReconnect` again (hazard `auth.lua:133`).
* `CountExact` and the refinement speak of sessions in which `exact` holds;
  `Complete` of maps that are not `stale`; `CleanTriggerComplete` of triggers
  without insertions. In each case the histories name precisely what the code
  does not promise, and the excluded behaviours are in the model.
* `AttacksOrHangs` has the disjunct `Hung`, and each of its three parts is
  needed: the machine does hang when it is started in a cutscene, when a cutscene
  swallows `nojoy` or `joystop`, and when the way back loses its callback to another
  navigation while the role is in range. What the property rules out is every
  other loss: after a missed `monster`, `nomonster` or `skillover`, a timer asks again.

Each property of each passing run has a mutant: a small change of one mapped
definition, written beside it and marked `mutant`, under which TLC finds the
property violated. They are listed in `PROJECT.json`.

### Findings

1. `lua_setupvalue` (`lj_api.c:1023`) runs the write barrier for the closure it
   is given and not for the upvalue it stores to. With an upvalue that two
   closures share, marked through one and set through the other while that one is
   white, a black upvalue refers to a white value, against the invariant that
   `lj_gc.c:756` says the barriers preserve. The value is freed when the
   program drops its other references before the mark phase ends. Run
   `collector_setupvalue`. In the arenas of `collector`, where the closure is the only
   one of its upvalue, `lua_setupvalue` is harmless.
2. `lj_tab_newkey` rechains "pseudo-resurrected string keys" (`lj_tab.c:452`)
   when it moves a colliding node. A string with a recycled address may sit on
   the main node of a *number*, too, with the number chained behind it; the loop
   looks at strings only, and the number's field is lost when the string is moved.
   Run `hash_tab_resurrected`. With strings alone the loop does what it is for
   (run `hash_tab`).

Further observations, which have no run:

* `login.lua:173` reserves `role_logout` for the SDK and `login.logout`, but
  `onmsg_SKickRole` and the alert after the last reconnection call it directly:
  the client shows the login dialog while it is logged in on the platform.
* `uimanager.hide` cannot take back a `show` whose load is under way
  (`uimanager.lua:319`), and `ShowSingleAlertDlg` drops an alert while another is up
  (`uimanager.lua:245`): after the last reconnection the player may be left
  without the alert whose button logs out.
* `characterinstpool.lua:25` calls `MaxPoolCount` the maximum number of cached
  instances; `PutCharacter` tests the length before it inserts and with `>`, so
  the pool holds one more.
* `defineenum.lua:380` says of `joystop` that the movement of the joystick has
  ended. The timer that raises it is armed on release and not stopped by the
  next movement (`autoaistate.lua:211-216`), so it may be raised while the
  joystick is held.
* `ui/dlguimain_combat.lua:36` writes `~isAutoFight` where `not` is meant,
  which fails before `AutoAI.Start` on the next line.
* `events.nojoy` is not a member of the enum `AutoAIEvent`, so it is nil and works
  only because no other event is.

## 4. What is proved

The proofs hold for every value of the constants within the named assumptions
(`SessionAssumption`, `CountAssumption`, `MapContextAssumption`,
`EventAssumption`, `PoolAssumption`, `AutoAIAssumption`, `ConstantsOK` of Collector, HashTab and Heap),
which give the constants their types; those of HashTab add that strings are no numbers and
that a hash part has the sizes of `hsize2hbits`, those of Heap that a minimal chunk has
room for its header, and a page for the first segment and a minimal chunk. Each module of
proofs states an inductive invariant `IInv` (`CountInv` for MsgCount, `PoolInv` for
InstPool), shows `Init => IInv` and that every
action keeps it (one lemma or step per action), and reads the theorems off it.
Two modules prove a second invariant on top of the first.

| Module | Inductive invariant | Theorems |
|---|---|---|
| `SessionProofs` | `TypeOK` ∧ `WatchdogArmed` ∧ `NoWatchdogWhenClosed` ∧ `RetryWithinLimit` | `TypeCorrect`, `AlwaysWatched`, `NoStaleWatchdog`, `RetryBounded`, `DialogHonest` |
| | and `Agreed`, for a `Calm` environment | `RoleIsSelected`, `ServerHoldsRole`, `LogoutIsFinal` |
| `MessageProofs`, of MsgCount | `CountTypeOK` ∧ `CountExact` ∧ `NothingMissing`, the chain of numbers on the wire without `exact`, and the bounds on them | `CountIsExact`, `NothingIsMissing`, `Implements` |
| `CharacterProofs`, of MapContext | `TypeOK` ∧ what was dispatched is remembered, and was dispatched once | `AtMostOnceAlways` |
| | and `Order` | `CompleteAlways`, `InOrderAlways` |
| `MessageProofs`, of EventBus | `TypeOK` ∧ `MapsAgree` ∧ what is due and not visited is still registered ∧ ids come from the counter and stay with their event | `TypeCorrect`, `MapsAgreeAlways`, `NoIdReuse`, `NoCallAfterRemoveAlways`, `TriggerComplete` |
| `CharacterProofs`, of InstPool | `PoolTypeOK` ∧ `NoAlias` ∧ `OldestFirst` ∧ no entry is younger than the clock | `PoolTypeCorrect`, `NeverAliased`, `EvictsOldest` |
| `AutoAIProofs` | `TypeOK` ∧ `IdleWatched` ∧ `OffMeansOff` | `TypeCorrect`, `IdleAlwaysWatched`, `OffIsOff`, `FrozenAlways`, `JoyAlwaysEnds` |
| `CollectorProofs` | `TypeOK` ∧ `Shape` ∧ `Books` ∧ `Survives` ∧ `Painted` ∧ the tricolor invariant while marking ∧ `Atomic` | `TypeCorrect`, `NothingReachableDies`, `TricolorInvariant`, `GrayListed`, `UpvaluesColored`, `RestartsClean`, `FinalizersRunOnce`, `FinalizesOnlyGarbage` |
| `HashTabProofs` | `Good(tab)` ∧ `SizeOK(tab)` ∧ `WalkOK` ∧ `Params`, while no string is recycled | `TypeCorrect`, `Invariance`, `LengthCorrect`, `Refinement` |
| `HeapInvariant`, `HeapProofs` | `Good(heap, DOMAIN live)` ∧ `Sized` | `Types`, `NoGapNoOverlap`, `HeadersTrue`, `FreeFiledOnce`, `NoBlockLost`, `CopiesApart` |

*Session.* The parts are inductive together and not one by one: the
watchdog properties need each other's view of `link`. `DialogHonest` is about
steps: the disconnection dialog is stale when it is up without announced attempts being
counted, and no step makes it so unless a load of it is under way. The
lemmas `CountKept` and `DialogHidden` are the two ways in which a handler obliges:
it keeps the count and does not show the dialog, or the dialog is not up when it ends.
`AbortHonest` is the third: an attempt that shows the dialog leaves a count within
the limit, which takes the bounds of the invariant. An invariant
"the dialog is up only while attempts are counted" does not hold of this code:
the connection recovers while the dialog is being loaded, and the callback of the
load shows it.

That the client plays the role that is selected, and the server holds it, takes a
description of the messages under way. `Agreed` has two halves. `Wires` says of
the two directions that a link that is not open carries nothing, that at most one
message is under way, that a request agrees with the selection and with the role that
plays, and that a successful SRoleLogin finds the server holding the selected role.
`Flow` says that the role that plays is the selected one
and the only one the server may hold, and that a role that logged out is nobody
and off the network while the login scene is loaded. Neither mentions the
dialogs: whatever dialog comes up late, the selection is safe because a role dialog
sends nothing and selects nothing unless the player acts. The theorems are of the form
`Calm => (Spec => []P)`, and `Calm` is the environment of the run
`session_patient`: a patient player, a prompt socket and no login error that
resets `loginroleid`. None of the three can be dropped: with that error the login
dialogs are answered while a role is on a map, and the selection may change while a role
plays; the other two are discussed below "Assumptions that some properties need".

*MsgCount.* `CountExact` alone is not inductive: the next message could carry
any number. The invariant says that the numbers on the wire continue, one by
one, where the client has got to. It must hold of *inexact* clients too, because
an SPing makes them exact again; there the wire is only known to be a chain
that ends at what the server has sent, and to be at or below it. `Implements`
maps `sent` to `Len(log)` and `last` and `exact` to themselves.

*MapContext.* An index that was dispatched is in the set until SLeaveMap clears
both the set and (with the map) the counts; a role session without SLeaveMap
starts the counts afresh but keeps the set, which errs on the safe side for
`AtMostOnce` and is why `Complete` excludes `stale`. `Order` adds what is
under way. `Sent` says, of each single on the wire and of the next one the server will
send, that by the time the client reads it the decodable protocols before it are in
the set, from an earlier message or already now; `Sorted` and `BelowTold` order the
singles of one map; `NoGap` and `Behind` say that what was dispatched left no decodable protocol
behind it, in the set or on the wire. `Recall` and `NoGap` give `Complete`,
`Behind` gives `InOrder`.

*EventBus.* The action properties follow from the invariant of a state: a
traversal calls only what is in the table at that moment, and `MapsAgree` turns
that into "not removed".

*InstPool.* `OldestFirst` of a sequence whose front, middle or end may be taken
away is monotonicity of the enumeration that is left; it is inductive only
together with a bound on the times by the clock.

*AutoAI.* One lemma about `OnEvent` (it keeps the idle timer with the idle state
and touches no periodic timer) serves every handler. `FrozenAlways` needs no
invariant: each handler that moves the machine asks `Deaf`. The same
holds of `JoyAlwaysEnds`: outside a cutscene every handler leaves a released
joystick in `joymove` with its timer, or leaves `joymove`.

*Collector.* No proof can follow the marker, a recursion over the heap.
Reachability is stated instead without one: `ReachableSurvives`
says that *some* set holds the roots, is closed under strong references, and
holds nothing dead or freed; what the program can reach is in every such set, and
the run evaluates the same formula. That the set of all objects that are not dead is one
(`Survives`: such an object refers to none that is dead) is inductive but for one step, the end of
the atomic phase, when the white objects become the dead ones. There the tricolor
invariant (no black object refers to a white one, every gray one is on
the one list of its kind, a marked upvalue belongs to a black closure) has to
say that nothing marked refers to a white one, for which `Atomic` follows the stages: the
open upvalues, the running thread, the list `again`, the userdata that wait. `Painted` says who
may have which color and where marks of the last cycle are left, so that the next
begins with none; `Shape` and `Books` are what the kinds refer to, the phases,
and which userdata were separated and called.

`FinalizesGarbage` is stated in the same way: a userdata that is put in line for
its finalizer is outside some set that has the roots and all that its members refer to, except
the members that wait for their finalizer already. The exception is needed: a
restart of the cycle by `lj_gc_fullgc` finds userdata that still wait, and another
that only they refer to is rightly separated.

`CollectorProofs` has one hypothesis, `NothingShared`: in an arena in which the program calls
`lua_setupvalue`, there is at most one closure. Without it the theorem is false; run
`collector_setupvalue` is the counterexample (finding 1). The other arenas are not
restricted.

*HashTab.* `Good(t)` says of a table that its parts have their types (`Shape`); that a key is in
one place, in the array part if it fits there and else in one node (`InPlace`); that every chain
ends and no two meet (`Separate`); that a key is on the chain of its main position, whose own key
belongs there (`Anchored`); and that behind the free pointer every node has been used
(`TopUsed`). The last part of `Anchored` is what makes the two cases of `lj_tab_newkey` exhaustive: a
main position in use whose key belongs elsewhere has no key of its own on its chain, so a new
chain may start there. `WalkOK` says of a traversal that it has visited what is present up to
its cursor and nothing behind.

`Refinement` follows the operations. `SetUnused`, `SetChained` and `SetDisplaced` show of
the three ways to insert that the result is `Good` and that every key reads as before but
the new one, which `Stored` states. `ResizedSpec` iterates that over
the fields of a table, where each insertion finds room because the pairs not yet moved still have
their nodes (`Room`). `RehashSpec` shows that the sizes which `rehashtab` computes leave a node for
every pair that the array part does not take *and for the key that needed room*, so that
the second attempt to insert it succeeds. `PresentSpec` is why a traversal survives assignments: one to
a field that is present moves nothing. For `LengthCorrect`, halving keeps a present
index below an absent one, and doubling meets another pair with every turn.

Induction over data comes in three times: along a chain, over the fields of a table that is resized,
and over the turns of the two searches. The library's theorems for it take an operator
as a parameter and cannot be used here. What can be used is that every nonempty family of finite sets
has a member without a smaller one (`FS_StrictSubsetOrderingWellFounded`, with `WFMin`), a theorem
about sets. `LeastNat`, `Upto` and `AllNat` turn it into induction over numbers, `Recursion` into the
existence of recursive functions on them; chains end because a set of nodes closed under `next`
contains an end (`Ending`), and the least closed set that holds a node is its chain.

The theorems suppose `setup.recycled = 0`: in the behaviour, no new string gets the
address of one that a dead node still names. Without that `Refinement` is false; run
`hash_tab_resurrected` is the counterexample (finding 2). The state in which it begins, a string
on a node outside its chain, already breaks `Anchored`. The run `hash_tab` covers recycled strings in
tables with string keys only. Nothing else is restricted: keys, hashes, sizes, and
traversals interleaved with assignments are arbitrary.

*Heap.* None of the five invariants is inductive alone: a merge follows
`prev_foot` to a chunk it then unlinks under the size in its header, so the
tiling needs the tags, the tags need the filing, and both need to know which chunks
are in use. `Good(h, B)` of `HeapInvariant` is their conjunction, for a heap and a set of blocks: headers
have their types (`Headers`), segments are disjoint and tiled (`Geometry`), tags are true
(`Tags`), the top and its fake chunk end `m->seg` (`TopLast`), every other segment
ends with a record and a fencepost (`Recorded`), a free chunk is minimal at
least, followed by one in use, and filed (`Found`), what is in use is `B` and the
allocator's own chunks (`Kept`), and the counters are positive (`Counters`).

`B` is a parameter because most operations pass through states that are no heap of the
program. `lj_alloc_free` merges the chunk with the free one before it, then with the one
behind: after the first merge, the longer chunk can be seen as a block still in
use, and the heap is good for `B` with that block instead of the old one. New
memory that `prepend_alloc` puts before a segment can be seen as one used
chunk of a good heap, which is cut next; the rest that `lj_alloc_realloc` cuts off
is a block which it then frees. Each step is thereby a change between two good
heaps, and most are the rewriting of one or two neighbouring chunks. Such
changes share one lemma, `SpanChange`: the chunks between two boundaries become one
or two, whose tags and filing are right; everything outside keeps its header, its
filing and its owner. Three kinds of change are not of this form, and have a
lemma of their own: a segment that is resized or added (`RetailedFacts`, by its new chunks
being right among themselves), a directly mapped chunk (`RemapsFacts`), and
segments that are released (`ReleasedFacts`: nothing that stays refers to what goes).

`Frame` says that other blocks keep their size, from which `Sized`, the room of
every block, follows along. `CopiesApart` needs no history: a block that realloc
moves is released from a heap that holds the old block and the new one, and two chunks of a
good heap do not overlap. The proofs hold for any sizes and wherever the
operating system maps memory, as long as it maps what is free.

Only model-checked:

* liveness (`DeadLinkDropped`, `RetryTerminates`, `AttacksOrHangs`, `GarbageGoes`),
  which needs ENABLED or fairness
* HashTab with recycled strings, where the rechaining of `Displaced` matters (run `hash_tab`).

## 5. What is not modelled

* *Within Session*: choosing and resolving servers, the key exchange, the
  resource-version check (tables and requests without consequence for the
  session); deletion and recovery of roles (planned); an account change on the
  platform (one account); the order in which auth and login hear an event. Of the
  dialogs, the stack, the tabs and the texts, and the screens of the game itself.
* *Within AutoAI*: which skill is tried next, cooldowns and distances (whether an
  attack is possible is one variable); potions; what simple mode does to the display.
* *Assets, layout, wording, 3D previews, effects, plots, cutscenes*: no
  control worth a model.
* *Items, pets, family, marriage, shop, tasks, guides*: request and reply over
  server state, without a protocol of their own.
* *Generated messages and configuration; `out/`*, an older copy of the scripts.
* *Within Collector*: traces, prototypes and cdata; the debt accounting;
  resizing of the string table and of stacks; memory errors; closing the state.
* *Within HashTab*: metamethods, keys that are neither numbers nor strings,
  `lj_tab_dup` and `lj_tab_free`, sizes beyond the limits, and failures of the
  allocator in the middle of a rehash.
* *Within Heap*: the shape of the tree bins (a bin is searched for its best fit), the
  order within a bin, a page smaller than the granularity, a direct chunk
  that `munmap` refuses, `lj_alloc_destroy`, and the address ranges of 64 bit systems.
* *The rest of LuaJIT*: parser, virtual machine, trace compiler, code
  generators, libraries. They translate programs from one language to another;
  what makes them right is a relation between the meanings of those languages,
  and a model of them would be another implementation.

## 6. Plan

1. Proofs about `HashTab` when strings are recycled and all keys are strings: `Anchored` has to
   allow a string on a node outside its chain as long as no walk passes it.
2. `MsgThrottle`: `msgmanager.lua` drops a request sent within the minimum
   interval; composed with the selection in `login`.
3. `Timers` over the event bus: Timer, FrameTimer and CoTimer, restarts and
   stops within their own callback.
4. `SceneLoader`: one finish callback, retries, and the delayed `OnLoad`,
   against an abstract "the callback of the last load runs once".
5. `DialogStack`: the stack and the tabs of `uimanager.lua`, over the
   asynchronous loads that `Session` has.
6. `WorkManager`, then `Navigation`, then the life of a character.
7. Session: a change of account (`dlglogin.lua:139`), deletion and recovery of
   roles with the countdown of the dialog.
