# provman in TLA+

provman is a D-Bus daemon through which management clients read and change the
settings of a phone: internet and MMS contexts (oFono), mail accounts (EDS) and
synchronisation accounts (SyncEvolution).  This directory holds TLA+ models of
it, the TLC configurations that check them on small instances, and TLAPS proofs
of what holds on all instances.  File names and lines below are those of the
repository; comments in the modules name the functions they stand for.

## The system

| Part | State it keeps | Operations | Talks to |
|---|---|---|---|
| Dispatcher and session, `src/provman.c` | holder, queue of Start calls, queue of tasks, idle source, timer, quitting | the D-Bus methods; loss of a client, of the bus name; SIGTERM/SIGINT; timer | clients (D-Bus), tasks, GLib's main loop |
| Tasks, `src/tasks.c` | the invocation a task must answer | begin, refuse, complete, delete | plugin manager, clients |
| Plugin manager, `src/plugin-manager.c` | state, running command, cache, synchronised plugins, IMSI, meta data files | sync_in, get*, set*, remove*, abort, sync_out, cancel, type information | plugins (callbacks), cache, schemas, meta data |
| Cache, `src/cache.c` | a tree of settings with meta data | set, get, remove, list, add and fetch settings | plugin manager |
| Meta data, `src/meta-data.c` | a key file | load, update | plugin manager, file system |
| Map file, `src/map-file.c` | client id to plugin id, and back | store, delete, find, save, remove unused | plugins, file system |
| Plugin registry, `src/plugin.c` | table of plugin roots | owner of a key, plugins below a directory | plugin manager |
| Schemas, `src/schema.c` and others | a tree of key descriptions | parse, locate, check a value | plugin manager |
| Keys, `src/utils.c` | none | validate a key; accounts in a set of settings | plugin manager, plugins |
| oFono plugin, `plugins/ofono.c`, `plugins/utils-ofono.c` | modems with their SIMs, contexts and proxies; commands to run; map file | sync_in, sync_out, their cancellation, abort | oFono |
| SyncE plugin, `plugins/synce.c` | accounts that have been read; accounts to remove, add, update | sync_in, sync_out, their cancellation | SyncEvolution |
| EDS plugin, `plugins/eds.c` | accounts that have been read; map file | sync_in, sync_out, their cancellation | EDS, GConf |
| Test plugin, `plugins/test.c` | a key file | sync_in, sync_out, their cancellation, abort | file system |

There is one thread.  Everything that happens is a callback of the GLib main
loop, so nothing is atomic beyond one callback, and what makes the program hard
is the order of callbacks: a D-Bus call arrives between the idle callback that
runs a task and the one that completes it; a client dies with calls queued; the
session is handed over while the process source believes it will run again; a
plugin is synchronised in the middle of a session and another one fails; a
signal arrives during an operation.

What makes each part correct:

* Dispatcher: one session at a time, in turn; a client's session is ended by
  nobody else; every call is answered, once; no task is forgotten; the daemon
  stays while it is needed and leaves when it is not.
* Plugin manager: a client sees what it wrote, whatever is synchronised later;
  changes are stored at End or not at all; a plugin that fails does not take
  the others with it; every command completes.
* Cache: behaves as a map from keys to values, without empty directories.
* Meta data: is there for the settings that are there, and for no others.
* Map file: both directions agree with each other and, once saved, with the file.
* Keys and schemas: a key belongs to the plugin, the account and the node that
  its path says, though the code compares characters.
* Plugins: one callback per operation, whatever fails or is cancelled; what is
  listed is what there is; what a client wants is what there is afterwards.

## Modules

* `SessionLock.tla`: what the session is, abstractly: a lock, and the line of
  those who wait for it.
* `Provman.tla`: the dispatcher, the tasks and the control state of the plugin
  manager.  Its variables are the members of `provman_context` and
  `plugin_manager_t`; its actions are the branches of `prv_provman_method_call`,
  the task types of `prv_process_task`, the completions, and the other
  callbacks.  GLib's rules are in `Iterate` and `Dispatching`: idle sources
  that were attached when an iteration began are dispatched in the order they
  were attached, with no D-Bus call or signal in between, because those have a
  higher priority.  `idle` holds the attached sources, `idleId` what the program
  believes of them, and `timer` and `stray` separate the timer whose id is
  recorded from one whose id was overwritten: the differences between the two
  are where the defects are.
  A command's work on settings is reduced to the number of plugin operations it
  waits for (`todo`).  When a callback is made while a plugin operation is
  running (`overlap`) the program reads freed memory, and the model stops
  there: the run `polite` shows that this does not happen to polite clients.
* `ProvmanClients.tla`: the same daemon with clients whose habits are known.
  Much of what provman promises it keeps only for clients that do not, for
  example, call Abort while another client waits.  The module has one constant,
  `Habits`; with no habits everything is checked, and each habit by itself
  refutes one promise.
* `Settings.tla`: what the plugin manager promises, abstractly: a draft of the
  settings that a client reads and writes.
* `PluginManager.tla`: the plugin manager on its cache.  A key is a leaf; a
  directory is the set of leaves below it; the cache is a function, with
  `Missing` for what is not there; the middleware behind the plugins is the
  function `stored`.  There is one action per operation of
  `plugin-manager.h` and one operator per `prv_*_cb`.  `SyncPlugins` and
  `SyncOutFrom` are the loops over plugins: plugins that refuse at once are
  passed over in the same step, as in the code.
* `Cache.tla`: the tree of `cache.c`, as operators from trees to trees, one per
  function.  A node is named by its path; a node is a record of its value, of
  whether it has a table of children, and of its meta data.
* `SettingsMap.tla`: what the tree is for, a map from keys to values and from
  nodes to properties, with one action for each thing that happens to it.
* `MetaData.tla`: the cache and the meta data files over sessions, restarts and
  a full disk: the meta data commands, what `prv_plugin_sync_cb` adds to the
  cache, and `provman_meta_data_update` at the end of a session.  A command is
  one step and plugins are synchronised in any order, because PluginManager has
  the order of callbacks.
* `MapFile.tla`: `map-file.c`, as operators on one group of the key file and its
  reverse map.
* `OfonoContexts.tla`: the oFono plugin's use of the map file: listing contexts
  by name, creating and removing them at the end of a session, while other
  programs do so too.
* `Keys.tla`: the functions on keys of `plugin.c` and `utils.c`, on sequences of
  characters, because where a name ends is what can go wrong in them.
* `Schemas.tla`: how a schema is built from the elements that the XML parser
  reports, and what `schema.c` and `plugin-manager.c` find in it for a key: its
  type, its children, whether it can be set and removed.  First the schema of
  one plugin is read, whatever it is, and then a client spells a key, one
  character after the other; the invariants are about every schema and key on
  the way.
* `Plugin.tla`: what provman and a plugin owe each other, abstractly: an
  operation that was accepted is answered by one callback, cancelled or not.
  `PluginManager` relies on it, and the three plugins are shown to implement it.
* `OfonoPlugin.tla`, `SyncePlugin.tla`: plugins that work by chains of
  asynchronous calls.  `call` is the D-Bus call under way, or the idle source
  that goes on in its place; each action is the callback of one, or of its
  failure or cancellation, with what it calls next.  A reply that is lost leaves
  open whether the call was carried out (`Unheard`), and other programs change
  the middleware between any two steps.  A context has one value in
  `OfonoPlugin` and goes by its path, because `OfonoContexts` is about its name;
  `SyncePlugin` translates properties both ways, because they are not the same
  on both sides.  Both define `:>` and `@@` themselves, as module TLC has them,
  because the prover knows that module by name only.
* `EdsPlugin.tla`: a plugin that does its work at once and only answers later,
  on `MapFile`.  Names and accounts are saved one after the other, and the
  process may die in between.
* `ProvmanProofs.tla`, `PluginManagerProofs.tla`, `MetaDataProofs.tla`,
  `OfonoContextsProofs.tla`, `SchemasProofs.tla`, `OfonoPluginProofs.tla`,
  `SyncePluginProofs.tla`: the theorems and their proofs.
* `Folding.tla`: lemmas about the folds of the community modules, on which some
  of the proofs rest.
* `MC*.tla` and `*.cfg`: the instances.

In the modules some operators are marked "Fault".
They are no part of the model.  Each is the operator that follows it with a
plausible bug, and for each property of a passing run `PROJECT.json` names one
with which the run fails, so that a reader knows that the property can fail.

`Provman.tla` and `PluginManager.tla` are not composed by INSTANCE.  The first
has of the second what it can see of it (`mstate`, `completion`, `slot`, `todo`,
`imsi`), the second assumes of the first that commands come one at a time and in
a session; `CommandInSession` and `StoredBeforeHandover` of the run `polite`
show that assumption for polite clients.  The plugins are joined to the plugin
manager by `Plugin.tla`: they implement it, and it is what the fairness of
`PluginManager` says of them.

## Runs

| Run | Instance | Shows |
|---|---|---|
| `provman_all` | 3 clients, one call each; commands that wait for one plugin | `SessionsInTurn` (Provman implements SessionLock), `WaitersHaveHolder`, `UnusedHasTimer`, `AnsweredAtMostOnce`, `TypeOK`, whatever clients do |
| `polite` | 3 clients without habits, one call each, two plugins | nothing stranded, every call answered, sessions are one's own, waiting clients served, a daemon told to quit leaves |
| `manager` | 2 plugins, 3 settings of which one is read-only, 2 values | `Transactional` (PluginManager implements Settings), nothing in the cache of a plugin that is not synchronised, nothing left over from a session, commands complete |
| `meta` | 2 plugins, 3 settings, one of them in a directory of its own; 1 property | `CacheIsMap` (the tree does what a map would), `TreeIsWhole`, `NothingLost`: meta data is found again in later sessions and processes |
| `contexts` | 2 context paths, 2 names of clients | `NamesKept`, `NamesDiffer`, `ReverseIsBuilt` (a restart makes no difference to the map), `StoreCompletes` |
| `ofono` | 2 modems, 2 SIMs, an internet context, 2 MMS contexts | `Answers` (the plugin implements Plugin), `ListsWhatIsThere`, `StoredAsWanted` |
| `synce` | 2 accounts, one of them for local synchronisation, a template | the same for SyncEvolution's accounts |
| `eds` | 2 accounts of others, one of clients | the same for mail accounts |
| `schemas` | schemas of up to 2 elements, 3 plugins, keys of up to 7 characters | `UnnamedIsAlone`, `KeysAgree` (comparing characters is comparing paths), `TreeIsOne` (the tree above the plugins and those inside them are one) |
| `abort_strands` | 2 clients, habit `abort` | violates `NoStrandedTask` |
| `set_unsynced` | as `manager`, plugins may fail to synchronise for Set | violates `SetIsPassedOn` |
| `meta_returns` | as `meta`, 2 properties, no failures | violates `NothingReturns` |

The three violations are disagreements between the code and its own
documentation; `PROJECT.json` quotes both sides under "findings".  In words:

1. Abort while another client is blocked in Start gives that client the session
   but leaves its SYNC_IN task in the queue with no source to run it.
2. Set reports success for a plugin that could not be synchronised; the value
   is not stored.
3. A key that is removed and set again in one session, and given another
   property, has its former properties back in the next session.

### What the passing runs leave out

Where a property does not hold because of one thing that clients, plugins or
other programs do, a constant of the module says whether they do it, and the
passing run says no.  Each line below was found with TLC, by giving the constant
the value shown in the run's configuration:

| Run | Constant | Then violated | Because |
|---|---|---|---|
| `polite` | `Habits = {"die"}` | `EndsAreOwn` | a client that calls End and disconnects has its successor's session ended as well (`provman.c:752`) |
| `polite` | `Habits = {"info"}` | `StaysForSession` | two idle sources arm two timers, one of which cannot be stopped any more (`provman.c:342`) |
| `polite` | `Habits = {"early"}` | `EveryCallAnswered` | a call sent directly after Start waits in the queue for ever (`provman.c:353`) |
| `manager` | `CancelIn` with `"get_multiple"` | `Transactional` | a GetMultiple that is cancelled is reported as a success without a value (`plugin-manager.c:771`) |
| `contexts` | `CanHaunt = TRUE` | `StoreCompletes` | Abort leaves the plugin's settings; a context that has gone since is listed, and its removal makes End loop for ever (`ofono.c:1493`) |
| `contexts` | `CanReuse = TRUE` | `ReverseIsBuilt`, `NamesKept` | oFono gives a new context the path of one just removed: the map file has two names for it (`map-file.c:122`) |
| `contexts` | `DefaultId` meets `ClientIds` | `NamesDiffer` | a context whose path ends in a name that a client gave to another one is merged with that one (`ofono.c:563`) |
| `ofono` | `FailIn` with `"connman proxy"`, `"context proxy"` or `"add mms"` | `Answers` | a proxy that cannot be created is noticed by nobody; an MMS context that cannot be created is used all the same and the process crashes (`ofono.c:371`, `676`, `1394`) |
| `ofono` | `CancelIn` with `"get contexts"` | `Answers` | two functions see to the completion of a cancelled GetContexts, and provman is called back twice (`ofono.c:262`, `595`) |
| `ofono` | `CancelIn` with `"modems done"` | `Answers` | the search for modems is over but has not been reported: the cancel is lost, and oFono may take its time (`ofono.c:970`) |
| `ofono` | `CanSwap = TRUE` | `ListsWhatIsThere` | a SIM that has moved to another modem is asked for by its IMSI, and the contexts of the former modem are listed (`ofono.c:746`) |
| `synce` | `CanVanish = TRUE` | `Answers` | an account that is gone before it was read is asked for again at once, for ever (`synce.c:508`) |
| `synce` | `LastUrl = "WebURL"` | `StoredAsWanted` | url is shown from WebURL and stored in syncURL (`synce.c:443`) |
| `synce` | `CanMix = TRUE` | `StoredAsWanted` | contacts and eas-contacts of one account are one source for SyncEvolution (`synce.c:930`) |
| `eds` | `CanOmitType = TRUE` | `StoredAsWanted` | a server without a type is stored with the URL `dummy:` and not listed again (`eds.c:625`) |
| `eds` | `Edits` with `authtype` of the outgoing server | `StoredAsWanted` | it is not stored (`eds.c:635`) |
| `schemas` | `CanDescend = TRUE` | none | a key below a number or an enumeration makes the lookup take the type of its value for a table (`schema.c:470`); the model says `crash` |

Seen while modelling, and not in the models' reach: meta data that could not be
written at one End is not written at a later one that could (`doubtful` in
`MetaData.tla` excepts it); settings that a client removes from an account that
stays are not removed by the SyncE and EDS plugins (`synce.c:827`, `eds.c:749`),
of which `StoredAsWanted` therefore says nothing; changes that others make to an
account that has been read are never noticed by these two (`unseen` excepts
them); `prv_complete_sync_out` of the SyncE plugin does not reset
`completion_source`, so that a cancelled operation could not be followed by one
that can be cancelled, which provman, about to leave, does not ask for; and the
test plugin's sync_in returns success and calls nobody back if it cannot make a
file path.

### Bounds

* `Clients`, `MaxCalls`: two clients are enough for a session to be handed over
  and for one client's calls to run in another's session; three let the line of
  waiting clients have an order.  `MaxCalls` is the number of calls a client may
  leave unanswered.  It is one in every run, as for a client that waits for its
  answers; a call stands behind another one in the queue of tasks all the same,
  since calls of several clients meet there.  The theorems hold for any number.
* `MaxPlugins`: one plugin operation makes a command asynchronous, two make it
  go from plugin to plugin.
* `PluginManager`: two plugins let one be synchronised, fail or store before
  the other; the read-only key shares a plugin with a writable one, so that
  commands on a directory meet both; two values tell a new value from an old
  one.  `Leaves` bounds the keys commands name, `FailsIn` and `CancelIn` the
  commands during which plugins fail and the daemon is told to quit; of all
  commands `manager` leaves out only a failure during Set and a cancelled
  GetMultiple, the two defects above.
* `MetaData`: one directory above both plugins and one below a root let removal
  climb to the root, to a plugin's root, and no further than a directory that
  holds something else.  `Named` and `Spoken` bound the nodes that commands
  name: a leaf with a sibling, a leaf without, its directory, and the directory
  above all; and for SetMultipleMeta a directory and a leaf of two plugins at
  once.  No key is below another, as schemas have it.  `CanFill`, `CanFail` and
  `CanDie` let the disk fill up, plugins store parts of their settings, and the
  process die in a session; `meta` has all three.
* `OfonoContexts`: two paths let one context go and another come while a third
  name is in use.
* `OfonoPlugin`: `SimsIn` are three states of two modems: a SIM in the first,
  the same SIM in the second and another in the first, and none.  Of the
  contexts of the first SIM one is for the internet, which is enough for each
  kind of command, and two are for MMS, because the plugin knows one and puts
  the other aside.  `OthersMake` has one of each.  Values are `Ours` and
  `Unset`; that a value of others is overwritten by ours is the same command as
  that an unset one is set.
* `SyncePlugin`: an account with a peer and one for local synchronisation take
  different parts of the template; `Configs` and `Template` have a source of
  each backend, a setting that only one of them has, and both URLs.  `Edits` and
  `MaxEdits` let a session change, add and remove at once.
* `EdsPlugin`: an account with a name and a server, one of which nothing is
  listed, and one that a client makes; two edits change an old account and make
  a new one in the same session.
* `Schemas`: two elements are an unnamed directory and what must not stand
  beside it, or is below it; three names let one be the beginning of another.
  The roots `/a/`, `/b/b/` and `/bb/b/` give directories above plugins, names
  that begin alike, and a root that occurs inside a key of another one; seven
  characters spell a key inside each, with a slash at the end, and `/a/bb/b/`,
  which is all but one of them, misleads already without its end.  `_` stands
  for the characters that no key may have.
* The models have no other bounds: queues are bounded by `MaxCalls`, and the
  number of sessions, restarts and steps is not limited.

### Fairness

`ProvmanClients` assumes weak fairness of the main loop (it dispatches what is
ready), of the bus's news of a lost holder, of plugins (they call back) and of
timers, and strong fairness of a holder's call of End or Abort: a client that
never ends its session keeps it for ever, and the code does not pretend
otherwise.  No client has to call Start, and none has to die.  `PluginManager`
assumes weak fairness of plugins and of the completion source, `OfonoContexts`
of oFono's replies, errors included, after which the plugin goes on by itself.

That plugins call back is shown for each of them.  `OfonoPlugin` and
`SyncePlugin` assume weak fairness of what the main loop does by itself (idle
sources, and the callbacks of calls that were cancelled, which GIO makes without
the other side), and of replies as long as nothing was cancelled: D-Bus replies
to every call, if only with a time-out.  A cancelled operation is therefore
answered without any help of the middleware, which is what lets provman leave.
`EdsPlugin` assumes weak fairness of its two idle sources.  The exceptions are
those of the table above.

## Proofs

`ProvmanProofs.tla` proves, for every set of clients and all bounds:

* `TypeCorrect`: `Spec => []TypeOK`.  Lemmas give the type of what each helper
  builds (`AddTask`, `Granted`, `Settle`, ...); there is one step per action.
* `QueueCorrect`: `Spec => []WaitersHaveHolder`.  The invariant is inductive
  together with `TypeOK`: an appended client is neither the holder nor in the
  queue, because `prv_find_connection` has looked; the tail of a sequence
  without repetitions has none, and does not contain its head, the new holder.
* `ImplementsSessionLock`: `Spec => SessionsInTurn`.  The variables `holder` and
  `queue` map to themselves.  Initial states map to initial states; StartFirst
  maps to Acquire, StartQueued to Wait, the completion of End and the ABORT task
  to HandOver, or to a stutter when there is no holder, Exit to Shutdown, and all
  else leaves both unchanged.  The case without a holder needs
  `WaitersHaveHolder`: nobody waits then, so nobody is handed a session.

and, whatever clients do:

* `UnusedLeaves`: `Spec => []UnusedHasTimer`.  Whether a timer is armed is
  decided by what `idleId` says, so `LoopInv` relates what the program has
  recorded to what is attached: a recorded source is in the line of those to be
  dispatched, a daemon that is busy waits for a plugin or a source, and one
  without a holder has a timer, a source, or a plugin at work.  The first is
  what `prv_process_task` upholds when it returns; the timers that have lost
  their id (`stray`) have to be counted in.
* `NothingAnsweredTwice`: `Spec => []AnsweredAtMostOnce`.  What a client is owed
  is at least the number of its invocations that are kept; lemmas say what
  appending a task, taking the head of a queue and clearing one do to that
  number.  `pending` would otherwise be no natural number.

and in its second half, for any number of clients that are polite
(`Habits = {}` and one call at a time) and any number of plugins:

* `PoliteSessions`: `SpecClients => []PoliteInv`.  None of the properties of
  `ProvmanClients` is inductive, because each depends on which sources the main
  loop has yet to dispatch.  `StageInv` says that a session is at one of seven
  stages (free, beginning, open, called, in a command, lost, ending) or that
  provman is leaving, and what the manager, the queue of tasks, the line of
  sources and the timer are at each.  There is one lemma per handler, which says
  to which stage it leads.
* From it `PoliteStored`, `PoliteCommands`, `PoliteTasksRun`,
  `PoliteBeginnings`, `PoliteEnds` and `PoliteStays`: the safety properties of
  the run `polite`.  `PoliteCommands` and `PoliteStored` are what
  `PluginManager` assumes of the daemon, so for polite clients the two modules
  fit each other on every instance.

`PluginManagerProofs.tla` proves, for any number of plugins and any settings:

* `ManagerTypeCorrect`: `Spec => []TypeOK`, and `NothingIsLeft`:
  `Spec => []NothingLeft`.  The inductive invariant `Inv` adds `WorkInv`: while a
  plugin is at work a session is open, without which its answer would fill the
  cache of no session, and the plugin is the one that the command has come to.
  `SyncPluginsType` and `SyncOutFromType` say what the two loops over plugins
  do; `CommandsAccept` reduces the commands to one acceptance of a well-typed
  command.
* `SettingsAreSynced`: `Spec => []CacheIsSynced`, under the assumption that a
  Set does not meet a plugin that fails to synchronise (`"set" \notin FailsIn`);
  without it the run `set_unsynced` finds a Set whose value no plugin will
  store.  The cache alone does not show why this is so, because Set does not look whether
  the plugin is synchronised: `SyncedInv` adds that the plugins of a Set that
  waits, up to the one it has come to, are synchronised, and that they are the
  plugins of what it sets.

The module also proves `ImplementsSettings`, that the plugin manager
implements `Settings` (`Transactional`): the draft is the cache of what has been
synchronised and `stored` of what has not, each command maps to one step of
`Settings` when it completes, and End maps to its step plugin by plugin.
`PromiseInv` is the strengthening: a command that has not completed has no
result; what it has gone past is synchronised or known not to be; and at the end
what the plugins before the one at work hold is what the draft says.  Two
provisos are needed, and TLC refutes the property without either: no plugin
fails to synchronise for a Set, and no GetMultiple is cancelled.

`SyncePluginProofs.tla` proves, for any accounts, configurations, template and
edits, and whatever calls fail, are cancelled, or are made by others:

* `SynceTypes`: `Spec => []TypeOK`.  `CallInv` adds which calls belong to which
  operation, and that nothing is cancelled unasked.
* `SynceAnswersOnce`: the safety half of `Answers`; that every operation is
  answered is liveness.
* `SynceListsWhatIsThere`: `Spec => ListsWhatIsThere`.  `ReadInv` says that what
  is kept of an account is its configuration, that nothing is kept of an account
  that has not been read, and that what has not been read is still to be.  An
  account that has been written is forgotten (`Forget`), which is what keeps the
  first true.
* `SynceStoresAsWanted`: `Spec => StoredAsWanted`, if clients do not give an
  account two kinds of contacts (`~CanMix`) and syncURL is the URL that counts;
  the two lines of the table above say what happens otherwise.  `StoreInv` says
  that accounts whose turn is over, or was never needed, are as wanted.
  The lemma `SurvivesConversion` is about the data: a configuration that
  contains what `prv_make_context` makes of settings is shown as those settings,
  because each of SyncEvolution's names then stands for one of the client's.

`OfonoPluginProofs.tla` proves, for any modems, SIMs, contexts and values, and
whichever calls fail, be it that a proxy or an MMS context cannot be created:

* `OfonoTypes`: `Spec => []TypeOK`.  `PlaceOK` adds which calls belong to which
  operation and what they are about: a SIM that is being listed or written is
  one whose modem is known, a context whose proxy is being made is known to that
  modem, and a value that is being set is one that the client wants.
* `OfonoAnswersOnce`: the safety half of `Answers`.
* `OfonoListsWhatIsThere`: `Spec => ListsWhatIsThere`.  `ListInv` says that what
  is kept of a SIM's contexts is nothing or what there is, unless others have
  changed it (`unseen`) or a client's changes are under way.
  `prv_ofono_plugin_update_contexts` adds to what is kept, so that without it a
  context that has gone would stay listed; it holds because
  `prv_complete_sync_out` clears the settings and the MMS context together, and
  because commands reach only contexts of the SIM that is worked on.  The last
  is `SimInv`: the modem that is asked holds that SIM, since what
  `prv_get_modems_cb` keeps of a SIM that was found again is not used in the
  session for which it was looked for.

* `OfonoStoresAsWanted`: `Spec => StoredAsWanted`.  `ReadyInv` says that when a
  session is open what was listed is what there is, unless others have changed
  it, and that there is a proxy for each context of it.  `StoreInv` says of
  sync_out, unless a call has failed or others have interfered, that what is
  wanted of a context is there already or is still to be commanded (`Todo`, of
  the commands that are left and the one at work), and that no command is given
  twice.

All four assume that no GetContexts is cancelled
(`"get contexts" \notin CancelIn`), the last two also that SIMs stay in their
modems during sessions (`~CanSwap`); the table above has what happens otherwise.

`MetaDataProofs.tla` proves, for any keys, roots, values and properties:

* `TreesAreWhole`: `Spec => []TreeIsWhole`.  The inductive invariant is stronger
  (`Whole`, for the set `Trees`): a node is a directory exactly if it is no key,
  so that no operation meets a setting where it needs a directory, or the other
  way round.  One lemma per operation of the cache says what the tree is
  afterwards in terms of the one before (`SetSays`, `AddSays`, `MetaSays`,
  `RemoveSays`).
* `CacheIsAMap`: `Spec => CacheIsMap`, from the same lemmas: what they say of a
  tree is what `SettingsMap` says of a function.
* `NothingIsLost`: `Spec => NothingLost`.  `PromiseInv` says that what the last
  End has found said is in the key file, and that the file on disk is no older,
  unless the disk was full when it should have been written (`doubtful`).

`OfonoContextsProofs.tla` proves, for any contexts and names, provided that oFono
does not give a new context a path that the map file still knows (`~CanReuse`),
that contexts do not go which an aborted session has left in the settings
(`~CanHaunt`), and that the names oFono makes up are different and none that
clients use (`Plain`):

* `ContextsDiffer`, `ReverseAsBuilt` and `ContextsKeepNames`: `NamesDiffer`,
  `ReverseIsBuilt` and `NamesKept` of the run `contexts`.  A map is taken for the
  set of its entries, in which no name and no path is twice (`Maps`); lemmas say
  what storing, deleting, naming all contexts and removing the unused make of
  that set.  `Inv` adds that what is left in the settings of an aborted session
  is in the map, that what is in the map has been listed, that the contexts still
  to be created have names that are in no entry, and that the names clients gave
  are in the map, or in the file if they were saved.

`SchemasProofs.tla` proves, for any plugins, schemas and keys of any length:

* `UnnamedDirectoriesAreAlone`: `Spec => []UnnamedIsAlone`.  It is inductive with
  the types: a directory is only added where no unnamed one is, and an unnamed
  one only where nothing is.
* `KeysAreFoundAsPaths`: `Spec => []KeysAgree`.  `KeyInv` says that what has been
  read is a tree (`IsTree`), and the rest is about sequences of characters.  A
  name begins where a character that is no slash follows one (`NameStarts`), and
  is the n-th if n of them begin there or before.  `BelowPath` and `PathBelow` are
  the core: a path is below another if and only if the key is, up to a slash at
  the end.  The second looks at the first place where the two keys differ, and
  shows that the name that this place is in, or the one that begins there, would
  be another.  That two roots are never below one another (`PluginCheck`) makes
  the owner of a key one.
* `TreeIsInOnePiece`: `Spec => []TreeIsOne`.  `LocateChild` says that the place of
  a child is one step further than that of its directory, from what a fold over
  one name more does (`WalkFurther`), and `StepAgrees` that such a step finds
  what is listed.  Where no plugin owns the directory, its children are the next
  names of the roots below it (`DirectChildren`), and a child that has an owner
  is the root of it (`ChildOfNone`).  `WalkOne` says that a lookup finds one
  place at most, which `UnnamedIsAlone` is not needed for: an unnamed directory is
  looked up last.

What folds over sequences and sets compute is proved in `OfonoPluginProofs` and
the three modules after it by `Folding.tla`. The theorems of the library for
recursion and induction take operators as parameters, which no prover here can
instantiate; its well-founded minimum (`WFMin`) is about sets. So a fold is
described by a function from sets of what has been taken to results (`Stages`):
`FoldExists` shows that there is one, and `FoldKeeps` that what holds at the
beginning and is kept by each step holds at the end. Each use states the steps
as a function and its claim as a set.

The assumptions are those of the modules: provman has a plugin, every setting
belongs to a plugin and every plugin has a setting, the stand-in for a missing
value is no value, configurations and settings have properties and values of
their kinds, lists of modems and contexts are finite and name nothing twice, and
keys are finitely many and not the root.  Roots have passed
`provman_plugin_check`, as they must before provman starts, and end with a slash,
as all do; names in schemas have no slash, as those of the schemas that come with
provman have none (the code does not look, and would not find a name with one);
and the schemas of the other plugins are trees, which is what `KeyInv` shows of
each that is read.

What is only model-checked: liveness, which the prover does not reach
(`EveryCallAnswered`, `WaitersServed`, `QuitLeaves`, `CommandsComplete`,
`StoreCompletes`, and that the plugins do answer), and the EDS plugin, of which
each operation is several folds over accounts, settings and names together.

## Not modelled

Texts of replies and of the log; parsing of arguments, and of XML as far as the
library does it; commands that are refused because of their key or value alone,
which leave no trace (that they are refused rightly is in `Schemas`); the test
plugin, which reads and writes a key file for the tests; file paths; the test
harness; the entry points, which choose a bus and a set of plugins.  The
environment of the models, GLib's loop, the bus and the middleware, is taken
from how the code uses them.  Of a D-Bus proxy that was made it is assumed that
it stays valid.

## Plan

1. (done) SessionLock, Provman, ProvmanClients; Settings, PluginManager.
2. (done) Cache, SettingsMap, MetaData: the tree against the function that
   PluginManager takes it for, and meta data over sessions.
3. (done) MapFile, OfonoContexts.
4. (done) Plugin, OfonoPlugin, SyncePlugin, EdsPlugin: this discharges the
   fairness assumed of plugins, or shows where it fails.
5. (done) Keys, Schemas.
6. Meta data commands in PluginManager as well, where plugins are synchronised
   in between.
7. (done) Proofs: `UnusedHasTimer`, `AnsweredAtMostOnce`, the safety properties
   of polite clients, the refinement of Settings, the SyncE plugin, the oFono
   plugin and the names of its contexts, the cache and the meta data, and the
   schemas and keys.
8. Proofs: the EDS plugin, whose argument is that of the SyncE plugin with the
   names of `OfonoContexts`.
