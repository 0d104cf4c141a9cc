# radarr-mcp in TLA+

radarr-mcp is an MCP server that gives a language model tools for a Radarr
server: 140 tools, each a Go handler that sends Radarr a few HTTP
requests and answers. The server runs the calls of one turn at the same time.
Radarr keeps the state; the program keeps almost none of its own but its locks,
one shared read of the library and the commands it is waiting for. What is hard
is therefore between requests: a handler reads a record, and what it sends back
was true when it read it.

This directory models that. It holds TLA+ modules, TLC configurations that
check them on small instances, and TLAPS proofs for every instance.

- [Inventory](#inventory): the system's parts
- [The modules](#the-modules): what models what, and how
- [The runs](#the-runs): what each checks, its bounds, its fairness
- [The proofs](#the-proofs)
- [Where code and comment part](#where-code-and-comment-part)
- [What is taken from outside](#what-is-taken-from-outside)
- [The plan](#the-plan) and [Not modelled](#not-modelled)

## Inventory

Paths are under `src/`.

### Locks: `vendor/github.com/katbyte/go-kt/lock`, `tools/locks.go`

State: a `Set` has a reader-writer lock `all`, a mutex `mu`, and a map from key
to `keyLock` (a mutex and a count of holders). The registry has one set, shared
by every session.
Operations: `By(things...)` takes each key's lock in sorted order and returns
an unlock; `All()` takes `all` for writing; `Idle()` is for tests.
Interactions: every edit takes the lock of the record it resolved. Restore,
restart and shutdown take `All`.
Hard: the map's entries come and go while other calls wait on them; two callers
name keys in different orders; `All` waits for readers that hold keys while
later readers wait for it.
Correct when: a key two callers named is one lock; nothing waits in a circle;
every request is granted; nothing is left in the map.

### Records, providers, profiles, sections: `tools/records.go`, `provider_kinds.go`, `providers.go`, `quality.go`, `quality_profiles.go`, `naming.go`, `settings.go`

State: Radarr's; a call holds a copy between its read and its write.
Operations: find, add, edit, delete; a forced add of a provider writes twice,
switched off and then on.
Interactions: an edit finds its record, locks it, reads it again, puts in what
it was given and sends the whole back. Deletes ask for `confirm`, and only a
profile's takes a lock.
Hard: two edits of one record; an edit beside a delete; a write that is carried
out after its call ended; a record looked up twice by text.
Correct when: what a call was not given is left as it is; a call acts once, on
the record it named; an unconfirmed call changes nothing.

### Server administration: `tools/admin.go`, `server.go`, `confirm.go`

Operations: create, restore and delete a backup, restart, shut down, cancel a
task.
Hard: nothing may write while a restore swaps the database; a backup that
appears may be another call's; a task read as waiting may have started.

### Films: `tools/movie_edits.go`, `moviefiles.go`, `fields.go`, `tags.go`

Operations: add (looked up first; up to four tries after a clash; then a wait
for the new film's scan), edit (a batch request, then tags one list at a time),
pointing a film at a folder (locked, read, sent back whole), moving its files
(a batch request, then a wait for Radarr's move command), delete.
Hard: a request of several kept when a later one fails; waiting for a command
that was never seen, or for another call's; two adds of one film; two calls
that create one tag; a tag deleted while a film is being given it; a write that
is carried out after its call ended.
Correct when: an edit that answers left its films as it was told to; nothing
another call changed is sent back as it was; a film is added once; two calls
that want one tag both get it.

### Library reads: `tools/radarr.go`

State: one library read in flight, shared by the calls that want it.
Operations: the shared read; matching a name, a year or an id to one film;
windows of a long list.
Hard: a call joins a read begun before its own edit; the reader that started it
is cancelled; an offset inside one of Radarr's pages; a list that grows and
shrinks between its pages.
Correct when: one caller at a time leads a read, and its being cancelled fails
nobody else; a walk through a list that nothing leaves misses nothing.

### Commands: `sdk/radarr/command_method_postcommand.go`, `tools/tasks.go`, `imports.go`, `releases.go`, `acquire_more.go`

State: Radarr's command queue; a call polls its command.
Operations: post a command, wait for it with a limit, cancel one.
Hard: the limit passes as the command ends; another call's move is taken for
one's own; a command starts as it is cancelled; a scan of the tool's own beside
Radarr's.
Correct when: every wait ends; what is answered of a command is so; a film
added is scanned, by the tool itself only when no refresh of it was listed; a
command told as cancelled never runs.

### Queue, blocklist, exclusions, history: `tools/queue.go`, `exclusions.go`, `history.go`

Operations: remove items one at a time, or all that match.
Hard: one of several fails; the list changes between the read and the removal,
and while it is read page by page.
Correct when: what is told as removed was there and is gone; nothing is removed
when an id is missing.

### Requests: `vendor/github.com/katbyte/go-kt/httpc`, pandorest's `client/request.go`

State: how often a request was sent again, shared by two layers: `RoundTrip`
sends again what was refused or lost, `Fetch` what stopped part way.
Hard: a write that may have been acted on; an answer that never comes; a call
cancelled while its request is out or waiting.
Correct when: a write is done once at most, and told as what it was.

### Serving, tool selection, SDK, and the rest

`cli/` and `main.go` read flags and serve over stdio or HTTP, and end the calls
that run when told to stop. `tools/all_tools.go` with go-kt's registry chooses
the tools offered. `sdk/radarr` is
generated from Radarr's API documents by `sdk/pandorest`. `tools/audit*.go`,
`movies.go`, `calendar.go`, `collections.go` and `rootfolders.go` read, or send
a single request.

`PROJECT.json` lists each part with what is modelled of it, and the hazards
each meets at their lines.

## The modules

| module | models | role |
| --- | --- | --- |
| `MultiLock` | what go-kt's `lock` package comment promises | abstract specification |
| `LockSet` | `lock/set.go`, step by step | implements `MultiLock` |
| `Records` | a record, a request, an edit's effect | shared by the next two |
| `AtomicEdits` | what `tools/locks.go` promises of a turn's calls | abstract specification |
| `RecordEdits` | the handlers that send a record back whole, over `MultiLock` | implements `AtomicEdits`, under conditions |
| `Films` | `movie_edits.go`, `tags.go` and `resolveTags`, over `MultiLock` | |
| `Commands` | posting a command, the waits for one, `task_cancel`, `server_backup_create` | |
| `Requests` | httpc's retries and the library read that calls share | |
| `Listings` | Radarr's long lists: read by page, walked, and rows taken off | |
| `MCLockSet`, `MCRecordEdits`, `MCFilms`, `MCCommands`, `MCRequests`, `MCListings` | symmetry and the requests TLC tries | instances |
| `LockSetProofs`, `RecordEditsProofs`, `FilmsProofs`, `CommandsProofs`, `RequestsProofs`, `ListingsProofs` | | proofs |

The composition is by refinement. `RecordEdits` and `Films` use the locks as
`MultiLock` has them, each request granted at one moment, and `LockSet` is shown to
implement `MultiLock`, so the interleavings inside `By` and `All` are checked
once and not again under every tool.

### LockSet

One variable per field of the Go types: `table` is `s.keys`, `holders` and
`owner` are a `keyLock`'s count and mutex, `readers` and `writer` are `all`.
`ptr[p][k]` is the `*keyLock` a caller has for a key, so that a lock deleted
and made again is a different object, as it is in Go. An object is free to be
allocated when nothing points to it.

`By` sorts its keys and takes `all` for reading (`By`, which parks the caller
when a writer is waiting); then for each key in order it finds or makes the lock
and counts itself in, under `s.mu` (`Join`), and locks the mutex (`Acquire`);
then it returns (`Enter`). `unlock` goes from the last key to the first:
`Unlock` the mutex, `Drop` the count and perhaps the entry; then `RUnlock`.
`All` is `Announce` (it has the RWMutex's writer mutex and holds new readers
back), `Drained`, and `UnlockAll`, which lets in every reader it held back.

A section under `s.mu` is one action: nothing else touches what `s.mu` guards
and nothing blocks inside it. Keys are numbers in the order `By` sorts them.
A caller makes one call of `By` or `All` at a time, the package's "lock once".

### RecordEdits

Each call is a process and each action a request that Radarr answers, together
with what the handler does until the next. `pc` goes `new`, `find` (the list is
read), `lock` (it waits), `held` (the record is read again), `write`, `landed`
(Radarr has carried the write out or refused it), `done` or `failed`. A forced
add has one more stage, `second`. `target` is the id that was found and locked,
`at` the id the write goes to, `copy` what is sent.

One module serves all the kinds because the handlers are one shape. `kind` picks
the differences that matter:

| | `record` | `provider` | `profile` |
| --- | --- | --- | --- |
| code | `records.go` | `provider_kinds.go` | `quality_profiles.go` |
| the list's order | by id | by name, then id | by id |
| read again by | `find(id as text)` | `find(id as text)` | its id |
| delete locks | no | no | yes |
| forced add | no | yes | no |

Size limits, naming and settings sections edit as profiles do, with one record
that nobody deletes.

A name is a number: one in `Id` is a name spelled as that id, which is all that
`find` can confuse. A field's value says which call gave it, so a value undone
shows. `Gone` and `Unborn` are told apart because an id is never given twice.

`GivesUp` lets any call end, timed out or cancelled, while its write is with
Radarr: an edit's, a delete's, an add's, either write of a forced add, a restore
(`GiveUp`). It unlocks, and the write may land later, whatever is locked by then
(`LandLate`).

### Films

Calls of `movie_add`, `movie_edit`, `movie_batch_edit`, `movie_delete`,
`tag_create`, `tag_rename` and `tag_delete`, each action one request and what the
handler does until the next. `pc` follows the handlers: an edit goes `find`,
`lock`, then `read` and `point` when it is given a folder, `fields` for the
movie editor's first request, and for each of its tag lists `tags` (they are
read), `create` and perhaps `again` (one label at a time), `apply`; then
`answer`. `at` counts the tag lists of an edit and the tries of an add.

A film is three parts: `path`, `mon` (any field that only the editor sets) and
its tags, which are ids; `label` is Radarr's tags. A value is the call that gave
it, so one that was undone shows. `Ops` is the code's table of tag lists, with
its rule that an empty replacement is made and an empty addition is not. An edit
that gives nothing at all is refused before any request, and so is no input. A
folder is one films began at (`Base`) or one that the call of that name gives;
`pointAt` refuses a film that is there already (`ReadFilm`).

Any request can fail, and a rescan or a move that is waited for end badly
(`RequestFails`): the lock is given back as `defer` does (`Ends`). A write that
failed so may never have reached Radarr, or be carried out all the same, its
answer lost, at once or long after the lock has gone to another call:
`late` says which write is out, and `LandLate` carries it out on what is there by
then. What Radarr does with a write is one definition (`CarriedOut`, over
`FilmPointed`, `FieldsSet` and the rest), whether its call is still there or not.
An add refused as a clash may have added its film (`PostClashes`).

A label and a tag id written as text are not confused here. A film added after a
delete would have another id, and is not modelled; the waits that follow an add
and a move are `Commands`'.

### Commands

`cmds` is Radarr's commands in the order they were queued, `files` the backups it
lists. Each call runs one tool: `run` posts a command and follows its id
(`WaitForCommand` and `ran`; every tool that does stands here, `movie_rename` and
`task_run` among them), `backup` lists, posts, follows and lists again, `add` looks
for Radarr's own refresh and posts a rescan when it has seen none by the end of its
grace, `move` looks at every move queued since (`LookMoves`; `since` is any earlier
moment, which the code's two seconds allow), `cancel` reads and then deletes. The
code reads the commands and looks at the clock afterwards, so `Look` is the read and
`SeenNone` the test: a refresh may be queued between them. The clock itself is not
modelled: a deadline may come at any time, and the grace be over whenever it is
looked at. `waitForMove` compares Radarr's time of a command with its own
(`movie_edits.go:658`); the two clocks are taken to agree within its two seconds. A
read of the commands or of the backups may fail, or its call be cancelled
(`ReadFails`). A post of a command, or the deletion of one, that fails is left out:
its call ends there, and whether the command was queued or taken out is no
property's business. Of the five ends of a command, aborted and orphaned are to
these tools what cancelled is. Radarr starts and ends commands in any order, or
never; that is stronger than what Radarr does.

A backup answers with the newest that was not listed before, which with another
call's backup beside it may be the other's; `gave` is any of them.

### Requests

`net` is where a call's request is: with Radarr (`sent`), acted on and its answer on
the way (`acted`), or waiting to be sent again (`backoff`). `again` is the count
both layers share. `stray` counts writes that were given up on and may still land
(not so of reads: one that has timed out may still be with Radarr when the next is
sent, and the model does not count it). `faulted` are the calls whose request failed
for what Radarr or the way there did, as against their own cancellation. Refusals
are told apart by what may be done about them: 429 (`TooMany`) lets anything be sent
again, a lost answer only a read, a timeout or a 500 nothing. The library read has a
leader (`flight`) and those who `wait` for it; its context does not end with its
leader's.

### Listings

`list` is one of Radarr's lists, newest first, a row being the number it was made
as. A client walks it, a page of rows at a time: `window` as `history_list` and
`server_logs` do, which asks Radarr for one page or two; `whole` as
`blocklist_list` does, through the SDK's `Complete`, which reads every page;
`recent` as `history_list` does when it is given an age. A removal reads the list
whole, looks for every id and deletes one after another; `blocklist_remove` does
not look. `came`, `torn` and `left` are history: whether rows were made or went
while a call ran. Deleting what is not there is an error or not, as Radarr
answers it for the queue and the exclusions.

History, log and blocklist are asked for newest first. The queue and the exclusions
are read with no order asked for (`queue.go:82`), which is Radarr's own; what is
said of removals from them takes it that that order, too, only grows at an end and
shrinks. The order `queue_list` sorts the queue into is left out. `since`, the age
`history_list` is given, is fixed for a walk, though each call reckons it from its
own now (`history.go:147`): a row that grows too old between two calls is left out.

## The runs

| run | module, cfg | question |
| --- | --- | --- |
| `locks` | `MCLockSet`, `_safety` | do callers ever share a lock wrongly, lose one, leave one behind, or wait in a circle? |
| `locks_live` | `MCLockSet`, `_live` | is every request granted, and as if at one moment? |
| `turn` | `MCRecordEdits`, `_turn` | do a turn's edits, deletes and adds each act at one moment? |
| `alone` | `MCRecordEdits`, `_alone` | beside restores, forced adds and writes that outlive their calls, does every call that locks its record keep clear and is everything unlocked in the end? |
| `swap` | `MCRecordEdits`, `_swap` | does nothing write while the database is swapped? It does. |
| `clash` | `MCRecordEdits`, `_clash` | does an edit write to what it locked when a name spells an id? Not always. |
| `forced` | `MCRecordEdits`, `_forced` | do a turn's calls undo nothing when one is a forced add? One can. |
| `films` | `MCFilms` | do edits, adds and deletes of films and changes of tags, side by side, undo each other, fail each other or leave a film locked? |
| `tagged` | `MCFilms`, `_tagged` | is what an edit sends back the film as it is? Not beside a `tag_delete`. |
| `commands` | `MCCommands` | does a wait end, with a true answer, and is a new film scanned, by the tool only when no refresh was listed? |
| `requests` | `MCRequests` | is a write done at most once and told truly, and does nobody's cancellation fail another? |
| `listings` | `MCListings` | does a walk see the whole list, and a removal remove what it says? |

`swap`, `clash`, `forced` and `tagged` are counterexamples; see
[Where code and comment part](#where-code-and-comment-part).

**Bounds of the lock runs.** Three callers make a holder, a waiter and a
newcomer, which is what it takes for an entry to be deleted under a waiter or for
`All` to meet a reader that waits for another. Three keys (`locks`) let two calls
overlap in one key and differ in another, and allow a circle of three. There is
one lock object more than keys, so a second object for a key could appear; with
`locks_live` no spare is needed, `OneLockPerKey` having been checked. Callers
and lock objects are interchangeable, so `locks` uses symmetry; `locks_live` is
temporal and does not.

**Bounds of the edit runs.** `turn` has three calls: two that edit and one that
deletes or adds, or any other mix, on two ids and two names, with two fields so
that two edits may give different ones or the same. Three kinds are tried, and
records start present or not. Fewer ids would make every call meet in one record;
more only add calls that do not meet. `alone` has one id, where every call meets,
and three calls: a restore, an edit, and a delete or forced add. Each call is
made once, which bounds the behaviours; a longer turn is more calls, and the
proofs cover any number. In `turn` no call gives up (`GivesUp = FALSE`), because
then the properties do not hold: what it shows is what the locks do for calls that
are answered. `alone` has `GivesUp`.

**Bounds of the others.** `films` has an edit, a second call that edits, adds or
deletes, and a third that adds or changes tags, which makes each pair that shares
state meet and lets a third interfere; two films, one of which may not be there;
two labels, one of them a tag at first; and one failing request, because after it
its call is over; its write may land at any time after. `requests` has three calls so that a read has a leader, one
who joins and one who comes after, and two tries, which tell a first from a last.
`commands` has two calls that wait and one that cancels; Radarr refreshes the new
film once, so a film can have its own refresh, another call's and a rescan at
once. `listings` has lists of up to four rows, one of which may go by itself, in
pages of two; limits of none given, two, and more than the most; offsets before
the start, in the middle of a page and on one. The second row past a page's end
is what makes a window read twice.

**Deadlock.** Checked in the lock runs: a caller can always ask again. The others
switch it off, because a turn of calls that were each made once ends.
`Answered`, `CallsEnd` and `WaitsEnd` are what say that no call is stuck.

**Fairness.** `LockSet` assumes that a call that has begun goes on: weak fairness
of each step, and of unlocking, because a tool unlocks by `defer` when it returns
and its requests have time limits. The two steps where callers race for a mutex,
`Acquire` and `Announce`, are strongly fair: Go's `sync.Mutex` hands itself to its
longest waiter once that one has waited 1 ms. Calling `By` or `All` is never
assumed. `RecordEdits` assumes weak fairness of each call's steps as a whole:
Radarr answers or the client's limit ends the request, and a free lock is granted,
which `ByGranted` and `AllGranted` show for `LockSet`. Weak is enough there,
because each call is made once and so a lock stays free once the others have
ended. Nothing is assumed of `Begin`, `GiveUp` or `LandLate`. `Films`, `Requests`
and `Commands` assume the same of each call's steps. In `Requests` that Radarr
answers is not assumed, as a timeout is one of the steps; in `Commands` nothing is
assumed of Radarr, which may never come to a command, but that a deadline passes.
`listings` states no fairness: a list that grows for ever can be read for ever.

### The properties

`LockSet`
- `OneLockPerKey`: what callers hold or wait for under one key is one object, the
  map's. Deleting an entry one count early breaks it, three steps and two callers
  later.
- `HoldersExact`: the count is the number of callers that hold it or wait.
- `InsideHoldsAll`: a caller that `By` has returned to has every key it named, no
  other such caller named one of them, and none is inside beside `All`.
- `NoWaitCycle`: no set of callers wait for each other, through keys, `all`, or
  both.
- `NothingLeftBehind`: when nobody is inside, `Idle` answers true.
- `ByGranted`, `AllGranted`: every request is granted.
- `GrantsAtOnce`: it implements `MultiLock`.

`RecordEdits`
- `CopyIsCurrent`: from an edit's second read to its write, Radarr's record is the
  one it read, or has been deleted.
- `WritesWhatItLocked`: the write goes to the record that is locked.
- `ActsAtOnce`: it implements `AtomicEdits`: every call acts once, at one moment,
  on the record it was found to name, or is refused and changes nothing. An
  unconfirmed call in particular changes nothing.
- `LockedKeepClear`: while a restore or a stop is with Radarr, what is carried out
  beside it is the write of a call that locks nothing (an add, a delete of anything
  but a quality profile), or one that its call had given up on, and unlocked. An
  edit that is still under way writes nothing.
- `Answered`: every call ends, with nothing locked.

`Films`
- `PointUndoesOnlyTagDeletes`: what an edit is about to send back whole is the
  film as Radarr has it, but for tags a `tag_delete` has just taken off, unless a
  write to it has landed that its call had given up on (`LandedOn`).
- `EditStands`: as an edit answers, its films are as it was told to make them,
  each of its requests still standing, when no tag is deleted or renamed; `LandedOn`
  films are excepted again.
- `RaceIsNoError`: an edit is not failed by another call that makes the same tag:
  while nothing else goes wrong, it fails only for a film that is not there, a folder
  given with `root_folder`, or a folder the film is at.
- `AddedOnce`: of two adds of one film one at most succeeds, and the film is there
  or was deleted since.
- `HeldIsOwn`: a film that is held changes only by its holder, by a `tag_delete`,
  or by the landing of a write its call had given up on.
- `Answered`: every call ends, with nothing locked.

`Commands`
- `CancelledNeverRan`: a command told as cancelled is cancelled, then and after.
- `MoveToldTrue`: an edit that moved films answers when its move has ended well,
  and fails for its own move when nobody else moves anything.
- `AddScanned`: any refresh of a film that is rescanned was queued after the call
  last looked, and a call without a rescan answers only after a refresh has ended
  and not failed. A refresh queued after the look is a second scan; nothing prevents it.
- `BackupFound`: a backup that completed is found.
- `WaitsEnd`: every wait ends, whatever Radarr does.

`Requests`
- `AtMostOnce`: a write is carried out once at most, later landings included.
- `AnswerTrue`: one told as done was, and one told as refused never will be.
- `OneLibraryRead`: one call at a time leads a read of the library, retries included.
- `SparedOthersCancel`: while no request fails, a call that fails was cancelled
  itself.
- `ShowsTheEdit`: an edit answers the library as it stands after it, unless it
  joined a read that Radarr had already answered.
- `CallsEnd`: every call ends.

`Listings`
- `StillShownAsIs`: a list that stands still is shown whole, in order, each row
  once, for any limit and offset.
- `NothingMissed`: while nothing goes, a walk misses no row though rows come, and
  a removal is not refused of a row that is there. A window read in two halves
  with a row made between them is excepted.
- `RemovedWereThere`: what is told as removed was in the list and is not; it is
  the ids in order, up to the first error; none when one was missing.

`TypeOK` in each; `RecordEdits`' also says that no write to a record is sent
without its id. Every property has a slip of the code, written beside the
action it would be made in, under which TLC finds it broken
(`PROJECT.json`, `mutants`).

## The proofs

`tlapm` checks them all. Every invariant that a passing run checks is a theorem,
and so are the two action properties and the two refinements; of `RecordEdits`
three are under the conditions that `turn` meets. Nothing is assumed but the modules'
`ASSUME`s, which TLC evaluates for the instances it checks:

- `Key` is numbers and `Proc` finite; a request is tried at least once; pages and
  limits are at least one row;
- the values that stand for no film, no tag, no command or no request are none;
- a call is asked something its tool takes. These are the handlers' own checks: an
  edit has a field, a folder or a tag list to change, and a folder only for one
  film; a removal names an id; no tool posts a move as a command of its own,
  Radarr's movie editor does.

**`LockSetProofs`**, for any number of callers, keys and objects. The properties
are not inductive alone: whether dropping an entry is safe depends on whether the
count is right, which depends on who points at the object. `Inv` is `TypeOK`,
`OneLockPerKey` and `HoldersExact` together with

- `OneKeyPerLock`, two keys are never one object, so counting for one key does
  not disturb another;
- `OwnerJoined`, whoever has an object's mutex counts as its holder;
- `AllMatches`, what `readers` and `writer` are, from where each caller is;
- `StageMatches`, at each stage all the joined keys are locked but at most the one
  being waited for or dropped.

One lemma per action shows that it is kept. The theorems are `TypeCorrect`,
`OneLockEach`, `CountsExact`, `Exclusive` (from `Inv`, `InsideHoldsAll`),
`LeavesNothing`, `Implements` (each step is a step of `MultiLock` or a stutter)
and `NeverInACircle`. The last needs more than `Inv`: `Upward`, that a key a
caller waits for is beyond every key it has. A circle with `All` or a parked
reader in it leads to a caller that waits for a key. Whoever has that key waits
for a greater one, so the callers that wait beyond it are strictly fewer, and
finite sets cannot shrink for ever (`WellFoundedInduction`'s `WFMin`).

**`RecordEditsProofs`**, for any calls, ids, names, fields and requests. `Fits`
is what each stage of a call implies of the rest: what it was asked, that an edit
at `held` or `write` holds exactly the lock of its target, that a delete that is
sent was confirmed. With `TypeOK` and the locks' exclusion it is inductive
(`Invariance`), whatever the calls ask. Then

- `TypeCorrect` and `LockedStayClear`: no condition, `GivesUp` among them.
  `LockedKeepClear` is an action property and follows from one state: a call that runs
  alone has `All` from the moment its request goes out, one whose write is out and
  which locks has its record's lock, and the two exclude each other; so whichever
  action changes a record then is one of a call that has no lock, or `LandLate`;
- `WritesItsOwn`: if no name spells an id (`Apart`);
- `ReadsCurrent` and `ActsOnce`: if also no add is forced and no call gives up
  (`Calm`).

The conditions are what the handlers do not guard against. They are needed: the
runs `clash` and `forced` break the properties without the first two, and with
`GivesUp` a write lands after the lock it was made under has gone to another.
The argument for `ReadsCurrent` is that a step that changes a record is an edit's
write, which holds that record's lock; a delete's, which leaves it `Gone`; or an
add's, which takes an id that was never used, and so no copy's.

**`RequestsProofs`**, for any calls, of which any may write, and any number of
tries. `Inv` is `TypeOK` together with

- `Flights`, the call that reads the library is the one in flight, and nobody
  waits when none is;
- `Nets`, a call has a request out just when it writes or reads;
- `Writes`, how often a write has been carried out or may yet be, from what its
  call was told of it, and that a call that has its answer was told "ok";
- `Views`, an edit's change is in what was read since it was made, for as long as
  it is waited for, handed over and answered;
- `Spared`, a call that has failed, or was handed a read that had, was cancelled
  itself, or some call's request failed for another reason.

The properties lean on each other's parts: that a write is not sent again once it
may have landed needs `Nets`, and that an edit's own change is in the view it
waits for needs `Writes` (it was told "ok", so it had landed) and `Flights` (the
read it waits for is one that is out). One lemma per action shows that `Inv` is
kept; the theorems are `TypeCorrect`, `WrittenOnce`, `ToldTrue`, `OneReader`,
`ShownItsEdit` and `OwnCancelOnly`, from nothing but `RequestsAssumption`.

**`FilmsProofs`**, for any calls, films, tags and labels, and any number of
failing requests. What makes the proof possible is `Turn`: one formula for what a
step of any call may do to what calls share. It changes a film it holds, or one that
a write of it lands on late, adds one that was not there, or strips its tag as a
`tag_delete`; it makes a tag under a
label no tag has, or changes one as a `tag_delete` or `tag_rename`; it leaves every
other call's own state alone. Each action is shown once to be a `Turn`, and that the
other calls keep their part of `Inv` is shown of `Turn`, once, and not of every action.
`Inv` is `TypeOK`, the locks' exclusion, `TagsGiven` and, of each call,

- `StageOf` and `CountOf`, what each stage implies of what was asked, and how far
  in its tag lists or its tries the call is;
- `LockOf`, an edit and a delete hold exactly their films from the grant until they
  end, and nobody else holds any;
- `LateOf`, a call with a write out that it gave up on has failed, and the write is
  one of those its tool sends;
- `PointOf`, `PointUndoesOnlyTagDeletes` of one call;
- `TagsOf`, the tags an edit has resolved and the labels it has yet to create are
  together what it was given;
- `StandOf`, what an edit has done so far stands, request by request;
- `RaceOf` and `AddOf`, the two properties of one call.

`PointOf` needs `LockOf`: only a `tag_delete`, and what lands late (`LandedOn`, which
stays true once it is), changes a film that is held. `EditStands`
needs `StandOf`, for the edit's earlier requests, and `TagsOf`, for what the next
one sends. `TagsGiven`, that no film or call has the id of a tag not yet made, is
what keeps a tag that another call makes from appearing on films. `RaceIsNoError`
rests on `TagsOf` too: an edit fails in `again` only when its label is nowhere, and
by then the tag that made Radarr refuse its own is there. The theorems are `TypeCorrect`,
`UndoesOnlyTagDeletes`, `EditsStand`, `RacesAreNoError`, `AddsOnce` and
`HoldsItsOwn`. `OneOp` and `OpsInOrder` say which tag lists an edit has and in which
order: `replace` first, then `add`, then `remove`, each at most once.

**`CommandsProofs`**, for any calls and any number of commands. `Inv` is `TypeOK`,
`MoveOwners` (only an edit queues a move, and one), `BackupsListed` (a backup that
completed is listed) and of each call `StageOf`, `CancelOf`, `MoveOf`, `ScanOf` and
`BackupOf`: what its answer, and its stage, imply of its command. `Later` says what
any step does to the commands: they are only added to, keep what they are, and one
that has ended stays as it ended. Every part about a command is stable under
`Later`, so a step is shown to be one and only the call that took it is looked at
again. Two of the parts could not be done without. That a failed answer is of one's
own move needs `MoveOwners`: with no other mover, every move since is one's own.
That any refresh of a film that is rescanned came after the last look needs, from
the look on, that `since` is no further than the end of the queue, as one may be
queued between the look, the test of the clock and the post. The theorems are
`TypeCorrect`, `NeverRuns`, `MovesToldTrue`, `ScansUnseen` and `FindsBackup`.

**`ListingsProofs`**, for any calls, and lists, limits, offsets and pages of any
size. `ListOf` has the list in falling order, so a row is in it once. Of each call,

- `SuffixOf`: while nothing has left, the list as it was when the call began is the
  end of the list now, so the row that was i-th is at `Place(c, i)`;
- `ReadOf`: of a list being read whole, a row whose place is within what was read
  has been read, at its place now or before it (rows only move back);
- `HalfOf`: between the halves of a window the list is as the first half found it;
- `ShownOf`: a row whose place is before where the next page begins was shown;
- `StillOf`: of a list that stands still, exactly the rows up to there were shown;
- `RemovalOf`: what was told as removed is what was asked, so far, was read and is
  gone.

A page is a cut of the list, and the lemmas `CutIs`, `CutOfCut` and `CutOfTwo` say
what a cut of a page, and of two pages on end, is of the list; `DivMod` and
`ListCovers` place the two pages about the window. `ShowInv` is the end of every
walk, of a window, of a whole list and of recent rows. `NothingMissed` is not
inductive because it is of the end of a walk: `ShownOf` is what it says on the way,
and it in turn rests on `ReadOf`, as rows that come between two of Radarr's pages
move what is yet to be read. The theorems are `TypeCorrect`, `ShownAsIs`,
`HideNothing` and `TrulyRemoved`.

**Only model-checked**: `ByGranted`, `AllGranted`, `Answered`, `CallsEnd` and
`WaitsEnd`, which are liveness and out of this prover's reach. `NothingUndone`,
`NoWriteWhileAlone` and the `CopyIsCurrent` of `Films` do not hold, and nor does
`WritesWhatItLocked` where names spell ids: their runs are counterexamples.

## Where code and comment part

1. **`swap`**. `server_backup_restore` says "nothing else may write while the
   database is swapped out from under it" (`tools/admin.go:116`) and takes every
   lock. Deletes (`records.go:519`, `provider_kinds.go:715`) and adds
   (`records.go:443`, `provider_kinds.go:616`) take none, and land meanwhile.
   Calls that lock keep clear, unless they have given up (`LockedKeepClear`). And a
   restore that times out unlocks while Radarr goes on with it: `alone` has that
   too, and nothing says what may be written from then on.
2. **`clash`**. An edit locks the id it found and then finds its record again
   with that id as text (`records.go:467`, `provider_kinds.go:657`). `find`
   takes the first whose id or name is the text. An indexer named `2`, listed
   before the one whose id is 2, is then read, changed and sent in its place,
   and it is not the one that is locked. `tools/locks.go:18` says the edit locks
   the record it has resolved and then reads what it will write back.
3. **`tagged`**. `tools/locks.go:37` says that a film that is pointed at a folder
   "cannot be read before the edit and written after it". `tag_delete`
   (`tags.go:154`) edits films without `movieLocks`; an edit that had read one of
   them sends the tag back, and Radarr then refuses to delete it, or keeps its id.
4. **`forced`**. A forced add makes its provider switched off and then sends the
   whole of it again, as given, without a lock (`provider_kinds.go:616-634`). An
   edit of it in between is written over; `tools/locks.go:10` says the calls of
   a turn are kept from undoing each other.

Met while modelling, each a condition in a property or an abstraction, with no run
of its own:

- `movie_edit`'s answer is described as "the films as they stand after the edit"
  (`movie_edits.go:64`). An edit that joins a library read Radarr had already
  answered shows them as they were: `behind` in `ShowsTheEdit`.
- A window that begins inside one of Radarr's pages is read in two halves, with
  the total of the first. A row made between them moves the last one out, and
  `next_offset` says there is no more (`radarr.go:676-692`): `torn` in
  `NothingMissed`.
- `WaitForCommand` returns no error for a command that was cancelled, aborted or
  orphaned, or is still running, so `movie_rename` answers `renamed` for one that
  never ran; and `movie_add` answers "with its file once Radarr has scanned the
  folder" (`movie_edits.go:73`) though its own rescan may still be queued.
- `waitForMove` waits for, and fails with, any move queued in the two seconds
  before its own.
- Of two calls that take a backup at once, each may answer the other's.
- A write that times out, or whose call is cancelled, is unlocked at once (`defer
  unlock()`) though Radarr may yet carry it out, over what a later call did. The
  comments of `locks.go` do not speak of it. `LandLate` of `RecordEdits` and of
  `Films` is that step; `LandedOn`, `Lands` and the last part of `LockedKeepClear`
  except it, and the conditions of `ReadsCurrent` and `ActsOnce` leave it out.
- A new film's refresh is waited for "rather than starting a scan beside it"
  (`movie_edits.go:133`). The grace is five seconds and Radarr's refresh may come
  later, or between the look and the post: `AddScanned` says that there is no other
  way to a second scan.

## What is taken from outside

`sync.RWMutex` and `sync.Mutex` are modelled by their documented contract, as
above. Radarr is modelled by how the tools use it: a `PUT` of a record replaces
it if it is there; a `DELETE` takes it away; a `POST` gives a new id, never one
used before; any may be refused and then changes nothing. What a restore puts
back is not modelled: the records are those of one database, and the run asks
only what is written while it is swapped.

## The plan

What is left, the most useful first:

1. An abstract specification of `Films`, as `AtomicEdits` is of `RecordEdits`. Its
   edits act in several requests and promise only that each stands, so it would be
   one action per request under the lock; `StandOf` of `FilmsProofs` is most of the
   proof that `Films` implements it.
2. Profiles with films: `qualityprofile_delete` counts films before it locks, and
   `Films` and `RecordEdits` would have to be composed for it.

## Not modelled

- **Matching names.** `resolveMovie`, `matchMovie`, root folders and languages in
  `radarr.go`, `fields.go` and `imports.go` compare text: case, punctuation, years
  and ids in it. A model would be of strings, and their unit tests tabulate it.
- **The audits** (`audit*.go`) and the lists of `movies.go` and `calendar.go` read
  the library once and compare names, sizes and paths. Nothing happens between
  two requests.
- **Collections, root folders, file tools, `exclusion_add`,
  `history_mark_failed`**: a read and one request to an endpoint that changes only
  what it is sent.
- **Settings' comparison** of what was sent with what Radarr kept, and what
  spelling a setting is named by: the values are text, and the read, the write and
  the second read are under one lock, which `RecordEdits` has.
- **Tool selection and registration**, flags, logging and output: once, at the
  start. **Serving**: the standard library's, but for the calls it cuts off when
  told to stop, which are `Requests`' cancelled calls.
- **The SDK, its generator, vendored code and tests.** Of the implementation's
  34 thousand lines most are these: `sdk/radarr` has a file for each of Radarr's
  operations and models, one request each, all alike, and `sdk/pandorest` makes
  them at build time. That is why the definitions here stand for a small share of
  the lines: what they stand for is most of what runs between two requests.
- What Radarr's own rules accept, and what text looks like, are left out
  throughout.
