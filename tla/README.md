# A verification project for fzfpp

fzfpp is a C++ reimplementation of the fuzzy finder fzf: records arrive from a
pipe, a command or a directory walk, a query is typed, and the records that
match are ranked and shown while both still change. This directory holds TLA+
models of the parts of the program whose correctness depends on the order in
which things happen, and of its algorithms on texts, queries, keys and fields;
the TLC runs that check them; and TLAPS proofs about them.
Paths such as `search.cpp` stand for `src/src/search.cpp`.

* [Inventory](#inventory): the components, their state, operations and hazards
* [Modules](#modules): what each module models and how it maps to the code
* [Runs](#runs): the questions TLC answers, bounds and fairness
* [Proofs](#proofs)
* [Disagreements found](#disagreements-found)
* [What is not modelled](#what-is-not-modelled)
* [Plan](#plan)

## Inventory

The program has four kinds of threads. The *UI thread* runs `Terminal::run`, a
`select()` loop over the tty, a resize self-pipe and a wake self-pipe. The
*reader thread* (`Reader::run` or `Reader::walk`) turns bytes into items. The
*search worker* (`Searcher::loop`) serves one request at a time. The *preview
worker* (`PreviewWorker::loop`) runs preview commands and prefetches. Threads
share the item store, the searcher's slots and the wake callbacks; they tell
the UI that something changed by writing a byte into the wake pipe.

| Component | State | Operations | Hard behaviour | What makes it correct |
|---|---|---|---|---|
| Item store (`chunklist`, `item`) | vector of chunks, an atomic published count per chunk, an atomic total, `finished_` | `append`, `finish` (one producer); `snapshot`, `item_at`, `count`, `finished` (any thread) | lock-free publication beside a mutex that only guards the vector of chunks | a snapshot is a gapless prefix of the input; a published item never moves nor changes; a sealed chunk is immutable, so a bitmap cached for it stays right |
| Reader (`reader`) | current list, header lines, failure flag, child pid, cancel pipe, `wake_pending_` | start on a descriptor, a command or a walk; cancel; finish; reap; coalesced `wake` | reload while a command runs, exit status after EOF, wakes that are coalesced | the records are those sent, however the bytes are cut; every item leads to a later turn of its consumer; a reload leaves no old process or thread behind |
| Search service (`search`) | request slot, `cancel_`, `stop_`, result slot, merger cache, chunk cache | `request`, `take`, `scan_sync`, worker `loop`, destructor | a newer request cancels the scan in flight; cached results and bitmaps; shutdown | a result answers its request and is what a search without caches finds; the newest request is never dropped and is shown in the end; results never go backwards |
| Matching (`matcher`) | none | fuzzy v1/v2, exact, prefix, suffix, equal; terms | dynamic programming, bonus arithmetic, the syntax of queries | an item matches exactly when the query describes it; the positions found spell the query |
| Tokenizer, `--nth`, `--with-nth` (`tokenizer`, `options`, `reader`) | none | three kinds of delimiter, ranges from either end, templates, `ItemBuilder` | ranges that count from the end, fields that are missing | what a range searches is what the same range prints |
| Terminal: coordination (`terminal`) | display list, installed merger, throttle and deadline, load/zero/one flags, pending reload | turn of the loop, `on_reader_progress`, `install_merger`, `start_reload`, `end_of_batch` | events that fire actions that change the query or the list; reload-sync; throttling | at rest, what is shown is the result of the current query on the whole list |
| Terminal: cursor and selection (`actions`) | `cy_`, `offset_`, `selected_` | `vmove`, `vset`, `constrain`, toggles, paging | list and window shrink under the cursor | the cursor is inside the list and the window; the selection respects `--multi=N` and its order |
| Terminal: query editing (`actions`) | `input_`, `cx_`, `yanked_` | insert, delete, word motions, kill, yank, hidden input | word boundaries at the ends, events between edits | the cursor stays inside the line; a kill followed by a yank restores it |
| Preview (`preview`, `terminal`) | pending, running, prefetch, version, preview cache | request, adopt, cancel, deliver, scroll | a prefetch adopted as the preview, output of superseded commands | only the newest preview's output is shown or cached for it |
| Child processes (`shellcmd`) | pid, group, descriptors | spawn, drain, kill, wait | group creation races kill | a killed command is reaped and its group dies |
| Key decoder (`keyparser`) | byte buffer, lone-ESC flag | `feed`, `timeout_tick` | lone ESC against escape sequences split over reads | bytes of a sequence never become text, whatever the split |
| Key bindings (`keymap`) | map from events to actions, the defaults | parse, `unbind`, `rebind`, `trigger` | recursion through `trigger` | a `--bind` text binds what is written in it; `trigger` runs what it stands for |
| Streaming `--filter` (`main`) | print position | snapshot, print, wait for a wake | the producer goes on between snapshot and wait | every match printed once, in input order, as it arrives |
| Placeholder, options, themes, rendering, ANSI | none or set once | pure functions | text | not concurrent; see [What is not modelled](#what-is-not-modelled) |

How the parts interact:

* Reader to store: `append` per record, `finish` at EOF; the store's total and
  finished flag are read by the UI (`on_reader_progress`) without a lock.
* Reader to UI: `wake()` writes the wake pipe unless a wake is pending; the UI
  clears `wake_pending_` when it drains the pipe.
* UI to searcher: `request(snapshot, query, final, sort)`; searcher to UI: the
  result slot and the same wake pipe.
* Tty to UI: bytes, decoded by `KeyParser`; what it holds back is decided by
  more bytes or by a deadline of the loop. Events find their actions in the
  keymap, which `unbind` and `rebind` change while it is used.
* UI to reader: a reload cancels the running command, joins the thread and
  starts another on a new list. `reload-sync` keeps the old list on display
  until the new one is complete.
* Events (`start`, `load`, `zero`, `one`, `result`, `change`, `focus`) run
  actions on the UI thread in the middle of a turn; the actions may edit the
  query, request a reload or end the session.

## Modules

| Module | Models | Composition |
|---|---|---|
| `ChunkList` | the item store at the granularity of its atomic accesses | refines `ItemLog` |
| `ItemLog` | the abstract store: a log and what each consumer last saw of it | |
| `StreamFilter` | `streaming_filter` of `main.cpp`: the main thread, the reader and the wake between them | extends `ChunkList`, whose producer and snapshot steps are its own |
| `StoreProofs` | theorems about `ChunkList` and `StreamFilter` | extends `StreamFilter`, `TLAPS` |
| `Searcher` | the search service: slot, cancellation, worker, merger cache, wake pipe | refines `LatestWins` |
| `SearcherProofs` | theorems about `Searcher`, among them that it implements `LatestWins` | extends `Searcher`, `TLAPS` |
| `LatestWins` | the abstract service: requests are numbered, a newer one may be shown at any time, never an older one | |
| `Session` | the UI thread's main loop with a reader and a search worker: start-up, key batches, events, reloads, throttling | |
| `SessionProofs` | theorems about `Session` | extends `Session`, `TLAPS` |
| `Preview` | the preview worker, its commands and their process groups, and the part of the UI thread that asks for previews, caches, prefetches and paints them | |
| `PreviewProofs` | theorems about `Preview` | extends `Preview`, `TLAPS` |
| `ListView` | the list on the screen: cursor, scroll position, selection, and the results, reloads and layouts that change under them | |
| `ListViewProofs` | theorems about `ListView` | extends `ListView`, `TLAPS` |
| `MatchAlgo` | the matching algorithms with their scores and places | extends nothing of the project |
| `Matcher` | terms of a query, `match_term`, `match_text`, `match` | extends `MatchAlgo` |
| `Tokenizer` | fields, ranges, templates, `ItemBuilder` | |
| `Matching` | a line read under some options and a query typed at it | instances of `Matcher` and `Tokenizer` |
| `MatchingProofs` | theorems about `Matching` | extends `Matching`, `TLAPS` |
| `Search` | `Pattern`, the chunk cache, `match_chunk`, ranks, sort and `Merger`, while the reader appends, finishes and is replaced | instance of `Matcher` |
| `SearchProofs` | theorems about `Search` | extends `Search`, `TLAPS` |
| `KeyParser` | the decoder, byte by byte | |
| `Keymap`, `Bindings` | events of keys and key names; `--bind`, the default keymap | `Bindings` extends `Keymap` |
| `QueryLine` | the text, the cursor and the actions that edit them, `do_actions`, `trigger` | extends `Bindings` |
| `Prompt` | the loop from the bytes of the tty to the query line, with the escape timeout | extends `QueryLine`, `KeyParser` |
| `ReaderFeed` | the reader thread from bytes to records and header lines, its command, `cancel` and `start_command`, and the copy of the header lines | |
| `ReaderFeedProofs` | theorems about `ReaderFeed` | extends `ReaderFeed`, `TLAPS` |
| `MC*` | constants for TLC | |

### ChunkList

A chunk is a record of its first ordinal, the capacity and use of its byte
arena, its items, its color runs and nth ranges, the published count and the
sealed flag. An item is its ordinal, the record it was built from, and whether its
color runs and nth ranges were kept; a record is what it costs: arena bytes (text
and, with `--with-nth`, the original), color runs and nth ranges.

`append` is four steps, because a consumer can run between any two of them:
`AppendBegin` (the record arrives; when it does not fit, or there is no chunk,
the tail is sealed and `StartChunk` links a new one under the mutex),
`AppendWrite` (item, bytes, aux), `AppendPublish` (store-release of the count),
`AppendTotal`. `finish` seals the tail and then stores the flag. `snapshot` is
a copy of the vector under the mutex (`SnapshotCopy`), one count per chunk
(`SnapshotCount`), then the flag (`SnapshotFinished`). `item_at` finds the
chunk under the mutex (`ItemAtFind`) and reads its count afterwards
(`ItemAtSize`). The code's release/acquire pairs make the store behave as if
sequentially consistent for these accesses: an item is complete before the
count that covers it, and a consumer never reads past a count it has read.
Capacity: `Fits` is the fullness test of `append`; the arena of a new chunk is
made large enough for the record that starts it, and a record with more color
runs or ranges than a whole chunk reserves does not keep them.

### StreamFilter

`--filter` with `--no-sort`: the main thread snapshots the store, prints the
matches of the records it has not seen, and sleeps on a condition variable
until the reader wakes it. The reader appends records while the source has
some, finishes at EOF, and wakes. Between `finish` and the last wake `run()` closes its end and, for
a command, waits for it (`ReaderReap`, reader.cpp:479-494); for standard input it does not. The wake callback is
copied under `wake_mu_` and called afterwards. The source may stall for ever at any record, and a command may close its
output and run on, so `WakesAreNotLost` asks for the end of the loop only once the list is finished and its
command has ended.

### Searcher

A snapshot is abstracted to its list and count: a list only grows, so they
determine the items (that is `SnapshotIsPrefix`, which is proved). A merger is
the description of the search whose matches it holds. The worker's steps are:
take the slot and lower `cancel_` under one lock; validate the merger cache by
list, count and sort order and look the query up; poll `cancel_` before every
chunk and after the last; build and perhaps cache; publish; wake. The UI turn is:
`select()`, drain the pipe, `take()`, then perhaps one request. `seq` numbers the
requests; no guard depends on it.

### Session

One turn of `Terminal::run` is split where another thread can be seen: after
`select()`, after draining the pipe and clearing `wake_pending_`, between the
read of the count and the read of the finished flag in `on_reader_progress`, at
`take()`, at each key, and at the end of the batch. Everything in between runs on
the UI thread alone and is one action, events included: `Install` and
`ProcessFinished` fire their events and the actions of those events run to the
end, as `fire_event` calls `do_actions` synchronously. `upc` is the place in the
turn. The state of the terminal is the record `ui`; the fields marked as
histories are read by no guard.

An item is nothing but its ordinal, all items match the queries in `Hits` and
none the others; an edit types the next query. What is bound to the events is
chosen at the start from `Bindings`, a read of the tty returns one of `Batches`.
The reader appends, finishes, reaps its command (which may have failed) and
wakes; a reload stops it, as `start_command` cancels and joins. A command may never end, so neither the wait for it
nor the reload, which joins the reader, is fair here; `ReaderFeed` says when the join ends. The search
worker is that of `Searcher` without its caches, whose correctness
`AnswersItsRequest` shows there.

### Preview

The command of an item is named by its position; it prints `Parts` pieces and exits,
or prints nothing and never ends (`Endless`). A text is the command, the number of
pieces and the size of the pane when the command line was expanded (a number that
each change of the size increments). `q` is what `req_mu_` guards, `content` what
`content_mu_` guards; `version`, `pid` (`child_pid_ > 0`) and `pipe` are atomics and the
wake pipe.

The worker's steps are cut where the UI can see or disturb it: take a job under the
lock, spawn, publish the pid, look for a newer request and kill, open the content,
read, take an adoption under `req_mu_` (`Promote`) and write the content under
`content_mu_` (`Adopt`), look for a newer request (`Check`), write the text (`Show`),
wake; after the end of the output: reset the pid, kill if stale, reap, hand over a
prefetch, write the final content, wake. `superseded()` reads two variables; since
both only grow, its answer is that of one moment, and it is one step.

The UI thread serves one event per turn: a key (after `arm_prefetch(true)`), a
resize, a result, the wake pipe, the prefetch timer; then `EndOfBatch` and `Paint`.
`refresh_preview` is `Refresh` (the decision, on the UI thread's own state) followed by
`Request`, or by `Cancel` and `SetContent`, which lock separately. The cache is one
sequence, most recent first, for the map and the list of the code. `Merged` files what the worker
hands over, entry by entry; `Looked` is the loop of `schedule_prefetch`, over the neighbours nearest first:
one that is cached moves to the front of the cache, one that is not becomes a task of the prefetch queue.

`MishapSets` lists what the environment may do together in a session: preempt the UI thread between the unlock
and the kill in `request()`/`cancel()` (`late_kill`), return from `fork()` before the child has run
`setpgid` (`late_group`), fail to spawn (`spawn_fails`), close the output before
the exit (`closes_output`). In a session with none of them the kill follows the unlock at once.

### ListView

Everything here runs on the UI thread, so one step is one action of a key, one
result, one reload, one layout or one repaint. What is hard is the order: a turn runs any
number of them before the repaint at its end, so actions see a cursor outside the window, a
window outside the list, or a result of the list before a reload. `constrain()` is
`Constrained`, a function of cursor, offset, length, rows and margin; its two loops
are `ScrollBack` and `ScrollForward`, "scroll no further than needed" written with
CHOOSE. The code repeats the whole until nothing changes; `Constrained` does it
once, and `RepaintIsStable` says that this is the same. `Repaint` may find any number of
rows, since it asks for the size of the terminal first. The selection is keyed by ordinal
as in the code; an entry also records the list of the item (`gen`), as its `ItemRef` does.

### MatchAlgo, Matcher, Tokenizer and Matching

A character is a member of an alphabet that has every class of `char_class`: blanks, lower and
upper case, digits, delimiters, an accented letter of each case, and others. `char_equal` compares the
images of two characters after normalisation and folding, so the algorithms work on
images and classes. The fast paths of the code over ASCII bytes find the same places faster and
are left out. `FuzzyMatchV2` keeps the two rows of scores and of
consecutive matches that a cell depends on, and the columns of the last cell before; `Backtrack`
follows them. Places count from 1, `begin` and `end` as in `MatchResult`.
`ParseTerms` does what `parse_terms` does to a query, the tab in place of an escaped space included.
A range of `--nth` is a pair such as `<<"from", 2>>` for `2..`, which `ParseRange` turns into the
record of `new_range`. `Matching` is a query typed in strokes at its end or at its
start; its `line` becomes an item with `BuildItem`. Its properties do not use the algorithms: `Asks` says with
subsets and quantifiers what a term asks of a text.

### Search

The lines of `Feed` are read one by one into chunks of `ChunkSize`; a chunk is sealed when
it is left for another, or by `finish`. A scan takes a snapshot (`Ask`), then for every chunk looks the
cache up (`LookUp`) and matches (`MatchChunk`), and publishes; the reader may append
and seal between any two of these, a newer request may abandon the scan between chunks, and a
reload starts another list whose chunks share the cache. The cache is a set of
[chunk, key, places of the hits]; `Added` forgets the oldest keys as the code does, `Narrower` is
`ChunkCache::search`, and `IsCacheable` and `KeyOf` say which queries are kept under which key. A rank is the
vector of the criteria in 16 bits; a merger answers `Get` and `Find` from the sorted
matches, or from the counts of its chunks when every item matches (`Offset`). The answers of
`Matcher` for every query and line are computed once, in `patterns`. `InOrder` lists a finite set in a given order: it
stands for the sort, which the code does in one of two ways, and for the order of bits in a bitmap.

### KeyParser, Keymap, Bindings, QueryLine and Prompt

`TryDecodeOne` is the function of the same name: it consumes one key from the bytes held, discards a
sequence that is no key, or waits for more. Tables of escape sequences are whole.
A `--bind` text is a sequence of characters and words (the name of a key or of an action is one
token, and every key and action has one spelling); `MaskActionContents` blanks the arguments, the masked copy is split, and the
originals are put back, as in the code. `BuildKeymap` lays the user's keymap over the defaults and adds
what the code adds to it. `QueryLine` holds the line as a record and runs actions on it; `DoAction` is
RECURSIVE through `trigger`, with the set `triggering` that the code keeps: the chords that are being
triggered, each erased when its list has run. The key that was pressed is not in it. Actions that do not
touch the line do nothing here.

In `Prompt` a key is a unit: the bytes a terminal sends for it and the events it means. A user types
units; a terminal may deliver the bytes in pieces, and time may pass (`Elapse`) when nothing comes. `punctual`
says whether the loop reads what came before a whole timeout is over. A unit that is no
complete sequence (a lone ESC, a cut sequence) is only told from the next one by silence, so
another follows without a pause only if the first bytes do not extend it (`Follows`).
A turn runs two lists of events, those of `timeout_tick` and those of `feed`; each stops at the event that ends the session, and
the second is begun even if the first ended it (`ProcessAll`), as in terminal.cpp:1516-1591.

### ReaderFeed

A source is what it writes, a sequence of characters and line ends (`Texts`), and a process that may exit at any
moment with either status, having written a prefix. The reader thread reads up to `MaxRead`
bytes, or sees the cancel pipe, and splits what it has with a leftover from the read before;
records are pushed to the header or to the list one by one, each with a wake, and the
end (finish, kill if cancelled, wait, store, note the failure, wake) is one step per
shared access. The UI thread starts up, serves the wake pipe with `on_reader_progress`, and may
begin a reload: `cancel()` is the write to the pipe, the load of `child_pid_`, the kill and the join. A
command is `forked` until its child has called `setpgid` (`SetGroup`, shellcmd.cpp:92); a kill of its group
before that finds none (`Misses`), and the histories `missed` remember it for both kills, that of `cancel()` and that at the end of `run()`. The
walker pushes the names it finds and ends early when cancelled.

## Runs

| Run | Question | Bounds | States |
|---|---|---|---|
| `chunklist` | every interleaving of the producer with a consumer that takes snapshots and looks items up: prefix, freshness, no reallocation, sealed chunks, refinement | 3 items of 4 kinds, chunks of 2, one consumer, ordinals from 1 | 1.2 M |
| `streamfilter` | matches printed in input order and as they arrive; the loop ends when the list is finished and its command has ended | 4 items, chunks of 2 | 93 k |
| `searcher` | results answer their requests, newest never dropped, shown in the end, shutdown, refinement | 2 lists of at most 1 item, 2 queries, 3 requests, 1 cache entry | 0.3 M |
| `session` | at rest the display is current; reload-sync shows whole lists, load once per list; accept sees the query | 2 lists of 1 item, 1 edit, 1 read of the tty, 6 keymaps | 3.0 M |
| `session_live` | every item is searched in the end though nobody types and commands may never end | 2 lists, events that reload | 0.3 M |
| `preview` | without prefetching: at rest the pane shows the whole output for the item and the size, no request is lost, the cache holds whole outputs of the present size, a settled pane stays | 3 items, one of them endless, 2 pieces, 1 cache entry, 3 inputs, late groups and closed outputs | 3.3 M |
| `preview_live` | with prefetching: every request is answered, stopped prefetches are not handed over, superseded commands end, shutdown joins | 2 items, one endless, 1 neighbour, 2 inputs, failed spawns or late kills | 0.2 M |
| `listview` | a frame shows the cursor with its margin, wastes no row and is stable; the selection keeps its limit and order | results of 0, 1, 2 and 6 items, at most 4 rows, scroll-off 2, `--multi` of 0 to 2, 3 picks, 1 reload, 2 actions between repaints | 0.5 M |
| `matching` | an item matches exactly when the query describes it; queries read as typed; highlighted places spell the query; fields and ranges agree | 5 lines, 6 sets of options, 10 strokes, 3 of them at either end | 33 k |
| `search` | a result is what a walk over all items of its snapshot finds, in its order; cached bitmaps describe their chunk | 3 lines, chunks of 2, 4 sets of options, 12 queries, 2 searches, 1 reload, 1 key per chunk | 2.0 M |
| `prompt` | keys become the events they mean; `--bind` binds what it says; kills can be yanked; `trigger` runs exactly the actions it stands for; what is pending is decided | every kind of key alone; 16 sequences, 2 in pieces; 4 short ones, 3 in pieces; 450 binding specs twice; 6 sessions of 3 or 4 keys; `kMaxPending` 5 | 60 k |
| `readerfeed` | records as sent; header lines are shown; nothing old survives a reload; a reload starts unless both kills come too early | 2 texts, reads of 2, 2 lists, 1 header line | 1.0 M |

Why the bounds are enough. *Chunk list*: with chunks of 2, three items give a
chunk that fills, a seal, and a tail behind it; the record kinds include one
that alone exceeds a capacity and one without aux data, so that each disjunct of
the fullness test decides a step; consumers do not affect each other, so one
is all there is to see. Larger consumers' sets are covered by the proofs. *Filter*: four items in chunks of two make the print
position move over two chunk boundaries. *Searcher*: three requests give one
that is shown, one in flight and one that waits; two lists, two counts, two
queries and two sort orders make every part of the cache key differ alone, and
one entry makes the cache overflow. *Session*: two lists give one reload of
each kind; an item is there or not; one edit separates a search of the old query
from one of the new; a batch of two keys is one key after another in the same
turn. *Preview*: three inputs give a request, one that supersedes it and one that
comes back to the first; one cache entry makes the cache overflow with two items; two
pieces tell a truncated output from none and from the whole. `MaxInputs` also bounds
the versions and the sizes. *List*: six items in at most four rows make the
window bind at both ends and in the middle; a margin of two is half of four rows, where
the two scrolls of `constrain()` meet; shorter results leave everything
behind; with three picks and a limit of two, an item is dropped and another taken. *Matching*: three strokes
give a term with a sign on either side, two terms, or a bar or an escaped space between two; the
lines hold every class of character next to every other kind of bonus, repeated
letters that an optimal match must choose from, and fields counted from both ends. *Search*: two searches let the
second use what the first cached, in a chunk that was sealed, or is still growing, or belongs to the list
before; one key per chunk makes the cache forget; the queries contain pairs of which one is an
extension of the other with and without inverse and OR terms. *Prompt*: the decoder keeps no more than what it
holds back, so two sequences show every way that one can end in front of another; `kMaxPending`
is 5 so that a control string reaches it. *Reader*: a read of two bytes
cuts every text at every place; one header line is there or not. Only
`--cycle` and the default layout are run: without `--cycle` a step does less, and the other layouts
exchange up and down.

Deadlock is checked only in `listview`: elsewhere a session ends, an input ends, the bounded user stops, and the source
or the user may do nothing for ever.

Fairness. The worker thread and the reader's wakes are weakly fair: a thread
that can run does run, and a wake that was begun is completed. The main loop is
fair when `select()` has something to return for (`MainBusy`: pipe not empty,
deadline over, or inside a turn). In `Preview` the turns that something asks for, the worker and the
command are fair; keys, resizes, results and the prefetch timer are not. The deadline of a throttled search passes. A
source may stall, a command may run for ever, nobody has to type: appends,
`finish`, keys and `OtherInput` have no fairness. Nor has the end of a command, which `run()` waits for between
`finish` and its last wake (`ReaderReap` in `StreamFilter` and `Session`, `Source` in `ReaderFeed`), nor in `Session` a reload, whose join
lasts as long as that wait. In `Prompt` the rest of a key comes, time passes and the
loop turns when `select()` has something to return for, stated without ENABLED; nobody has to type. In `ReaderFeed` the two
threads are fair and the command is not: it may run for ever, with its output open or closed.

Properties worth a word:

* `PublishedIsSeen`: a snapshot holds at least everything published when it
  began (prefix alone would be satisfied by an empty one); what `item_at` returns has the ordinal asked for, and it
  returns nothing only for an ordinal that was not published when the call began.
* `PlacesSpellTheTerm`: the lower bound on the score is for `fuzzy_match_v2` alone, whose rows are kept from falling below zero; a long gap
  makes a score of `fuzzy_match_v1` arbitrarily low.
* `MatchesWhatIsAsked` compares the algorithms with a definition by subsets and
  quantifiers; `QueryReadsAsTyped` compares the query with its own parts, so that an error in `parse_terms` cannot
  hide in both sides.
* `MergerIsTheWalk`: the caches, the lazy ranks and the pass-through merger may only be faster than `Walked`.
* `KeysAreTyped` says of a punctual loop that events are exactly those meant, and of a late one that at
  least no ESC of a sequence is taken for the escape key.
* `BindingsAsWritten`: the texts are produced from what they should mean (`Meaning`), with keys that are
  separators themselves and arguments that contain all of them; the events must be those `KeyParser` decodes
  from the bytes of the keys.
* `HeadersAreShown`: the header lines are copied when the count or the flag changed. It holds but for a source
  that ends between two reads of start-up, which the model marks (`ui.boot_gap`; see below).
* `NothingUnsearched`: with everything at rest (no byte in the pipe, nothing
  pending, worker idle, loop in `select()`), the installed result is that of the
  query and the whole list. Three windows of the code break it; the model marks
  them where they happen (`ui.lapse`) and the invariant holds outside them:
  1. *Start-up*: `run()` searches (terminal.cpp:1415) before it records the
     count and the finished flag (1416-1417). Items that arrive in between are
     recorded as seen, so no later turn searches for them until something
     changes.
  2. *Overtaking*: `submit_search_sync` installs the current result while an
     older asynchronous search is in flight; its older result is installed later.
  3. *Events that edit*: a query changed by the actions of an event is not
     compared with the old one (`fire_event`, 287-294); only `process_event` does.
* `AcceptSeesQuery`: a key that edits followed by accept in the same read accepts
  an item of the edited query. A reload that was just started makes the search
  asynchronous and is excepted.
* `ItemsAreSearched`: every published item is searched in the end, unless its
  list is replaced or a reload is due (the UI thread may be in its join), the session ends, one of the three gaps is open, or it
  belongs to a reload-sync that has not finished or whose command has not been reaped.
* `WakesAreNotLost`: while the source stays open, and while the command runs on, all that was published is still looked at; the
  loop ends once the list is finished and nothing is left to wait for.
* `ReloadEnds`: the join of a reload ends, though the command may run for ever, unless both kills came
  before the command had its group (`BothMissed`). With one of them missed it still ends.
* `TriggersUnfold`: the reference is the flat list of actions that a list stands for, with each chord cut only inside its own list. The pressed
  key is not guarded, so its list may run inside itself once. Lists that end the session, or that change the keymap or the rules of
  the line on their way (`Unsteady`), have no such flat list and are left out.

## Proofs

Every theorem holds for all values of the constants that the named assumptions of its module allow
(sizes and bounds are naturals, sets of records or texts have their type, and so on); TLC evaluates those
assumptions in the run of the module. The bounds of the models, such as `MaxItems` or `MaxInputs`, are constants too, so
what is proved holds for any number of items, requests, reloads or keys. TLC agrees with every inductive
invariant on the constants of the module's run, but for `RecordsAgree` of the reader, which quantifies over all sequences of records.

### The item store

`StoreProofs` proves, for every chunk size, every capacity, every set of
record kinds and consumers and every bound:

* `TypeCorrect`: `Spec => []TypeOK`;
* `Reserved`: `Spec => []NeverReallocates`, no vector of a chunk outgrows what its
  constructor reserved, so no published item moves under a consumer;
* `Prefix`: `Spec => []SnapshotIsPrefix`, a snapshot is a gapless prefix of the
  input although its counts are read one by one after the mutex was released;
* `SealedForever`: `Spec => [][...]` of `SealedNeverChanges`, on which the chunk
  cache relies;
* `Seen`: `Spec => []PublishedIsSeen`, a snapshot holds all that was published when it began, and `item_at` finds what was published when it was called;
* `Implements`: `Spec => ImplementsItemLog`, initial states map to initial states and every step is a step of the
  log or a stutter.

The only assumptions are `ConstantsAssumption` and `SpecsAssumption` of the module:
the sizes are naturals, chunks hold at least one item, and records have their type.
TLC evaluates them on every run of the module.

The inductive invariant is `IInv`, the conjunction of
`TypeOK`; `ChunksFollow` (each chunk begins where the one before it ends, and every
chunk but the last is sealed and published in full);
`TailAgrees` (between the steps of `append`, how items, count and total of the tail
differ); `HasRoom` (before `AppendWrite` the tail has room for the record);
`NeverReallocates`; `ItemsAreInput` (the item with ordinal n is the n-th
record); and `ConsumersAgree` (a snapshot, complete or being filled, holds the first n
chunks, the counts it read are at most the items there, and all but that of its
last chunk are complete). `SnapshotIsPrefix` is not inductive: nothing in it says that
a count of an earlier chunk is final once a later chunk exists, which
`ChunksFollow` and `ConsumersAgree` provide.

`Seen` adds `FreshInv`: the number of items published when a snapshot began (`low`, which no guard reads) is at most what the
counts read so far and the present count of the last chunk give (`Reaches`), and an `item_at` between its two steps
works in the chunk of its ordinal (`Asked`). It rests on `Advances`: no step moves a chunk or takes back an item or a count. `Implements` needs that what a
snapshot shows is the prefix of the input of that length (`ShownIs`), that what was counted so far is published
(`CountsPublished`), and that the list is finished by the producer's last step (`FinishedLast`): with these a
snapshot that ends is one step of the log.

### --filter

`StoreProofs` also proves, for any set of matching records:

* `Printed`: `FilterSpec => []PrintedInOrder`;
* `Sleeps`: `FilterSpec => []SleepsWhenDone`: if the main thread waits and no wake is sent or on its way, all matches of what is published
  are printed and the list is not finished, unless its command is still waited for. It is the safety half of `WakesAreNotLost`, which stays with TLC.

`FInv` says that the position (`chunk_i`, `item_i`) lies in the chunk it names (`Placed`), and that what was printed and is about to be
is the matches of the records before the position (`Written`), in every step from the tail chunk, which grows,
to the next. That `chunk_i` and `item_i` name one place of the input rests on `SnapshotIsPrefix` and
`IInv` of the store. `SleepInv` is the handshake, `Handshake` (a wake that is not acknowledged has set `woke` or will), and `Covered`: a
snapshot that lacks something implies a wake on its way (`SawAll`), and the loop leaves it with all of it printed (`Past`).

### The reader

`ReaderFeedProofs` proves `TypeCorrect` and

* `Replaced`: `Spec => []ReplacedIsGone`, from where the reader stands with its list and its process
  (`ReaderAgrees`), and that a `cancel` that is done has joined the thread (`CancelAgrees`);
* `Headers`: `Spec => []HeadersAreShown`. `WakeAgrees`: a wake pending without a byte in the pipe is one that
  the loop has drained and not yet acted on; `CopyAgrees`: once the loop saw the list finished it holds the whole header;
* `AsSent`: `Spec => []RecordsAsSent`. `RecordsAgree`: between any two steps the header and the list are the
  first and the other records of what one cut of all characters taken gives, and `leftover` and the buffer are the rest. `TextsAssumption` (a text is a sequence of characters) is all it
  assumes of the sources. That cutting a text at once and cutting it read by read is the same is a statement about a
  fold; its proof takes a least position at which the two differ (`NatLeast`, stated in every module of proofs that needs it) instead of an induction theorem.

### The main loop

`SessionProofs` proves, for any number of items, lists, edits, reads of the tty and for every keymap, `TypeCorrect` and

* `Whole`: `Spec => []ListsLoadWhole`, `Accept`: `Spec => []AcceptSeesQuery`, `AtRest`: `Spec => []NothingUnsearched`.

`NothingUnsearched` is about states at rest, and how the loop gets there takes the rest of `IInv`: `QueryInv` (the newest search is of the
query and the list on display), `CountInv` (the items it lacks are known to the loop as news, or will be: a
wake, a byte, a deadline, or a turn under way, `NewsComing`), `ChainInv` (the newest search is in the slot, with the worker, in the
result with a byte on its way, or installed), and `WakeInv` (a pending wake stands for a byte). Each holds outside the gaps that
the model marks with `ui.lapse`. `ListInv` bounds every search by its list, and says that lists of `reload-sync` are
searched only when finished; `LoadInv` counts: loads fired, one armed and one to come are no more than the lists that were started;
`KeyInv` is what the keys of one read see. Everything that the actions of events do is in one lemma each (`Acted`, `Alike`), since
most steps of the loop run some.

### The preview

`PreviewProofs` proves, for any commands, pieces, cache size, keys and mishaps, `TypeCorrect` and

* `Handed`: `Spec => []PrefetchedIsWhole`, with prefetching and with every mishap.

Its `IInv` is `TypeOK`, `Bounds` (versions and sizes only grow, and how many changes are still to come), `QueueInv` (while
the UI thread is between an unlock and a kill, what it may hit), `RunInv` (how the process, what it printed and what was read
of it agree with the place of the worker), `KillInv` (a process that was killed belongs to a run that is superseded, so a prefetch that
comes to its end was not hit), and the property.

The others are about the pane, and the code does not keep them under all circumstances: the disagreements below show what breaks
them. `Plain` excludes exactly these, as a condition on the constants: no prefetching (`PrefetchN = 0`), no key that changes the size but
not the cache, no late kill and no failing spawn, and no `preview(...)` without a worker. Late process groups and outputs
closed early remain. The constants of the run `preview` satisfy it. Then

* `CacheRight`: `Plain /\ Spec => []CacheIsWhole`, `Current`: `Plain /\ Spec => []PaneIsCurrent`,
  `Unwritten`: `Plain /\ Spec => SettledPane`.

`PInv` says of the refresh that the UI thread decided where it is on its way (`PaneInv`), of the cache that its entries are whole
(`WholeCache`), and of a pane whose last refresh was for the item under the cursor (`OnTarget`) that either nothing is asked and the
content is right, and no run can still write (`Settled`), or the request is `Waiting` for the worker, `Underway` in a run that was not
killed, or `Answered` and not painted yet (`TargetInv`). A run passes its last look at the version only if it is current, so
an older one never gets to write (`Passed`), and only a newer version kills, so what is complete is whole.

### The search service

`SearcherProofs` proves, for any lists, queries, capacity of the merger cache and
number of requests:

* `TypeCorrect`, `Answers` (`AnswersItsRequest`), `Cancelled` (`CancelMeansNewer`),
  `Newest` (`NewestIsSomewhere`), and both as `NotDropped` (`NothingIsDropped`), each as an invariant of `Spec`;
* `Implements`: `Spec => ImplementsLatestWins`, initial states map to initial states
  and every step is a step of `LatestWins` or a stutter.

Its inductive invariant `IInv` is the conjunction of `TypeOK`; `InBounds` (counts,
scan position and request numbers against each other); `CancelMeansNewer`;
`Numbered` (a waiting request has the newest number, the running one and the result
have no newer one, the one shown none newer than the result); `NewestIsSomewhere`;
`CacheAgrees` (all cached mergers were made from the list, count and sort order
that the cache is valid for, and are filed under their query); and
`AnswersItsRequest`. `AnswersItsRequest` needs `CacheAgrees`, since a cached merger is
published without a scan, and `Implements` needs `Numbered`: the abstract service
may only move on to a newer request.

### A search with the chunk cache

`SearchProofs` proves both properties of the run `search`, for every list of lines, set of queries and options,
chunk size, number of keys per chunk, and number of searches and reloads:

* `Inductive`: `Spec => []SearchInv`;
* `CacheIsRight`: `Spec => []CacheHoldsTheMatches`;
* `MergerIsRight`: `Spec => []MergerIsTheWalk`, the published list is the walk without the cache, in its order, and
  `Find` inverts `Get`.

`SearchInv` says of the list that its chunks follow each other from 0 and all but the last are sealed (`StoreInv`); of every
cached bitmap that its chunk is sealed, that there is one for the chunk and key, and that it holds the matches of each query with
that key (`CacheInv`); of the search in progress that what the cache left to be tried has all the matches in the part of the chunk
that was counted, and that what was found are the matches of the chunks before, in input order (`ScanInv`); and of the last result the
same for all of its snapshot, sorted or not (`MergerInv`). The two properties are not inductive by themselves: a bitmap of a narrower
query is only right as a superset, which the result does not show any more, and a chunk of a snapshot may be sealed after it was
counted, so that what may be cached depends on the count (`LeftOk`).

The reader, `finish` and a reload change the store while all three look at it. One relation says how much: `Grown` (no chunk
moves, shrinks or changes an item, and a sealed one not at all). Whatever was true of a snapshot, a bitmap or a result stays true of a
store that has grown (`SnapshotGrown`, `CacheGrown`, `ScanGrown`, `MergerGrown`), so each of these steps only has to grow it.

The orders of a result: ranks of one length are ordered by the first point in which they differ (`RankOrder`), the index decides
between equal ones, so two different results always compare (`PrecedesOrder`); and a finite set has just one listing in a strict total order,
the one `InOrder` gives (`ListExists`, `ListedIs`). `MergerIsRight` then shows that what `Get` answers place by place is such a
listing of the matching items (`Numbers`): from the results of the scan, read backwards with `--tac` when they are not sorted
(`FoundNumbers`), or, when everything passes, by the offsets of the chunks (`PassNumbers`).

`SearchAssumption` and `InputsAssumption` are types. `MatcherAssumption` is what the code relies on when it looks a narrower query up:
a line that matches a query matches every cacheable query whose key is its key, or a prefix or a suffix of it. It is a fact about
`parse_terms` and the matching algorithms. For the lines, queries and options of the run TLC evaluates it; tried apart on all queries
of up to 3 of 9 characters (signs, bars, escapes, both cases) and texts of up to 3, in all modes, it had no exception.

### Matching

`MatchingProofs` proves for every line, record of options and query:

* `MatchingIsRight`: `Spec => []MatchesWhatIsAsked`, an item matches exactly when one of the ranges searched (or its text, without
  `--nth`) has, for every set of the query, what one of its terms asks, or lacks what an inverse term asks;
* `PlacesAreRight`: `Spec => []PlacesSpellTheTerm`, the places that a match of a term reports spell it, in order, from the first place of
  the match to its last, and `fuzzy_match_v2` scores a character at least;
* `MatchingIsTyped`: the query remains a text, which is all the inductive part there is. The rest is about the operators.

Why there is a match exactly where one is asked for, from the bottom up:

* `GreedyFinds`: the forward scan of both fuzzy algorithms completes the pattern exactly when the pattern stands in the text with
  gaps. Every step spells more of it (`GreedySpells`), and a place where the k-th character stands in some spelling is never passed
  without having k characters (`GreedyKeepsUp`, `GreedyIsFirst`). What V1 and V2 do after the scan, to shorten and to score, cannot lose the match
  (`FuzzyIsRight`);
* `ExactIsRight` and `BoundaryIs`: the occurrence that is kept exists when there is one at all, and the two tests of `--exact-boundary`,
  on the bonus and on the class, ask for no more than a word boundary (`BonusAtBoundary`);
* `PrefixIsRight`, `SuffixIsRight`, `EqualIsRight`: counting spaces at the ends of the text as typed (`BlackFacts`) comes to the same as
  cutting them off its image, because an image has its spaces where the text has them (`ImagesAre`, `SameBlack`), also where the
  text is blank and both ends meet (`BodyIs`);
* `TermIsRight` puts the six types together; `SetIsRight`, `TextIsRight` and `MatchIsRight` are `match_text` and `match`, with the
  first range that matches;
* `ParseTermsIs`: `parse_terms` makes sets of terms whose text is not empty, whatever the query. Without it the algorithms would be asked
  about empty patterns, which they answer in different ways.

And why it is where it says:

* The scan finds not just some places but the earliest: none of another spelling comes before its own (`GreedyEarliest`, from `GreedyKeepsUp` and
  `GreedyGrows`, by which places once taken stay).
* `calculate_score` takes the greedy places of its window (`ScoreIs`). So a match without gaps is found where it stands (`StandingPlaced`,
  `CountedPlaced`), whichever occurrence `exact_match_naive` keeps (`KeptIs`). For V1 the window must begin and end with a
  place: it ends there because the forward scan ends as early as any spelling, and it begins there because the backward scan
  is the same scan of the reversed text (`BackwardScan`, `ShrunkPlaced`).
* V2 is an argument about its rows (`RowsOk`). Every cell that scores has the character of its row and a predecessor to its left that is *live* (its run
  is not zero) in the row above (`CellIs`); the column carried along is live above, and nothing is carried
  only as long as nothing was live above (`CarriesStep`); and a row that has no live cell yet carries no score, so that its first chance makes a
  live one (`OwnStep`). Hence where the pattern stands in the window every row is live by the time its character is reached (`AddRowIs`),
  the best cell of the last row scores a character at least (`BestIs`), and the way back over predecessors spells the pattern
  (`BacktrackIs`). That the best score is the highest of all spellings is not claimed: the code itself keeps one run per cell.

The assumptions are types: what is typed are characters (`StrokesAssumption`), and the tokenizer makes of every line a text and of
`--nth` ranges of offsets and lengths (`ItemsAssumption`; they are `uint32_t` in the code).

Recursion over a text is written as a recursive function (`GreedyPlaces`, `CalculateScore`, `NextRow`, `Rows`, `Backtrack`, `ParseTerms`). That such
a function exists is proved once for each by a least counterexample (`GreedyExists`, `ScoreExists`, `RowExists`, ...).

### The list

`ListViewProofs` proves every property of the run `listview`, for any lists without
repeated items, any number of rows, `--scroll-off`, `--multi` limits, layout, `--cycle`, and bounds:

* `TypeCorrect` (`ListTypeOK`, and with it that the cursor is in the list), `Frames`
  (`FrameFits`), `Margins` (`ScrollOffKept`), both as `Arranged` (`FrameIsArranged`), `Stable`
  (`RepaintIsStable`), `Limited` (`WithinLimit`), each as an invariant of `Spec`;
* `Ordered`: `Spec => PickedInOrder`, and with `Limited`, `Selections`: `Spec => SelectionKept`.

What a frame shows does not follow from the frame before but from `constrain()` alone, so the
argument is about its function: `ScrollBackStops` and `ScrollForwardStops` say where the two
loops stop (a bounded set of naturals has a greatest and a least member);
`PlaceFits`, `PlaceKeepsMargin` and `PlaceIsStable` draw the three consequences. The last
is the delicate one: with a margin of half the window the second scroll takes back a line
of the first, so running `constrain()` again does scroll back and then forward to the
same place. The inductive invariant `IInv` adds to the properties that the selection is finite and
that no number in it is beyond `select_seq` (needed by `Ordered`). The limit needs
that the positions picked are no more than the room left (`LowRanks`: ranks are
injective).
The assumption is `ListAssumption`: the bounds are naturals, a result lists no item
twice, and may be empty.

### Only model-checked

* Liveness: `WakesAreNotLost`, `NewestIsShown`, `StopEnds`, `ItemsAreSearched`, `RequestIsAnswered`, `CommandsEnd` and the
  liveness of `Prompt` and `ReaderFeed`. Fairness and ENABLED are beyond the proof system.
* `Preview` with prefetching, but for `PrefetchedIsWhole`: what the pane shows then is refuted in the ways listed below.
* `Prompt` and what it is made of (`KeyParser`, `Bindings`, `QueryLine`): their recursion, a parser that repeats itself and `trigger`,
  is written with RECURSIVE operators.
* Of `Matching`: `QueryReadsAsTyped` and `FieldsAndRangesAgree`, which are about how the token loop of `parse_terms` and the folds of `Tokenizer`
  (sums of lengths, joined texts) treat a text and its parts.
* `Search!MatcherAssumption`: `MatchingIsRight` says what a match is, but the assumption also compares the keys of queries, which
  are joined texts of terms.

## Disagreements found

TLC finds all of the following. No run repeats them; each comes back with the module's
cfg, the property named alone, and the constants given here. For
`Preview` these are `Items; Endless; Parts; CacheMax; PrefetchN; Started; Keys; MaxInputs;
MishapSets`; where nothing else is said the specification is `Spec`.

| Property | Constants | What happens |
|---|---|---|
| `StreamFilter!AllMatchesPrinted` (`LiveSpec`) | as `streamfilter` | `snapshot()` reads the finished flag after the counts (chunklist.cpp:111-117). If the reader appends its last records and finishes in between, `streaming_filter` stops with those records unprinted, against "matches are printed as the input arrives" (main.cpp:74). |
| `Session!ZeroIsFinal` | `MaxEdits` 0, `Sync` TRUE, bindings `OnZero`, batches `ReloadKey` | `zero` fires on the empty result of a search of the still empty list, once `reading_` is false (terminal.cpp:274), although "zero:abort fires when the final result set is empty" (compliance_check.py:1257). |
| `Preview!CacheIsWhole` | 2; {}; 2; 2; 1; TRUE; {move, touch}; 2; {{}} | After the adoption of a prefetch a key kills it as a prefetch (preview.cpp:86); it then counts as complete and its truncated output is cached, against "let it finish as the real request" (preview.cpp:41). |
| `Searcher!OnlyLatestServed` | as `searcher` | A result that passed its last poll of `cancel_` is published although a newer request waits: "only the latest request is ever served" is not so. |
| `Session!LoadSeesTheBatch` | bindings `OnLoad` | `load` fires on the next result installed after the list finished, even if that result answers a search made before the last items. |
| `Session!LoadsOncePerList` without its first condition, `ui.loads <= gen` | `MaxItems` 2, `MaxGen` 2, `MaxEdits` 0, no batches, `load` edits and `focus` reloads | The focus event is fired after the end of the batch has served reloads. Its reload raises `reading_` (actions.cpp:838) and then waits for the next wake, at which the loop sees the old list finished (terminal.cpp:230-237) and arms `load` for it a second time. |
| `Session!FailureIsReported` | bindings `Unbound` | The exit status is stored after the list is finished, and the loop asks for it once, when it sees the list finished: "Command failed" may never be shown. |
| `Session!ReloadStarts` (`LiveSpec`) | bindings `OnFocus` | A reload bound to `focus` starts only when something else wakes the loop: `end_of_batch` starts reloads before it fires `focus`. |
| `Preview!SettledPane` | 2; {}; 1; 1; 1; TRUE; {move}; 3; {{}} | A prefetch is adopted, then superseded by a cached preview; the worker takes the adoption late and overwrites the cached preview on display. |
| `Preview!RequestIsServed` | 2; {}; 1; 1; 1; TRUE; {move}; 2; {{}} | A request that adopts a prefetch that is already past its last check is never answered. |
| `Preview!CacheIsWhole` | 2; {}; 1; 2; 1; TRUE; {resize}; 2; {{}} | Output prefetched for the old size is cached after the resize emptied the cache. |
| `Preview!CacheIsWhole` | 2; {}; 1; 2; 0; TRUE; {window}; 2; {{}} | `change-preview-window` changes the size and keeps the cache. |
| `Preview!CacheIsWhole` | 2; {}; 2; 2; 0; TRUE; {move}; 2; {{late_kill}} | The kill of `request()` hits the command of the new request, whose truncated output is cached as complete. |
| `Preview!CommandsEnd` (`LiveSpec`) | 2; {1}; 1; 2; 0; TRUE; {quit}; 1; {{late_group}} | `setpgid` runs only in the child: a kill that comes first is lost, and `shutdown()` hangs if the command never ends. |
| `Preview!CommandsEnd` (`LiveSpec`) | 2; {1}; 1; 2; 0; TRUE; {quit}; 1; {{closes_output}} | A command that closes its output and goes on cannot be killed any more; `shutdown()` hangs. |
| `Preview!SettledPane` | 2; {}; 1; 2; 0; TRUE; {move}; 3; {{spawn_fails}} | "Failed to start" of a superseded request overwrites a cached preview on display. |
| `Preview!RequestIsServed` | 2; {}; 1; 2; 0; FALSE; {preview}; 1; {{}} | `preview(...)` without `--preview` asks a worker that was never started. |

In `ListView`, a reload clears the selection but leaves the old result installed until the
new one comes. An item picked in between belongs to the list before: its ordinal then
marks another item as selected in the new list, and accept prints the old one.
`\A i \in DOMAIN selected : selected[i].gen = gen` fails after `NewList` and `Toggle`.

Most of these are an ordering of two threads' steps that the tests do not reach; `ReloadStarts` and
the selection are the order of steps of one thread, and the two of `window` and `Started = FALSE` are
omissions.

Modelling the reader showed more of the first kind:

* the header lines of a source whose last header records and end fall between the copy at start-up (terminal.cpp:1413)
  and the reads of count and flag (1416-1417) may never be shown; `HeadersAreShown` fails without `ui.boot_gap`;
* `cancel()` loads `child_pid_` before the reader reaps the process and stores -1 (reader.cpp:242, 484), so the kill may
  come after the `waitpid`;
* `setpgid` runs only in the child (shellcmd.cpp:92). If the kill of `cancel()` and that of `run()` (reader.cpp:243, 481) both come
  before it, the command lives, and `waitpid`, the join and with them the main loop wait until it ends by itself; `ReloadEnds` fails
  without `BothMissed`;
* the last wake comes after `waitpid` (reader.cpp:483, 495). A command that closes its output and runs on therefore leaves
  `--filter` in its wait with all matches printed (`finished ~> mpc = "end"` fails in `StreamFilter`), and the whole list of a reload-sync
  is not shown until the command ends;
* `wake()` copies the callback and calls it after the unlock (reader.cpp:163): it may run after it was taken away, and then
  write to a descriptor that is closed (terminal.cpp:1607).

Modelling the keys showed these, each seen by adding the key or text to `MCPrompt`:

* `ctrl-h` (the event of ctrl-backspace) and `ctrl-alt-h` can be bound but never happen, since byte 8 decodes to the backspace key;
* alt-], alt-P, alt-_, alt-^, alt-X, alt-O and alt-[ begin a sequence, and are never keys of their own;
  names such as `ctrl-home` and `alt-delete` have no sequence that is decoded to them;
* a list of keys that begins with a comma (`,,a:up`) is refused;
* "We should stop processing more" (actions.cpp:240) holds for one list of actions: `trigger(a,b)` still runs the first action
  of `b` after one of `a` has ended the session;
* after a timeout's event has ended the session the tty is still read and one more event of it is processed
  (terminal.cpp:1516-1521, 1554-1591);
* `put` in the list of a printable key, run by `trigger` from a key that is no character, inserts a NUL;
* a key bound to a trigger of itself runs its list twice;
* "only force-resolves after select() saw no input" (keyparser.cpp:129) is not what the loop does: terminal.cpp:1514 ticks as soon as
  the deadline is over, with bytes to read or without (`punctual = FALSE`);
* the tail of a control string longer than `kMaxPending` is typed as text, and a CSI sequence without a
  final byte has no such limit at all.

And of the matcher: with two ranges or more, a range that fails after one of its terms
matched leaves the places of that term in the result (matcher.cpp:986-1034; line "eea ab", `--nth 1,2`, query "a b"), so too
much is highlighted; and the "optimal" algorithm (matcher.cpp:353) can score below the greedy one, since a cell keeps one
predecessor ("///aAAb", pattern "aab").

## What is not modelled

* *Placeholders*: expansion of `{}` and shell quoting is substitution of text without state.
* *Options*, but for `--nth`, ranges and `--bind`: parsed once, into a record.
* *Rendering, themes, ANSI, terminal I/O*: bytes and system calls; left to the pty tests. The self-pipes are Booleans.
* *Mouse*: reports are decoded (`KeyParser`); of what `handle_mouse` does only the click on an item is modelled (`ListView`).
* *Session*: signals, EOF of the tty, toggling of the sort order and of the search, preview calls.
* *Preview*: `change-preview`, `close`, scrolling, `{f}` and temporary files.
* *Search*: `scan_sync` on the UI thread while the worker scans. Both use the chunk cache; its mutex
  makes each look-up and each addition atomic, and an entry never depends on who made it (`CacheHoldsTheMatches`), so the
  two can only fill it in another order. The partitions of a parallel scan are merged in order and are one scan here. `Merger::final` and `merger_pending_` are written
  and never read.
* *Query line*: `--filepath-word`, `transform-query` and the other actions that run a command, `replace-query`, and the
  `focus` and `multi` events, which touch state of other modules.
* *Bindings*: `every(...)`, several spellings of a name, actions that only other modules act on (one of each kind is there, as `up` and `toggle-preview`).
* *Reader*: the order in which a directory is walked, ignore rules and symbolic links; temporary files of a command.
* Memory orders weaker than the store's release/acquire pairs, and the life time of the wake callback.

## Plan

Every component with state of its own is modelled. Of the proofs these are left:

1. `Session` with the worker's caches: a refinement of the worker of `Session` by that of `Searcher`.
2. `Search!MatcherAssumption` from `MatchingIsRight` and the keys that `BuildPattern` joins.

Of the model, the lists of `Session` could take the place of `Lists` in `ListView`, and a second thread that
scans could be added to `Search`.
