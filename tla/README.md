# A TLA+ model of XrdBlackhole

XrdBlackhole is an XRootD storage plug-in that keeps a namespace of file stubs
in memory, discards what is written and synthesises what is read. This
directory holds TLA+ modules of it, TLC configurations that check them on
small instances, and proofs checked by TLAPS that hold for every instance.
Source paths are relative to `src/XrdBlackhole/` of the repository.

## 1. Inventory

| Component | State | Operations | Shared with |
|---|---|---|---|
| `BlackholeFS` (namespace) | `m_files` (path to `shared_ptr<Stub>`), `m_fd_last`, one mutex | `exists getStub readdir rename unlink open close seed create_defaults` | every handle and request, as the global `g_blackholeFS` |
| `Stub` | `m_isOpenWrite`, `m_size`, `m_stat` | written by `BlackholeFS` under its lock and by `Close()` without it | all handles open on the file |
| `XrdBlackholeOssFile` (handle) | `m_stub`, `m_path`, cached `m_size`, atomic counters, `m_stats` | `Open Close Read ReadV Write`, asynchronous forms, `Fstat` | its stub, the namespace, the statistics |
| `XrdBlackholeStatsManager` | aggregates, one mutex | `recordTransfer getSnapshot logSummary` | every `Close()`, the metrics handler, as `g_statsManager` |
| `XrdBlackholeOss` | configuration values | `Configure Rename Unlink Stat newFile newDir`, stubs for the rest | creates handles, seeds the namespace |
| Configuration directives | parser locals | `cfg_writespeedMiBps cfg_defaultspath cfg_readtype cfg_seedfile` | seed the namespace before service starts |
| `XrdBlackholeOssDir` | snapshot of names, cursor | `Opendir Readdir Close` | reads the namespace once |
| Read data (`ReadInner`) | none | zero fill, LCG unrolled eight times | cached `m_size`, `m_ino`, `m_isRandom` |
| `XrdBlackholeMetrics` | none | `MatchesPath ProcessReq` | one statistics snapshot |
| `XrdBlackholeXAttr` | none | all `-ENOTSUP` | nothing |

Threads of the XRootD server call handles and namespace requests
concurrently. Each `BlackholeFS` method and `recordTransfer()` runs under a
lock; what is hard is between them, and in a few sequential corners:

* `Open()` takes the namespace lock twice and caches the size afterwards, so
  rename, unlink and truncation can come in between;
* `Close()` reads `m_isOpenWrite` and writes `m_size` and `st_size` of a
  shared stub without a lock, then takes the statistics lock, then the
  namespace lock, and finds the stub again by a path that may have moved;
* an asynchronous write is acknowledged first and counted afterwards;
* handles are reused for one session after another, so that counters and the
  stub must be reset in the right place;
* inode numbers double as identities and as the `int` that `open()` returns;
* a directory is listed from a snapshot by a cursor while the namespace goes on
  changing, with an empty name as the end mark;
* a configuration can fail half way, with what it has seeded left behind, and
  its size arithmetic wraps, and is unsigned for reads but signed for `Stat`;
* random data comes from a generator restarted in every read and unrolled eight
  times, with a tail;
* the throttle rounds each call's sleep down and knows nothing of other calls;
* a scrape of the metrics reads eight members while others update them.

What makes the parts correct: no two names share a stub and removed files stay
removed (namespace); a file at rest has the size of its last write session, and
a reader's cached size does not go stale, and what some clients do to one file
does no harm to the others (handles over the namespace); every acknowledged
byte is in the totals, once (statistics); a listing is of one moment, drops nothing in silence and comes to an end
(directories); the files asked for, and no others, exist with the sizes written
when `Configure()` reports success (configuration); reads write exactly the
bytes that lie in the file (read data); a scrape shows one moment (metrics).
`PROJECT.json` lists the hazards with their lines.

## 2. Modules

| Module | Models |
|---|---|
| `BlackholeFS` | the namespace: one action per method, each atomic because the method holds `m_mutexFD` throughout, plus the two unlocked size assignments that `Close()` makes on a stub |
| `XrdBlackholeStats` | the aggregates and `recordTransfer()` |
| `XrdBlackholeOssFile` | a set of handles over both: every call split into one action per access of shared state |
| `XrdBlackholeOss` | the composition: configuration, then rename, unlink and file requests of all handles, interleaved; history variables; the properties |
| `XrdBlackholeIsolation` | `XrdBlackholeOss` with one more history variable: which stubs clients have shared, moved or abandoned |
| `FileStore` | abstract: a store of files that have a size each, with sessions whose calls are single steps; `XrdBlackholeOss` implements it |
| `XrdBlackholeOssDir` | directory handles over `BlackholeFS`, which goes on changing |
| `XrdBlackholeConfig` | `Configure()` and the directive handlers over `seed()` |
| `XrdBlackholeRead` | `ReadInner()` under `Read()` and `ReadV()`: bytes and buffers |
| `XrdBlackholeThrottle` | the sleep of write calls against a clock |
| `AtomicStats` | abstract: transfers recorded one at a time, each as a whole (`recordTransfer` of `XrdBlackholeStats`) |
| `XrdBlackholeStatsManager` | the statistics manager under its mutex, one step per member; implements `AtomicStats` |
| `XrdBlackholeMetrics` | the metrics handler over `XrdBlackholeStatsManager` |
| `MC...` | symmetry and value sets for TLC |
| `BlackholeFS_proofs`, `XrdBlackholeOssDir_proofs`, `XrdBlackholeConfig_proofs`, `XrdBlackholeRead_proofs`, `XrdBlackholeThrottle_proofs`, `Metrics_proofs` | the theorems about the module of that name; `Metrics_proofs` has the statistics manager too |
| `XrdBlackholeOss_proofs` | types and the accounting of the composed plug-in |
| `SizeReadBack_proofs` | the size contract, and the refinement of `FileStore` |

**State.** A `Stub` is identified by its `st_ino`, which the code gives each
new stub from `++m_fd_last`; 0 stands for the null pointer. Stubs removed from
the map stay in the heap `stub`, as a `shared_ptr` keeps them alive. `file[h]`
is the record of a handle's members; `pc` says where in `Open()` or `Close()`
the calling thread is, `wb` is `Close()`'s local, `was_write` the access mode
of the session and `aio` the bytes of an asynchronous write that has been
acknowledged and not yet counted.

**Open** is `Open_refused` (early return) or `Open_open`, `Open_getStub`,
`Open_init`. **Close** is `Close_noStub` (early return) or `Close_begin`,
`Close_setSize`, `Close_setStat` (the last two only when `m_isOpenWrite` was
seen set), `Close_record`, `Close_fsClose`. **Write(XrdSfsAio\*)** is
`WriteAio_done` and `WriteAio_count`. Reads and synchronous writes touch only
atomic members of the handle and are single actions.

**Races.** `m_isOpenWrite`, `m_size` and `st_size` are aligned words accessed
without synchronisation. The model lets every such access happen at any point
between its neighbours, in program order, and reads or writes each whole word
at once.

**Environment.** Which calls XRootD and its clients make is a parameter of
`XrdBlackholeOss`:

* `Sharing`: `"exclusive"`, a session that writes has its path to itself;
  `"readers"`, one writer and any readers; `"any"`.
* `Relocation`: whether `Rename` and `Unlink` may hit a path in use: `"never"`,
  only after its `Open()` has found the stub (`"established"`), or `"always"`.
* `CountedBeforeClose`: whether asynchronous writes have returned, and not only
  called `doneWrite()`, when `Close()` is called.

Always assumed: XRootD makes one `Open()` or `Close()` call at a time on a
handle, passes writes only to handles opened for writing, and serves requests
only after `Configure()`.

**History variables.** `acked` (bytes acknowledged to the client in this
session), `written` (bytes of the last write session on a stub that has ended,
or its seeded size) and `ended` (the bytes acknowledged in sessions whose
`Close()` did not fail, and the errors of all ended sessions) only observe.

`disturbed`, in `XrdBlackholeIsolation`, collects the stubs whose size is no
longer answered for, by what happened to them and not by what the code made of
it. Three things count: a session begins on a file in use and one of the two
writes (`Contended`; the old and the new stub if it truncates, and those held
under that name); a name that a session writes to comes to stand for another
file or none (`Relocated`); a file is marked as open for writing by an `Open()`
that then fails (`Abandoned`, beyond `INT_MAX`). Leave any one of the three out
and TLC finds `DamageContained` violated, so none of them is an excuse too many.

**Abstract store.** `XrdBlackholeOss` ends with the refinement mapping. A file
some session writes is shown as busy, any other with the size `Stat` reports; a
session shows its path, its mode, the size reads are clipped to and the bytes
written and read. All stages of `Open()` after the first and of `Close()`
before the last map to stuttering steps, so `ImplementsFileStore` says that a
client sees each call happen at once.

**Directories.** A path is the sequence of what stands between its slashes, so
that trailing slashes and the root are what they are in the code; a name has a
length, and the order of `std::map` is a relation. The client asks for entries
with any of a set of buffer lengths, takes an empty name for the end, and
starts no second listing on a handle before it has finished or closed the first.
The empty string has a name of its own, `NoName`, as in `XrdBlackholeConfig`
`NoSuffix`: the provers cannot read the literal.

**Configuration.** A directive's arguments are split into words already; the
number in a word may be missing, negative or too large, and arithmetic is
modulo `Word`. `m_size` is unsigned and `st_size` a signed `off_t` of the same
width: `seed()` casts the one to the other (`toOff`), so a size above `OffMax`
makes a file that reads as long as it says and that `Stat` gives a negative
size. A numbered path is a record of its text and its expansions, one
of which may be too long. Each turn of the `count=` loop is a step. `asked`
records the files that `docs/configuration.md` promises for the directives
accepted so far, with sizes that do not wrap. `SeedAssumption` says of the
expansions that they do not get shorter as the number grows.

**Read data.** One action per round of the unrolled loop and of the tail loop.
The buffer is modelled with eight bytes of memory behind it, so that an overrun
is seen. The generator is the code's; its word, multiplier and increment, the
exclusive or that seeds it (`XorWord`) and the bits taken from it (`ByteOf`) are
parameters. TLC runs it with a word of 256 values, small odd constants, the
bitwise exclusive or and the top four bits. `served` and `handed` are history:
the segments served, and the number of file positions they asked for.

**Throttle.** Microseconds tick; the speed is kept as the fraction
`m_writespeedMiBs * Mega / Micro`, and the delay is rounded down as the cast to
`long long` does. A sleeping call may wake late, never early.

**Statistics and metrics.** A thread takes the mutex, makes its accesses in the
order of the code, and releases it. `past` is the history of the totals after
each transfer, `since` how many of them were complete when a scrape began.
Throughputs are whole numbers. The transfers of `XrdBlackholeOss` use
`recordTransfer` of `XrdBlackholeStats` as one step, which is what
`RecordsAtomically` justifies.

## 3. Runs

| Run | Environment | Checks |
|---|---|---|
| `Namespace` | the namespace under any operations, and a directory handle whose buffers are too short for one of the names; fair | `FSTypeOK`, `NoAlias`, `NoResurrection`, `DirTypeOK`, `NoPhantomEntries`, `NothingDropped`, `ListingEnds` |
| `Exclusive` | exclusive, never, counted | `TypeOK`, `SizeReadBack`, `ReaderSizeCurrent`, `FstatMatchesReads`, `WriteFlagExact`, `ImplementsFileStore` (refinement of the abstract store) |
| `Shared` | any, always, counted; numbers beyond `INT_MAX` | `AckedBytesRecorded`, `DamageContained` |
| `Seeding` | directives that may be ill-formed, repeated, too large, or outgrow the buffer | `ConfigTypeOK`, `SeedNamesAsDocumented`, `SeedSizesAsDocumented`, `CleanMeansComplete` |
| `ReadData` | pairs of reads of empty, zero and random files | `BuffersExact`, `PrefixesAgree`, `ReadBytesExact` |
| `Throttle` | one write at a time | `ReportedWithinSpeed` |
| `Scrapes` | two threads that record, scrape and log | `ScrapeConsistent`, `RecordsAtomically` (refinement of `AtomicStats`) |

They hold: with writers alone on their paths and open files left in place the
size contract is kept through every interleaving of `Open()` and `Close()`, and
to such clients the plug-in is a plain store of files. With files shared,
renamed, replaced and unlinked at any moment, and no discipline but that
asynchronous writes have returned before `Close()`, the totals still hold exactly the bytes of the sessions whose `Close()` did not fail, and
a wrong size stays confined to the files in `disturbed`: the others keep the
contract, and so do their readers, even those whose file was renamed, replaced
or unlinked under them. Directory listings show one moment, drop nothing in
silence and end; configurations make what they are documented to make; read
buffers are filled exactly; a sequential writer exceeds the configured speed by
less than a microsecond per call; no scrape is torn.

Five runs each take a restriction away and find a disagreement with what the
repository says (quoted in `PROJECT.json`, `findings`):

| Run | Restriction lifted | What goes wrong |
|---|---|---|
| `ReaderClose` | readers may overlap a writer | the reader's `Close()` sees the writer's flag, sets the size to 0 and clears the flag; the writer's `Close()` then publishes nothing |
| `RenamedWhileOpen` | rename of an open file | `close(m_path)` misses the renamed stub, whose flag stays set; the next reader's `Close()` sets its size to 0 |
| `LateCount` | `Close()` between `doneWrite()` and the count | acknowledged bytes are in no total |
| `LostErrors` | rename between the two locks of `Open()` | `Open()` succeeds without a stub; the session's errors are counted in the handle, but its `Close()` returns before it records anything, against "Total error returns across all transfers" (`XrdBlackholeMetrics.cc:83`) and "At close, each file handle records" (the repository's `README.md:104`) |
| `BytesByPosition` | two reads that overlap from different offsets | they disagree on the bytes they share, where `docs/configuration.md:84` says "The same offset always yields the same bytes" |

Smaller disagreements have no run of their own. TLC shows them when the
constants of a run are changed as stated, or they can be read off a definition:

* `Exclusive` with `Sharing = "readers"`: besides `ReaderClose`, two `Close()`
  calls inside their unlocked writes can leave `m_size` of one and `st_size` of
  the other (`docs/ARCHITECTURE.md:168`).
* `Exclusive` with `IntMax = 2`: past `INT_MAX` a write `open()` that succeeds
  looks refused, and its file stays marked (`WriteFlagExact` fails).
* `NothingDropped` exempts names answered with `-ENAMETOOLONG`: `Readdir_entry`
  moves the cursor first, so a retry with a larger buffer never gets them. In
  an instance with the file `/a/` beside `/a/x` it fails: the empty name of the
  first ends the listing.
* `SeedSizesAsDocumented` exempts sizes outside the word: `16777216T` makes a
  file of size 0, `-1` one of 2^64 - 1, and both directives succeed. Of `Stat`
  it exempts those outside `off_t`: for `-1`, and all from 2^63 on, `Stat`
  reports a negative size.
* `Seeding` with a numbered path and `count=1`: the specifier is not expanded
  (`SeedNamesAsDocumented` fails; `docs/configuration.md:82`).
* `Serve` does not look at `NoGo`: a configuration that failed is served.
* `Throttle` with two threads: concurrent writes on a handle sleep through the
  same time, at twice the speed (`ReportedWithinSpeed` fails).
* `buildMetrics` counts the transfers that wrote and those that read: one that
  did neither is in no exported count, one that did both is in two.

**Bounds.** Two paths and two handles are the fewest with a rename and an
overlap. `MaxFd` bounds the number of opens and seeds: 4 in `Exclusive` fits a
seeded file, a session that truncates it, one that reuses it and a reader; 3 in
`Shared` a seeded or written file, a second one that truncates it or is renamed
over it, and an open that is one too many for `IntMax`, which stands for
`INT_MAX`. `MaxBytes` = 1 makes a session write
nothing or something, and seeded files have another size than any written one
where the difference matters. `Exclusive` reads at offset 1, which is inside a
seeded file and at the end of a written one; `Shared` before the start and at
the start. At most one asynchronous write per handle is
between its acknowledgement and its count. A run with `MaxFd` reached can go on
closing and opening nothing new; rename, unlink and refused opens remain
possible, so deadlock checking stays on. Symmetry is used only where no
liveness is checked.

`Namespace` has four paths, in the root, in `/a` and below it, so that a
replacing rename leaves others in place, and four opens or seeds; one name is
longer than the buffer. It lists `/`, `/a` and `/a/`. Files have size 0 there:
sizes are the matter of the other runs. `Seeding` reads up to four lines, so a
failure can come before, between and after successes and a path can be named
twice, with 1024 scaled to 2, 2^64 to 256 and 2^63 to 128; deadlock is not checked there
because `Configure()` ends. `ReadData` serves two segments (`MaxServed`), which
is what a comparison of two reads takes, of up to 17 bytes, two rounds of the
loop and a tail. `Throttle` has three calls in eight microseconds (`MaxWrites`,
`MaxTime`), at speeds that make one of the lengths sleep not at all. `Scrapes`
has two transfers (`MaxTransfers`), so a scrape can fall before, between, into
and after them, and two threads, enough to wait for each other.

**Fairness.** One run assumes any. `FairDirSpec` adds weak fairness of
`Readdir(d)`: the client is what must go on, and `ListingEnds` says that one who
does reaches the end; clients that give up close the handle. That calls return
is not checked: no call waits for anything but the two mutexes, which are held
over straight-line code, so it would hold by the shape of the model.

## 4. Proofs

| Theorem | States |
|---|---|
| `FSTypeCorrect`, `FSNoAlias`, `FSNoResurrection` | the namespace properties for all paths, sizes and bounds |
| `TypeCorrect` | the types of the composed plug-in, in every environment |
| `ErrorTotalStaysZero` | in every environment, the exported total of errors stays 0: what `LostErrors` shows is general, because only a handle without a stub counts errors and only one with a stub records them |
| `BytesRecorded` | `AckedBytesRecorded`, if `CountedBeforeClose`, whatever is shared, renamed or unlinked |
| `SizesReadBack`, `WriteFlagsExact`, `ReadersCurrent`, `FstatsMatch` | the size contract, if moreover `Sharing = "exclusive"`, `Relocation = "never"`, `MaxFd <= IntMax` and seeded sizes fit an `off_t` (`Discipline`) |
| `ImplementsStore` | under `Discipline`, every behaviour is one of `FileStore` |
| `DirTypeCorrect` | the types of directory handles and the bounds of the cursor |
| `ListingsExact`, `ListingsComplete` | `NoPhantomEntries` and `NothingDropped`, if `NormalPaths` |
| `ConfigTypeCorrect` | the types of what `Configure()` sets, for any directives |
| `SeedNames`, `SeedSizes`, `CleanComplete` | the three properties of `Seeding`, if `SinglesPlain` |
| `ReadBuffersExact`, `ReadPrefixesAgree`, `ReadCountExact` | `BuffersExact`, `PrefixesAgree` and `ReadBytesExact`, for any files, requests and generator |
| `SpeedKept` | `ReportedWithinSpeed`, if `OneWriter` |
| `StatsAtomic`, `ScrapesConsistent` | of the statistics and the metrics handler, for any number of threads and transfers |

The assumptions on the constants are those of the `ASSUME`s in the modules:
sizes are natural numbers and include 0 and everything a session may write,
seeded sizes are sizes, writes have positive length; an `off_t` is as wide as
the unsigned sizes, and what a session may write fits it; no thread is
`NoThread`; the largest default file (ten `Kilo`^3) fits an `off_t`; the
exclusive or of two natural numbers is one. TLC evaluates all of them on the instances of the runs.

The hypotheses of the fourth to sixth rows are what the violation runs and the
smaller disagreements show to be needed. The others are:

* `NormalPaths`: files have absolute paths without empty components, and
  directories are listed by such a path, with or without a slash behind it, or
  as `/`. This is what clients
  use; the file `/a/` of section 3 shows what happens otherwise.
* `SinglesPlain`: a path with a format specifier comes with a count of more than
  one. With `count=1` the code and its documentation disagree (section 3).
* `OneWriter`: there is one writing thread per handle, a client that waits for
  each answer. With two, `ReportedWithinSpeed` fails (section 3).

`MCXrdBlackholeOssDir` and `MCXrdBlackholeConfig` assert the first two of their
instances, and `Throttle.cfg` has one thread, so the runs are cases of the
theorems.

*Namespace.* `FSInv` adds to type and `NoAlias` that every inode in the map has
been handed out (`HandedOut`); without it a fresh inode could be one already in
use.

*Plug-in.* `OssInv` adds that a handle holds only stubs handed out and that a
closing handle holds one (`StubsHeld`); this makes the unlocked size updates
steps of `FSNext` (the lemma `StepRefines`), so that the namespace's invariant
carries over. `ErrorTotalStaysZero` needs that a handle that has a stub and is
past `Open()` has counted no error (`NoErrorsHeld`).

*Accounting.* `BytesInv` follows the acknowledged bytes through a session: none
before `open`, in the counters and `aio` while open, in `wb` while closing
(`AllAccounted`). Nothing in it speaks of paths, which is why sharing and
relocation do not matter. For the sizes, `AccountInv` says that open files
stay in the map, so that every session has a stub (`SessionsSound`).

*Sizes.* `SizeReadBack` speaks of files at rest and is far from inductive.
`SizeInv` says, for a handle, that its stub is the one its path names and which
of the two size fields already holds `wb` at each stage of a writer's `Close()`
(`HandleSound`); for a path, that the flag is set exactly while a writer has it
and that both sizes are the history's unless that writer has begun to publish
(`PathSound`); that a writer is alone (`WriterAlone`); and that an inode not yet
handed out has no history (`Unwritten`). Steps fall into four kinds with a
lemma each: those that leave the stubs alone (`QuietStep`), those of a writer on
its own stub (`PublishStep`), the start of a session (`OpenStep`) and those of
no handle (`NamespaceStep`).

*Abstract store.* `StoreInv` adds to `SizeInv` that what a closing session has
added up is what its client was told (`Summed`), so that the size `Close()`
publishes is the one the abstract `Close` gives. Each action has a lemma:
either clients see no difference (`Unseen`, `OwnStep`) or they see the abstract
action of that name. The delicate ones are the stages of `Close()`
(`CloseStageUnseen`: the path is busy, so its two sizes are hidden until
`fsClose`), and `Open()`, whose later stages find the stub the first one left.

*Statistics and metrics.* `ManagerInv` says that only the thread that holds the
mutex is past `lock`, that the totals with the transfer under way completed are
the last of `past`, and that a reader with the lock has copied, of each member
it has passed, the value in the last of `past`. `MetricsInv` adds that a copy
brought back, and a body sent, is an element of `past` not older than the
request.

*Directories.* `DirInv` says of a handle (`ListingSound`) that its entries are
the children there were at `Opendir()`, each once, none of them empty, and that
the names given and those refused are, without overlap, the entries before the
cursor. What it rests on are lemmas about paths: on normal ones a child is
determined by its directory and its last component (else two files could be
listed under one name), and that component is not empty (else it would be taken
for the end). The order in which `readdir()` walks the map enters only through
its being a permutation of the children.

*Configuration.* `ConfigInv` relates the `seed()` calls left in `job` to the end
of `asked` (`JobIsRest`); what comes before that end is made, or too long and
then reported in `NoGo` (`DoneMade`); a file that exists has what its first
request says (`MadeForFirst`), because `seed()` does not replace an entry. To
carry this through `SeedTooLong`, which drops the rest of a job, nothing that
fits may stand behind a path that is too long (`TooLongLast`).

*Read data.* `ReadInv` has three parts. `Calling`: `ReadInner()` has filled the
first `i` bytes and no other, and they are the output of `i` steps of the
generator from its seed, the last of which is `state` (`Generated`). `Counted`:
what has been counted and the total of the call under way are together what was
asked for. `AllGood`: of each segment served, the length, the bytes written and
their values. A round of the unrolled loop extends a trace of the generator by
eight states and one turn of the tail by one (`TraceGrowsByEight`,
`TraceGrows`), and two traces from one seed agree (`TracesAgree`), so a read is
a prefix of any longer one at its offset however the loops divide it.
`TracesAgree` is an induction, made with the least counterexample
(`LeastElement`), which the well-foundedness of the natural numbers provides
without an operator parameter, something the installed provers cannot handle.

*Throttle.* `ThrottleInv` says that what is counted keeps to the speed between
calls (`Idle`), and that while the writer sleeps it did so when the call began
(`Sleeper`); the delay rounded down is less than a microsecond short
(`RoundedDown`), which is what each call adds to the allowance.

Only model-checked: `ListingEnds` (liveness under fairness is out of the
prover's reach), `DamageContained`, and of course the counterexamples. Every
other property of a passing run is stated by a theorem.
The inductive invariants were checked with TLC on the instances of the runs,
except for `ReadInv`, whose traces are quantified over no set.

## 5. Not modelled

Log and metric text, and floating point (throughputs and averages are whole
numbers, the throttle's speed a fraction); operation counts other than those of
writes; `Chmod`, `Create`, `Mkdir`, `Remdir`, `Truncate`, `Fsync`, `Ftruncate`
and the extended attributes, which change nothing; `StatFS`, `StatVS`,
`StatLS`, which report constants; format specifiers other than one integer
conversion in a numbered path; the build.

There is no module of `BlackholeFS` below its lock: each method holds
`m_mutexFD` from its first access of the map to its last and calls nothing that
waits, and the accesses made outside it, in `Open()`, `Close()` and `Fstat()`,
are steps of their own in `XrdBlackholeOssFile`.

## 6. Plan

Done: all components that keep state, the two abstract specifications, the runs,
and a theorem for every refinement and every safety property but one that a
passing run checks.
Next:

1. A theorem for `DamageContained`. Its invariant has to say, of every handle
   whose stub is not in `disturbed`, what `HandleSound` says now under
   `Discipline`, without the name still leading to the stub.
2. An abstract specification of a directory listing, one step per call, that
   `XrdBlackholeOssDir` implements.
