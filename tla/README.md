# hddtemp in TLA+

hddtemp reads the temperature of hard drives, once from the command line or as
a daemon that answers TCP clients and logs to syslog. This directory holds a
model of the program (`src/src/`) and of the gettext library it carries
(`src/intl/`), the TLC configurations that check it on small instances, and the
proofs of its main safety properties.

## The system

hddtemp is one process without threads. What makes it hard is what happens
around it: drives fall asleep, fail or vanish in the middle of a query, clients
come, hang up and come back, signals arrive at any point, the wall clock is
set, memory and descriptors run out, and all of it meets state that lives as
long as the daemon. gettext adds caches whose validity hangs on a counter, and
files that were written by somebody else.

| Component | Source | State | Operations | What makes it correct |
|---|---|---|---|---|
| Disk collection | `hddtemp.c` 437-531 | `ldisks`, `ret`, `db_loaded` | one round per argument: prefix, `open`, probe, look-up | the list is in the order of the arguments; in direct mode the exit status tells a missing drive; each disk is fit for the drivers |
| Direct mode | `hddtemp.c` 151-250 | stdout | `display_temperature` | what a script reads is a temperature or a documented substitute |
| Database reading | `db.c` 227-269 | a buffer and three pointers | `read`, parse each line, move the rest | every line once, whole, in order; no overrun; it ends |
| Database lines and look-up | `db.c` 49-225 | the buffer, `supported_drives` | `parse_db_line`, `is_a_supported_drive`, the table of `--drivebase` | an entry says what its line says |
| Bus drivers | `ata.c`, `sata.c`, `scsi.c`, `*cmds.c` | `struct disk`, `errno`, `SG_IO_supported` | `probe`, `model`, `get_temperature`, each a sequence of ioctls | a verdict agrees with what the drive answered, on every failure path; drives whose sleep can be told are left asleep |
| Disk cache | `daemon.c` 131-250 | `value`, `ret`, `errormsg`, `last_time` of each disk | `daemon_update` and the two reports | readings are recent; drives are not asked too often |
| Event loop | `daemon.c` 303-393 | `stop_daemon`, `next_time`, sockets | `select`, `accept`, the timeout, signals | clients are answered; the log goes on; a signal ends it, a client does not |
| Sockets and daemonisation | `daemon.c` 59-129, 264-298 | the descriptor table | `fork`, `close(0..2)`, `socket`/`bind`/`listen` | each descriptor has one user |
| Model strings, units, replies | `satacmds.c`, `scsicmds.c`, `hddtemp.c`, `daemon.c` | the bytes of a name | `*_fixstring`, `value_to_unit`, `daemon_send_msg` | a client can tell the fields apart; all units tell one temperature |
| Catalogues | `intl/loadmsgcat.c`, `dcigettext.c` | `struct loaded_domain`, the pool of converted strings | loading, look-up, conversion | every message is found, in the right codeset, at a place of its own |
| Plural forms | `intl/plural.c`, `eval-plural.h` | the parser's stack | shift, reduce, evaluate | the form is the one the expression means |
| Look-up of messages | `intl/dcigettext.c`, `bindtextdom.c`, `textdomain.c`, `finddomain.c` | bindings, loaded catalogues, known translations | `gettext`, `textdomain`, `bindtextdomain` | what was asked before has no part in the answer |
| Names of locales | `intl/explodename.c`, `l10nflist.c`, `localename.c` | none | taking a name apart, listing less specific ones | the most specific catalogue comes first |
| Options, degree sign, backtrace, aliases, `printf` replacements, build files, scripts | | | | see "What is not modelled" |

`main()` collects the disks, reading the database when the first ATA disk needs
it, and hands the list `ldisks` over to direct mode or to `do_daemon_mode`. From
then on the list never changes length; the event loop calls `daemon_send_msg`
or `daemon_syslog`, both call `daemon_update`, and that calls the driver of each
disk whose reading is too old. The only callback is the signal handler
`daemon_stop`. Every text of the program goes through `gettext()`.

## The modules

| Module | Models | Extends |
|---|---|---|
| `GetTemperature` | `struct disk` and what one call of `get_temperature` may make of it | |
| `Queries` | what the bus drivers promise (abstract) | `GetTemperature` |
| `BusDrivers` | the probes and queries one ioctl at a time; implements `Queries` | `GetTemperature` |
| `DiskCache` | `daemon_update`, `daemon_send_msg`, `daemon_syslog` | `GetTemperature` |
| `EventLoop` | `do_daemon_mode` from the signal handlers on | |
| `Startup` | `main()` from the disks on, and direct mode | `GetTemperature` |
| `LineSource` | what reading the database promises (abstract) | |
| `LineReader` | `load_database`'s buffer; implements `LineSource` | |
| `Database` | the lines themselves, the list, the look-up, the table | |
| `Descriptors` | the descriptor table from the first `open()` to the exit | |
| `Replies` | model strings, units and the reply to a client | `AscendingOrder` |
| `Plural` | the parser and the evaluation of plural expressions | |
| `PluralMeaning` | what a plural expression means, for comparison | `Plural` |
| `AscendingOrder` | a set of numbers as a sequence | |
| `Catalog` | one message catalogue: loading, look-up, conversion | `Plural`, `AscendingOrder` |
| `LocaleNames` | names of locales and the files looked for under them | `AscendingOrder` |
| `Translations` | what `gettext()` promises (abstract) | |
| `GetText` | settings, caches and the search; implements `Translations` | `LocaleNames` |
| `MC...` | values for TLC | the module of that name (`MCCatalog`: `PluralMeaning`) |
| `BasicLemmas` | induction and recursion over numbers, division, sequences | `AscendingOrder` |
| `...Proofs` | the proofs | the module of that name |
| `StartupProofs` | the proofs of what happens before the daemon starts | `Startup`, `LineReader` |
| `CatalogProofs` | the proofs of catalogues and of their look-up | `Catalog`, `GetText` |
| `DaemonProofs` | the proofs of the loop and of its replies | `EventLoop`, `Replies` |

`GetTemperature` ties the program's modules together. `Startup` hands over
disks of `CollectedDisk`; `DiskCache` begins with those and lets a query end in
any way of `GetTemperature(dsk)`; `BusDrivers` is proved to end queries in no
other way, and to collect no other disks.

**GetTemperature.** A disk is a record of the fields the program reads again;
`db_entry` is kept as whether it exists and whether its attribute is 0,
`errormsg` as the kind of the last message. The result of a query is a *set* of
disks: each ioctl is one field of an answer that ranges over all combinations,
and the driver's control flow, with every early return and every
`close(dsk->fd)`, is a function of the answer.

**BusDrivers.** One action is one ioctl (or the local code around it). `kind`
says what a drive and its kernel driver support, `power` what the drive is
doing; `Drift` changes the latter between any two ioctls, up to unplugging.
Each ioctl is a set of answers over that state. What outlives a query is
explicit: `errno`, which some failure paths read without having set it, and
`SG_IO_supported`, the static that the first SCSI command of the process sets
for good. `SG_IO` returns 0 also for a refused command; what is then in the
buffer is anything. Seen from `Queries`, a disk under a query is still `before`.

**DiskCache.** `Ask` is a client accepted or an interval that has ended; then
one disk at a time `Reuse` or `BeginQuery` ... `EndQuery`, and `Report` for the
whole list. A query is two steps so that time can pass, and the clock be set,
while a drive answers. `now` is true time and `skew` the error of the wall
clock, which `AdjustClock` sets to anything within `MaxSkew` at any moment.

**EventLoop.** One action per step between which something can happen: the
test of `stop_daemon`, the computation of the timeout, `select()` in its three
outcomes, `accept()`, serving, logging, cleaning up. `Signal` may happen
between any two of them, and interrupts only a `select()` that is already
sleeping. Time is kept relative (`remaining`, `left`), so that the state space
is finite without a bound on time.

**Startup.** One round of the collecting loop is one action, named for how it
ends. Prefixes are sequences of letters, because `strncmp()` is called with one
less than their length and the model keeps that.

**LineReader** keeps offsets in the file instead of bytes; `Read` returns any
number of bytes that fits. **Database** takes over where it ends: the buffer
with its whole lines, cut up in place, so that what an overrun would read is
the next line. Digits are one character per number; regular expressions are
parameters (`Regcomp`, `Regexec`). The 16 bits of an attribute id are kept.

**Descriptors.** `table[n]` is what number `n` is open on, and every `open`,
`socket`, `accept` and the log's connection gets the lowest free one, or fails.
The variables of the program (`dsk->fd`, `sks_serv`, `cfd`) keep numbers, as
they do in the code, so that a number can go stale.

**Replies.** `FixString` compresses blanks in the first 24 bytes (`FIXED`), and
`strdup()` reads what follows them; `Sent` writes the length that `snprintf()`
*would* have needed, from a `msg` of 128 bytes (`MSG`). A drive that could not
be opened has no model, and `???` in its place.

**Plural.** The bison parser is a machine that shifts and reduces; its tables
are represented by the precedences they encode. `live` counts allocated
expressions, and every allocation may fail.

**Catalog.** Loading is a sequence of steps, each of which may fail for want of
memory or of bytes; `held` says what it would leave behind. Tables are
sequences, words of the other byte order negative numbers, so that a forgotten
swap shows. Strings that depend on the system are expanded and added to a copy
of the hash table. Converted strings share blocks whose rest is kept between
look-ups (`pool`), and `conv` is valid as long as a counter has not moved. A
conversion that fails leaves its traces too: without memory the pool is given
up, and a block allocated for a string that turns out not to be convertible
(`EILSEQ`) becomes the pool. A codeset may be bound before the catalogue is
loaded, which is the usual order, and after.

**GetText, LocaleNames, Translations.** A name is a sequence of tokens, taken
apart as `_nl_explode_name` does, in both syntaxes. The list of less specific
names, its order and the loaded catalogues are kept as the code keeps them, as
are the known translations with the counter they were stored under. The
environment and the working directory change behind gettext's back. A
translation is the file it comes from.

## What the runs check

| Run | Instance | Shows |
|---|---|---|
| `cache_clock` | 1 drive of any kind, `DELAY` 3, clock wrong by up to 1, 9 units of time | how old a reading can be, how often a drive is asked, and that the fields of a disk agree with what is reported: `NothingUnqueried`, `StalenessBound`, `RateLimit`, `KnownIsMeasured`, `FailuresExplained`, `LostForever` |
| `loop` | 2 clients, 2 sockets, with a log every 3 units and without | `LateWork`, `ClientsCannotStop`, `AcceptNeverBlocks`, `LogSpacing`; liveness: `StopHonoured`, `ClientsAnswered`, `LogsWhenQuiet` |
| `line_reader` | every file of up to 8 bytes, a buffer of 3, every size of read | `RoomToRead`, `ImplementsLineSource`, `Terminates` |
| `startup` | 2 arguments, no prefix or a documented one, all answers to the probes, both modes | `StatusTells`, `HandedOver`, `TypeNamedOrGuessed`, `InOrder`, `TemperaturesRead` |
| `drivers` | 2 drives of 4 kinds, any of them asleep, awake or unplugged at any moment | `ImplementsQueries`, `HealthyKept`, and `SleepUndisturbed` under the conditions told below |
| `drivers_answered` | 1 drive, every kind, every forced type | **violated**: a temperature shown was sent by the drive |
| `descriptors` | 3 drives, 2 addresses, a descriptor fewer than needed | `OwnDrives`, `OwnSockets`, `NothingLeaks` |
| `database` | files of up to 3 of 18 lines | `LinesApart`, `TableAligned` |
| `replies` | every name of 6 letters of 4, a drive that could not be opened, every temperature 0-255, both units | `ModelIsName`, `RepliesReadable`, `SameTemperature` |
| `catalog` | 25 plural expressions, and files of both byte orders with every mixture of tables, codesets bound before loading and after, strings that cannot be converted | `FoundIffPresent`, `OwnCodeset`, `RegionsApart`, `RightForm`, `NothingLeft` |
| `gettext` | 4 environments, 2 domains, 2 directories, 2 questions | `OwnCatalogs`, `ImplementsTranslations` |
| `locale_again` | the same, with a catalogue under a normalized codeset | **violated**: less specific catalogues are looked for |

**Bounds.** One drive is enough for the clock properties, because a drive's
stamps depend on no other drive's but for the time the others' queries take,
which `Tick` inside a query gives; `DELAY` is large enough that a reading can be
reused, become too old and be taken again, and `YEAR` as small as its
assumption allows. Two sockets and two clients are the least for one to starve
the other. An interval of 3 is longer than a clock that is wrong by 1 on both
sides of it can hide. A buffer of 3 and files of 8 give lines shorter than, as
long as and longer than the buffer, and lines across two and three reads. Two
arguments show every order of failure and success. Two drives are what it takes
for one drive's command to choose the other's transport, or to leave its `errno`
behind; with the four kinds every action of a driver happens; other combinations,
such as a SATA disk without the HDIO ioctls, are left to the proofs. Three drives
let the list shrink in the middle, and six descriptors make every `socket()`,
`accept()` and log connection fail in some state. Three lines are the least for
an overrun to skip one. Names of six bytes with four cleaned have a tail that is
not. The plural expressions have every operator, every pair of neighbouring
precedences, and errors of each kind. Two changes of the settings are what it
takes for a translation to outlive one and be asked for again after the other.
The named bounds are `MaxNow` (guard of `Tick`), `MaxSkew`,
`Backlog`, `MaxLength`, `MaxRebindings`, `MaxDepth`, `MaxConfigured`,
`MaxChanges`, the constraints `Relevant` and `FewChanges`, and 2 for `late` and
`SyslogInterval` for `since`, beyond which these history variables are not told
apart. For the modules with proofs the bounds go away altogether.

**Deadlock** is not checked where the system ends: the process exits, all drives
are given up, or a bound has been reached.

**Preconditions.** `gettext` has no catalogue under a normalized codeset, which
is the flaw `locale_again` shows, and none under a name with `+` for a locale
with `@`; `MCGetText` has TLC evaluate the hypotheses of the proofs about
`GetText` (below) for it. `descriptors` starts with 0, 1 and 2 open. `startup` has the
documented prefixes only. What happens without them is told below.

**Fairness.** `EventLoop` assumes that the process is scheduled and a
non-blocking step of it is taken eventually (`WF(Daemon)`; in `select()` this
means only that it returns when something is ready, the time is over or it was
interrupted), that time passes (`WF(Tick)`) and that `accept()` does not fail
forever (`SF(Accept)`: it fails for want of a descriptor, of memory, or for an
aborted connection, and the code tries again). Nothing is assumed of clients,
of signals, of the clock being set, or of `OutOfMemory`. `LineReader` assumes
that the reading process runs and `read()` returns. A drive that never answers
is out of the model: the ioctls have timeouts in the kernel. The other modules
state no liveness.

**Mutants.** Each property of a passing run has a definition next to the
original (`Stale_cached`, `Test_once`, ...), the same code with a plausible
error, under which TLC finds the property violated. They are used by no
specification.

## What disagrees with the documentation

Shown by a run:

* `intl/finddomain.c:88` (`locale_again`): the comment at lines 73-75 says that
  less specific locales are looked for. The first look-up of `de_DE.UTF-8` does;
  the second finds, by the full name, an entry that the first has added as a
  less specific one without the normalized codeset, and `de_DE.utf8` is not
  tried any more. The second message stays untranslated.
* `scsicmds.c:82` (`drivers_answered`): what `ioctl(SG_IO)` returns is 0 also
  when the drive refused the command, and `status`, `host_status` and
  `driver_status` are not looked at: bytes the drive never sent are shown as its
  temperature, where `doc/hddtemp.8:26-28` says that the program "will give you
  the temperature of your hard drive by reading Self-Monitoring Analysis and
  Reporting Technology (S.M.A.R.T.) information on drives that support this
  feature".

Met while modelling, without a run of their own:

* `hddtemp.c:464`: the length given to `strncmp` is one too small, so that any
  one-letter prefix, and `satax:`, force SATA (`hddtemp.c:361` names the types).
  `TypeNamedOrGuessed` therefore assumes documented prefixes.
* `README:34-36`: a client may get a reading older than a minute after the clock
  has been set back; the proved bound is `DELAY` plus twice the clock's error.
* `hddtemp.8:81-82`: temperatures are not logged every s seconds while clients
  keep `select()` from timing out. `LogsWhenQuiet` is what holds.
* `db.c:257`: "line exceed" is also printed for a short line without a newline;
  `README:48-53`: such a last line is not an entry, and nothing is said.
* `ChangeLog:15-16`: with `--numeric --quiet` a drive with an error prints
  nothing instead of zero.
* `daemon.c:293-295`: started with one of the descriptors 0 to 2 closed, a drive
  gets that number and loses it to a socket; with `Inherited` containing
  `{0, 2}` TLC finds `OwnDrives` violated. What `perror()` prints later goes
  into whatever has number 2 then.
* `db.c:86`: a backslash before the end of a line makes `extract_string` go on in
  the next one, which `LinesApart` excepts.
* `atacmds.c`, `satacmds.c`: a drive that reports power mode 0x80 (idle, but
  spinning) is taken for one in standby. And the checks of the power mode go
  through the HDIO ioctls also for SATA disks: where a driver has none, or a
  drive in standby does not know the command, the mode is unknown, and SMART
  ENABLE spins the drive up. `SleepUndisturbed` is stated of the others.
* `daemon.c:204`: of a reply longer than 127 bytes the stack behind `msg` is
  sent too; `RepliesReadable` asks for replies that fit. A model longer than the
  24 bytes that are cleaned keeps the rest as it is (`ModelIsName`).
* `scsi.c:78`: each SCSI query leaks a `db_entry`.
* `intl/loadmsgcat.c:979-982`: the descriptor stays open when `malloc()` fails;
  at 996, 1021 the buffer or mapping. A syntax error in a plural expression
  leaks what was parsed. `NothingLeft` excepts these cases.
* `intl/l10nflist.c`: at 298 a failed allocation truncates the list for good; a
  name with `@` also looks for variants with `+`; and the comment at 328-332 has
  the parts dropped in the opposite order of what the loop, and the comment in
  `finddomain.c`, do.
* `intl/localealias.c`: the rest of a long line is skipped until `strchr()` finds
  a newline in `buf`, but of a line with an alias it sees only the alias, which
  has been terminated there: the line after each alias is lost.

## What is proved

All theorems are `Spec => []P`, `Spec => [][A]_vars` or
`Spec => Abstract!Spec`, without bounds on the constants.

**BusDriversProofs** (any drives of any kinds; `BusDriversAssumption`, and that
there is a temperature at all, `Temps # {}`): `TypeOK`, `HealthyKept`,
`SleepUndisturbed` and `ImplementsQueries`. The invariant has four parts.
`PhaseInv`: where a query is, `struct disk` is still what it was but for what
was forgotten, and past the first answered command the descriptor is open:
otherwise an old `EIO` in `errno` could be blamed on a drive that was given up.
`TransportInv`: a SCSI drive without descriptor has an excuse (it refused a
command, reports no exceptions, or has no part in the transport chosen), and
excuses last. `SleepInv`: a drive that has been asleep since before the query,
and shows it, gets past the check of the power mode only without a descriptor.
`FitInv`: the drivers may follow `db_entry`. Each action is shown to be a step
of a probe (`Probed`) or of a query (`Progress`: the next ioctl, or an end that
`GetTemperature` allows), and invariant and refinement follow from those two.

**DiskCacheProofs** (from `GetTemperatureAssumption`, `DiskCacheAssumption`
and `YearAssumption`): `Inv` is inductive, and `TypeOK`, `StalenessBound`,
`NothingUnqueried`, `KnownIsMeasured`, `FailuresExplained`, `RateLimit` and
`LostForever` follow. That a report is fresh needs to know that the disks the
loop has passed are fresh (`LoopInv`); that, in turn, needs `last_time` to be
within the clock's error of the true time of the query, and a disk never asked
to be too old by any clock (`StampsInv`; the year must exceed `DELAY` and twice
the clock's error); and that a verdict has its temperature or reason needs the
fields of a disk to be coherent before the query (`DisksInv`). What a query does
is proved once, in **GetTemperatureProofs** (`QueryAnswered`).

**DaemonProofs**, the loop (any clients, sockets, intervals and error of the clock):
`TypeOK`, `LateWork`, `ClientsCannotStop`, `AcceptNeverBlocks`, `LogSpacing`.
That the timeout stays within the interval needs a bound on `remaining + skew`,
the time of the next log by the true clock (`Bounded`); that logs are spaced
needs what has passed since the last one and what the timeout still has to
wait to make up the interval (`Paced`); `LastRound` says that the round begun
after a stop is the last.

**DatabaseProofs** (files of any length with any lines, any regular expressions
and models; `DatabaseAssumption`: a file is a sequence of whole lines):
`LinesApart` and `TableAligned`. A line is followed through `parse_db_line` by
the places its quotes, its value and its unit are at (`Shape`, `ParseInLine`);
apart from the code it is shown that the places a well-formed line has are those
and that any other has none (`Places`, `LineMeans`): the search stops at a quote
just if an odd number of backslashes does not precede it (`TakenInLine`). The
invariant (`DatabaseInv`) says that as long as the lines have been `Plain`, `s`
is where a line begins, the buffer from there on is as it was read (`Unread`),
and the list is what the lines say. It needs `Plain`: the line behind one that
ends in a backslash is cut as well. `Plain` also excludes a number beyond a
`short` and a NUL in the line, which ends it early.

There too, for `Descriptors` (any number of drives, addresses and descriptors;
`AllStandard`: 0, 1 and 2 are open at the start): `OwnDrives`, `OwnSockets`,
`NothingLeaks`. The invariant accounts for each open number.

**StartupProofs** (any number of arguments, any drives): `TypeOK`, `InOrder`,
`StatusTells` (of direct mode: the process that `-d` starts exits with 0 once it
has forked, whatever `ret` is), `HandedOver`, `TemperaturesRead`,
`DatabaseWhenNeeded` for any prefixes, and `TypeNamedOrGuessed` for the
documented ones (`DocumentedPrefixes`). The invariant says that the list holds
arguments from the present one on in strictly increasing order, that the status
tells those apart that are not opened, and that the printed lines belong to
disks before the present one.

There too, for `LineReader` (any files, any buffer, any sizes of reads):
`ReaderTypeOK`, `RoomToRead`, and `ImplementsLineSource` with the mapping
`lines <- parsed`. The invariant adds that `s` is where the last parsed line
ended, and that before a `read()` the buffer holds no newline and begins at `s`.

**DaemonProofs**, the replies (any lists of disks, any bytes, any separators;
`RepliesAssumption`: the bytes of a drive end in a NUL, the field of its name is
no shorter than what is cleaned, and on SATA it consists of words):

* `SameTemperature` for every temperature, from what division towards zero gives.
* `ModelIsName`: the bytes `FixString` keeps are just those of the name and the
  blanks between its words (`KeptAre`), where the field is cut off by a NUL or
  goes on in blanks; and as the name is shorter than what is cleaned, a NUL is
  behind it before `strdup()` gets to what was not cleaned (`CleanedIs`).
* `RepliesReadable`: the parts of the disks lie one behind the other
  (`FlattenIs`), each with five separators at places its model's length tells
  (`CellsIs`, `CellsApart`); numbered through, those places increase and are all
  there are (`BarsAre`).

That the model and the stream are what they were made as (`RepliesInv`) is all
the invariant has to say, for neither is written twice.

**CatalogProofs** (files of any length, of either byte order, with or without a
hash table, with any number of strings that depend on the system; any codesets,
sizes of strings and blocks, any number of look-ups and changes of the binding):
`FoundIffPresent`, `OwnCodeset`, `RegionsApart`. Assumed of the constants are
sizes that are positive and a first block that is a multiple of the alignment
(`SizesAssumption`), that no id is listed twice (`IdsAssumption`), that a string
has a length (`BytesAssumption`), and of a file what `msgfmt` writes (`Written`,
in `FilesAssumption`): ids in order, those expanded on this system different from
all others, a hash function whose probing reaches every slot of the table, and
more slots than strings.

* A look-up finds a message just if the file has it, because while messages are
  looked up the tables are those that loading the file gives (`LoadInv`). What
  those give is a matter of the data: `Holds` says that each string is in the
  first slot that was empty of those probed for it, which putting in another
  string preserves, and as one slot is always empty the search, which stops at
  the first empty one, ends (`ByHash`). Without a hash table the bisection keeps
  every string with the id between its two bounds (`SortedBisect`).
* The codeset is the binding's because a converter whose counter is the
  binding's was made for the binding's codeset (`ConvInv`): the counter only
  grows, and whatever sets the codeset moves it.
* A translation is in another codeset than the binding's just where the code
  cannot help it: there is no converter, the string cannot be converted, or the
  table or a block could not be had.
* Converted strings are apart because the free memory is the rest of its block,
  behind all that has been handed out of that block, and its size and place stay
  multiples of the alignment (`PoolInv`), also when a new block becomes the pool
  and nothing is put into it (`TriedPool`).

The module then proves about **GetText**, for any installed files, environments,
domains, directories, aliases and bounds: `ImplementsTranslations`, the
refinement, and `OwnCatalogs`. The hypotheses say where the names involved leave
no doubt, and TLC evaluates them for the installation of the run:

* `Ordinary`: an installed file that a name leads to is one of the variants of
  that name, and none is under a normalized codeset. Without it the first look-up
  of a locale finds what the second does not: that is what `locale_again` shows.
* `Unambiguous`: where the entry of one name has the path of another name too,
  its successors give the same translations. The list is searched for paths, so
  two names with one path share an entry, and the successors are those of the
  name that came first.
* `PlainNames` (for `OwnCatalogs`): what an alias stands for has no `/`, for
  `DCIGETTEXT` looks for one in the name before it is expanded.

`GetTextInv` is inductive. It has three parts that the properties do not mention:

* every entry of the list has an origin (`HasOrigin`): a directory, a name
  without `/` if the program has another's rights, a file, and a mask, of which
  the entry's path and its successors are what `_nl_make_l10nflist` makes. That
  an entry never changes but for being loaded is not enough: the origin is what
  tells that any later look-up that comes upon it goes through the right files;
* what an entry's `data` tells about its file is true (`ToldRight`), so that
  being loaded earlier, for another name, makes no difference;
* a known translation with the present counter is what some settings called for
  since the counter moved (`KnownRight`). Right for the settings of the moment
  would not be inductive: the environment changes without the counter.

That a search finds the best translation is shown for one name by the order of
the numbers the masks stand for (`SpecificOrder`, `TextIsBest`), which the
recursion of `_nl_make_l10nflist` goes through downwards, and for a list of
languages by what each round of the loop leaves (`Progress`). `OwnCatalogs`
follows from the origins: the parts of a name without `/` have none
(`PlainParts`), so that a path has just two behind the directory (`TwoSlashes`).
What it says is about slashes: a name of `..` is not told from others, by the
code or by the property.

**BasicLemmas** states induction over sets of numbers and existence and
uniqueness of a function defined by recursion, because the library's theorems
about them take an operator; the proofs above use both for the functions that
fill the hash table, bisect, find escaped quotes and put sequences together. It
also says where a number is in the ascending order of a set (`Ranked`).

**Only model-checked**: liveness (`Terminates`, `StopHonoured`,
`ClientsAnswered`, `LogsWhenQuiet`), since fairness and ENABLED are out of the
prover's reach; `RightForm`, whose reference reading of an expression
(`PluralMeaning`) is a RECURSIVE operator, and `NothingLeft`, which counts the
nodes of trees of any depth.

## What is not modelled

* The command line: sequential, and its results are constants of the modules.
* Text: the wording of messages, the listing of `--debug`, the degree sign
  (`utf8.c`), the bytes of SMART data but for the attribute.
* `backtrace.c`, which computes nothing.
* `intl/localealias.c` (a function in `GetText`), the `printf` replacements,
  `relocatable.c`, `log.c` and the wrappers, which are not used, or not
  configured, on a system whose libc has them; the tables of `localename.c` for
  other systems.
* Allocation failures in `l10nflist.c`, and the growth by `scsi.c:78`. Memory
  that runs out is modelled where the code ends or gives up for it.
* A connection that is gone again between `select()` and `accept()`. Linux keeps
  it in the queue; where a system removes it, `accept()` would block.
* The composition of `EventLoop` and `DiskCache`: they share no variable but
  the list of disks, which only `daemon_update` changes, and serving or logging
  is one step of the loop during which only time passes and signals come.
* Build files, translations and contributed scripts.

The hazards of `PROJECT.json` without a property are those of memory in this
list, and those where the code does go wrong, so that a property is stated of
the other cases only: a backslash at the end of a line, replies beyond `msg`, a
start with 0, 1 or 2 closed, the descriptor of a drive of unknown bus, and what
a catalogue leaves behind whose loading fails. The models have these cases.
