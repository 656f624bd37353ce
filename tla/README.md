# A TLA+ model of larbin

larbin is a web crawler written in C++: one thread that turns in a loop around
`poll`, with tables of sites, queues of urls in memory and on disk, an
asynchronous resolver (adns), and a few helper threads for limits and
statistics. This directory describes it in TLA+, checks the description with
TLC on small instances, and proves part of it with TLAPS for every instance.

    tlc -workers 2 -config MCShared.cfg MCCrawler.tla      # any run of the tables below
    tlapm CrawlerProofs.tla                                # any module of the table of proofs

`PROJECT.json` lists the components, the runs, a mutant of the code for each
checked property, the source lines each definition stands for (`map`), the
hazards of the code, the disagreements between code and documentation that
were met (`findings`), and the theorems.

Contents: 1 inventory, 2 modules and how they correspond to the code, 3 runs,
4 bounds, 5 fairness, 6 proofs, 7 what is not modelled, 8 plan.

## 1. Inventory

Paths are relative to `src/src/`. Everything in the first twelve rows runs in
the main thread; with `THREAD_OUTPUT` (off by default, `options.h:19`) the end
of a page runs in a thread of its own.

| component | state | operations | correct when |
|---|---|---|---|
| main loop, cron (`main.cxx`) | `now`, `readWait`, `readPriorityWait`, `remainBand`, `pollfds`, `ansPoll` | a turn: cron once a second, then input, sequencer, fetchDns, fetchOpen, checkAll, poll | it stops when, and only when, nothing is left; the waiting queues are read again |
| sequencer (`fetch/sequencer.cxx`) | `Interval inter` (`pos`), `space` | `canGetUrl`: one url from the first of four queues | at most `ramUrls` urls in the sites; never blocks on an empty queue |
| NamedSite (`fetch/site.cxx`) | a table of 20000 slots: name, port, DNS state, address, rules, ring of 63 urls, `nburls` | putGenericUrl, newQuery, dnsAns, robotsResult, transfer, newId | no url lost when hosts share a slot; one DNS query or robots.txt at a time per slot; the rules are those of the site |
| IPSite (`fetch/site.cxx`) | 10000 lists of urls, `lastAccess`, `okSites` | putUrl, getUrl, fetch | two pages of a server at least `waitDuration` apart; in `okSites` once |
| fetchOpen, fetchDns | `nbDnsCalls`, `IPUrl`, adns queries | submit queries, read answers, open connections | within their limits; never without a connection |
| fetch pipe (`fetch/fetch_pipe.cxx`) | `connexions`: state, socket, timeout, parser | checkAll, checkTimeout, pipeRead, pipeWrite, endOfFile | each connection ends once and is given back |
| page and robots.txt parser (`fetch/file.cxx`) | `html`, `robots` per connection | inputHeaders, parse, endInput, robots parser | each page reported once, with the right answer |
| checker, table of urls (`fetch/checker.cxx`, `hash_table.cxx`) | `seen`, a bit per hash | check, testSet, save | an url enters the crawl once; what a reload knows fits the queues |
| disk queues (`utils/persistent_fifo.cxx`) | `in`, `out`, `fin`, `fout`, two buffers, files `fifoNNNNNN` | put, tryGet, flush, change of file, reload | a queue; after a crash it continues as far as the files go |
| memory queues (`utils/*fifo.h`) | rings that double or not, with or without a condition | put, get, rePut | queues: nothing lost, doubled or put out of order when they wrap round or grow |
| input port (`io/input.cxx`) | a table of clients with their line buffers, `pollfds` | accept, readMore, parse `priority:`, `depth:`, `test:`, urls | the lines a client sent are taken, in order and once, however they arrive; its place is free again |
| output (`io/*output*.cxx`) | files and their index; counters; with THREAD_OUTPUT a ring and a thread | fetched, failed, recall | each page reported once and kept whole, and its connection given back |
| closing levels, limits (`utils/level.cxx`, `limit_*.cxx`) | `closeLevel`, `searchOn`, `webServerOn`; two threads, a SIGINT handler | closeLevelUp | the search ends when asked, then the webserver, then the program |
| web server, histograms (`utils/webserver.cxx`, `histogram.cxx`) | a thread, a request buffer; rings of intervals | read a request, choose a page; hit, print | the page asked for; the graphs show what was loaded |
| url normalisation (`utils/url.cxx`, `text.cxx`, `punycode.cxx`) | - | parse, normalize, fileNormalize, initOK, serialize, robotsMatch | equal urls have equal forms, and the form of an url is its own |
| specific search (`fetch/save_specific_buffer.cxx`) | a buffer per connection, files, one static file name | newSpec, pipeSpec, getContent | the output of a document is what arrived of it |
| duplicate pages (`hash_table` of tags) | a bit per page | testSet | a page whose letters are known gives no links |
| configuration (`global.cxx`) | options | parseFile | the same options whatever the order of the lines |
| adns (`src/adns`) | a vendored resolver: queries in queues, a UDP socket, a TCP connection | adns_submit, adns_check | each query is answered, once, in a bounded time |
| strings, vectors, debugging | buffers, counters | - | - |

**How they interact.** An url comes from a `startUrl` line, from a client or
from a page, goes through `check` into `URLsPriority` or `URLsDisk`, is taken
by the sequencer and put in the NamedSite its host hashes to
(`putGenericUrl`). If the site is resolved the url goes to an IPSite, if the
site is known to fail it ends, if the site is unknown it waits in the ring of
the site, and if the site already has too many urls the url goes to
`URLsPriorityWait` or `URLsDiskWait`, which the sequencer reads again in the
first half of every 300 seconds. fetchDns resolves the sites in `dnsSites`;
the answer either ends the urls of the ring (`dnsErr`) or starts the robots.txt
(`dnsOK`), whose end (`robotsResult`) moves the urls of the ring that have this
name and port to an IPSite. fetchOpen calls `IPSite::fetch`, which takes a
connection; checkAll and checkTimeout end it and report the url. All of that
is one call graph over shared global tables: `robotsResult` calls
`transfer`, which calls `putUrl`, which may call `fetch`, which may fail and
call itself, in the middle of the scan of a ring.

**What is hard here.**

- *Hosts that share a slot.* `namedSiteList` is indexed by a hash; a slot has
  one identity at a time but its ring mixes the urls of several hosts and
  ports, and urls already in an IPSite refer to the slot by the same hash
  after it has changed identity. Counters (`nburls`, the Interval,
  `namedUrl`, `debUrl`) are updated far from where the urls are.
- *Re-entrance.* `fetch` needs a free connection, changes `okSites` and
  `nburls`, and is called from scans, from the sequencer and from itself.
- *Time.* Delays per server, DNS answers that expire, waiting queues that are
  only opened half of the time, time outs of connections and of DNS queries
  that race the answer, an allowance of bytes that is spent before it is tested.
- *Pieces.* A page, a robots.txt, a request or the lines of a client may be cut at
  any byte, and each parser goes on from indices the call before left behind.
- *Two syntaxes.* An url that waits on disk is written and read again by other
  code than the code that took it from a page.
- *Crashes.* The disk queues and the table of urls are written at different
  moments and must fit each other when the program is started again.
- *Threads without locks* at the end of the program and, with THREAD_OUTPUT, at
  the end of a page.

## 2. Modules

### The crawl

| module | models |
|---|---|
| `CrawlBase` | constants with their assumptions, all variables, small tests (`Rested`, `Expired`, `TestRobots`) |
| `IPSite` | `putUrl`, `getUrl`, `fetch` in four steps: nothing to do, too early, connected, refused |
| `NamedSite` | `putGenericUrl`, `newQuery`, `dnsAns`, `dnsOK`, `dnsErr`, `robotsResult` and its scan, `forgetUrl` |
| `Crawler` | the turn of the main loop, cron, input, sequencer, fetchDns, fetchOpen, checkAll; the specification and the properties |
| `Politeness` | `Crawler` with clocks that measure from outside when a server was called |
| `SiteHistory` | `Crawler` with the history of a slot |
| `MCCrawler`, `MCPoliteness`, `MCSiteHistory` | instances |

Each handler of the program is one action unless it loops over a list or calls
itself. Then it is cut into steps, one per iteration or call, and `pc`, `ci` (the
connection checkAll is at), `parsing`, `scanSite`/`scanLeft` (a ring being scanned
and the urls left in that scan) and `fetching` (the IPSite whose `fetch` runs)
play the part of the call stack: the next step of the same handler is the only one
enabled. So the steps of one thread follow each other as in the program; nothing
interleaves that does not interleave there. What comes from outside is free: which
query adns answers first and with what, whether a connection succeeds, which links
a page has, what a robots.txt forbids, what clients submit, when a connection
ends, how many turns a second has.

Data is cut to what the properties tell apart. An url is a member of `Urls`,
one per hash class, because `seen` is a bit per hash; `HostOf`, `PortOf`,
`FileOf` and `SlotOf` say what it is made of. Times are relative and
stop where nothing depends on them any more: `clock` is `now % 300`, `idle[i]`
the seconds since `lastAccess` up to `waitDuration`, `dnsAge[s]` the seconds
since `newId`, `callIn` the seconds to `next_call`. `forbidden[s]` is the set of
files robots.txt forbids. `urlAddr[i]` holds for each url of an IPSite the address it
was given by `transfer`, which the code keeps in the url. `seen` is the hash table. `accepted` and `reported`
count how often an url entered the frontier and was reported; they stand for
the statistics `hashUrls` and `urls` split per url.

### The disk

| module | models |
|---|---|
| `DiskFifo` | `PersistentFifo` for one or several queues in one directory, and `hashTable::save`, cut at each change of the disk; crash, `--reload`, `--scratch` |
| `UrlQueue` | the abstract queue: put, get, and a restart that loses or repeats a bounded end |
| `DiskQueue` | the mapping of one queue of `DiskFifo` to `UrlQueue` |
| `Resume` | both queues of the program with the table, and the crawl around them reduced to take, put back and finish; what `URLsDiskWait` promises beside `URLsDisk` |
| `MCDiskFifo`, `MCResume` | instances |

`in`, `out`, `fin` and `fout` are the counters of the code. A file is a
sequence of urls; `outbuf` and what `in` has not reached yet are in memory.
A crash keeps the files and loses the rest. The scan for files by the
start of their name is modelled by `Match`: the names of `URLsDisk` are `fifo`
followed by six digits and those of `URLsDiskWait` are `fifowait` followed by
six digits (`types.h`), so a scan for `fifo` takes both (`NamesAssumption` of
`Resume`; in `MCDiskFifo` each queue finds its own files only).

### The end

| module | models |
|---|---|
| `Shutdown` | `closeLevelUp` for each of its callers, the two limit threads, the webserver thread and the main thread from its start to its exit |
| `MCShutdown` | instances |

Here the threads do interleave and nothing is locked, so each read and each write
of `searchOn`, `webServerOn` and `closeLevel` is an action; the option
`highLevelWebServer` is read from the configuration and stays. A signal is a
caller of its own because the system gives it to any thread; a second one can be
handled by another thread at the same time.

### Connections, names and pages

| module | models |
|---|---|
| `Transfer` | a connection between `getFds` and `endOfFile` (`fetch_pipe.cxx`): states, descriptor, bytes written and read, time out; `pollfds` and `ansPoll` indexed by descriptor; cron's `checkTimeout` and allowance, `waitBandwidth`; the kernel's side of each socket |
| `Resolver` | `adns_submit` and `adns_check` (`src/adns`): the queues of queries, retries over UDP, the one TCP connection, replies that are lost, late, repeated or truncated, time outs |
| `DnsService` | what `fetchDns` expects: a query is outstanding until its answer, which comes once. `Resolver` implements it (`Implements`) |
| `UrlForms` | the constructors of `url`, `normalize`, `fileNormalize`, `initOK`, the cookies and the line an url becomes in a queue, `robotsMatch` |
| `Pages` | the parsers `html` and `robots` fed with pieces, with redirections, links and BASE, the checker, the table of tags, the specific documents, and the disk queue of the urls found; a site whose DNS, connection or rules fail turns later urls away at once |
| `Punycode` | `punycode.cxx` on the bytes of a host |
| `MCTransfer`, `MCResolver`, `MCPages` | instances; `MCPages` also has the reference definition of punycode (the decoding of RFC 3492) |

`Transfer` keeps what the composition with the crawl needs of it: `Crawler` lets a
connection end at any moment with any result, which `Transfer` refines into what
can happen on the socket. The state of adns is one record `ads`, with the kernel's
side of its sockets, and each C function that changes it is an operator from one
such record to the set of records it may leave.
`Transfer` opens a page on any free connection; the code takes the head of the fifo
`freeConns`, which is one of them.

In `UrlForms` a text is a sequence of units: a slash, a dot, an escape, a name. In
`Pages` an answer is counted in halves of lines, tags and words, so that a piece
can end inside any of them; what a body holds is chosen when it is parsed, since
nothing looks at it before. The parsers are the functions from a connection and
the bytes so far to a connection, with `pos`, `posParse` and `area` of the code.

### What runs beside the crawl

| module | models |
|---|---|
| `Rings` | `Fifo`, `SyncFifo`, `ConstantSizedFifo` with their indices and their doubling |
| `FifoUse` | a doubling ring as `okSites` and `dnsSites` use it: put, get, `rePut` of what was current |
| `Output` | the end of a page, `endOfLoad`, the output thread and its two rings, the save, mirror and statistics outputs |
| `Specific` | `newSpec`, `pipeSpec`, `getContent` and the one static file name they share |
| `Histogram` | the rings of intervals per hour, minute and second |
| `Clients` | the table of clients, their buffers, `readMore`, `readline`, the order in which `input()` walks and swaps; a priority of -1 or -2, which `input()` takes for its own marks INIT and END |
| `WebServer` | the buffer of a request and its limit, a peer that is gone, the blank line, the page chosen |
| `Options` | `parseFile` option by option |
| `Services` | all of these together; they share no state, so a behaviour is one of one service |
| `MCServices` | the inputs of each for TLC |

### Proofs

`QueueLemmas` (operators on sequences and sums), `CrawlerProofs` (also of
`Politeness`), `ShutdownProofs`, `TransferProofs`, `ResolverProofs`, `DiskProofs`,
`RingProofs`, `PagesProofs`; see section 6.

## 3. Runs

### Runs that pass

| run | question and what holds |
|---|---|
| `shared_slot` (MCShared) | Two hosts, one with two ports, in one slot, with a client, links and limits low enough to use both waiting queues. `Conservation`: each url accepted is in one place or was reported, never lost or doubled. `Accounting`: `nburls` of each slot and the Interval, on which the limits and the memory bound rest, are exact, and the unsigned Interval does not wrap. `SiteToken`: a site is in `dnsSites`, or in the DNS, or getting robots.txt, or being failed, once; a site nobody will look at has no url. `ReadWaitBounded`: the sequencer never blocks on an empty waiting queue. |
| `shared_ip` (MCPoliteness) | Two slots whose hosts meet in one IPSite. `PageSpacing`: two pages of one address at least `waitDuration` apart, measured by clocks of their own. `IPSitesRight`: an IPSite is in `okSites` once if it has urls and not otherwise, each of its urls will be fetched from its address even if the slot changed, and the limits on them are kept. `ConnAccounting`, `FreeConnForFetch`: connections. `UrlObjectsExact`, `StopsOnlyWhenDone`: `debUrl` is exact, and cron stops only when nothing at all is left. |
| `liveness` (MCLiveness) | `EveryUrlReported` and `Ends`: every accepted url is reported and the crawl of a finite site stops by itself, through both waiting queues, with a host without an address. |
| `disk_fifo` (MCDiskFifo) | One queue with a crash before any change of the disk. `QueuePromise`: it refines `UrlQueue`. `LengthExact`: `getLength`, which cron and the sequencer rely on, is the number of urls it will give. `NeverStarved`: reading never meets a missing or short file. |
| `resume` (MCResume) | Both queues in one directory, the program stopped between two operations and reloaded. `WaitPromise`: `URLsDiskWait` keeps the promise of `UrlQueue` next to `URLsDisk`. `TableCovers`: the table on disk knows every url of the full files of both queues, and all that a reload would read of `URLsDiskWait`, so that no url of theirs is crawled a second time because a later page links to it. The urls of `stray` are left out: those a reload read from a file that was never full. They were seen after the last save of the table; a reload that gives `URLsDisk` a number too high for its last file reads them as if that file were full, and they may come to a full file of the other queue (`AllCovered`, below). |
| `shutdown` (MCShutdown) | Every caller of `closeLevelUp` at once, with and without the high level mode. `ServerOutlivesSearch`: in high level mode the webserver is never closed under a search that goes on. `LimitStops`: a limit that is reached ends the search. `LowServerEnds`: without the high level mode a webserver that started before anybody began to close ends with the search, and the program ends (one that starts later does not, `LowServerCloses` below). |
| `transfer` (MCTransfer) | Two connections that fetch a robots.txt and a page, peers that answer, refuse, stay silent, close or reset at any moment. `SocketsOwned`: every open socket belongs to one connection, and the tables of poll have room for it. `BandBound`: what is moved is limited by the time that passed, and exceeds it by one turn of the loop at most, although `remainBand` is tested before and spent after. `SilenceBounded`: a connection nothing comes from is dropped in time. `ConnectionsEnd`: every connection ends, also under a peer that trickles. `EndsOrWaits`: when nothing is left the search ends - or waits for ever in `waitBandwidth`, which ignores cron's answer while cron returns before the refill. |
| `resolver` (MCResolver) | Two queries, one with any replies. `Consistent`: what `check.c` asserts holds after every step. `AllAsked`: a query that ends by its time over UDP has asked every server. `LatencyBounded`: no query takes longer than its tries. `Implements`: each query is answered once. |
| `pages` (MCPages) | A submitted url, its robots.txt and two pages that may be cut anywhere, under three configurations. `PiecesDontMatter`: the result does not depend on where the pieces end. `LinksRight`: the links found are those of the whole tags, each resolved as its segments say. `QueueKeeps`: what is read from the disk queue is the url that was entered in the table, with the cookies of its host, if no submitted text holds a blank (a client may send one, `input.cxx:125`; see section 6). `RobotsObeyed`: no page is asked for that a well-formed robots.txt forbids, none refused that it allows. `PunycodeInverse`: the name sent to the resolver decodes to the name of the url (but for a last ASCII letter after a character of three bytes, which the conversion loses). |
| `services` (MCServices) | One service at a time. `RingsRight`: rings are queues, and each connection is free, crawling, left to the output or in its hands, once. `OutputsRight`: what was loaded is on the disk under its name and in the graph of its time. `InputsRight`: the lines of clients, requests and options are understood however they come in pieces or are ordered; a request is given up only for its method, or if its end could not be read. `Served`: each connection comes back from the output, each client that calls is served. |

`TypeOK` is checked where it is named in `PROJECT.json`, and as a part of
`SocketsOwned` and `Consistent`.

Where a property has an exception, the code has it, and the definition says so:
the mirror output loses a page whose path is a directory of another
(`mirror_user_output.cxx:94`), a client's last line without an end is dropped, the
graph of the seconds shows pages as successes (`histogram.cxx:79`; its heading,
line 156, promises "Success"), an option acts on what was read before it.

### Runs that find a disagreement

Each checks one property, taken from a comment, an assertion or the
documentation, and TLC finds a behaviour that violates it. `PROJECT.json`
quotes the line under `findings`.

| run | what happens |
|---|---|
| `ring` | `putPriorityUrlWait` admits one url more than the ring of a site holds, and the assertion of `putInFifo` stops the program |
| `reload_assert` | after a reload `URLsDisk` looks for a file it has deleted, because the files of `URLsDiskWait` have names that start alike; the assertion of `readLine` stops the program |

### Further configurations

These answer smaller questions. All but `MCStaleRules.cfg`, which is kept beside the
runs, are obtained from the configuration of a run by the change told, with the one
property named. The first passes, the others end in the violation of their property.

| configuration | change | property | what it shows |
|---|---|---|---|
| `MCPoliteness.cfg` | `UseProxy = TRUE`, `StartUrls <- MCStartOne`, `InputUrls = {u1}`, `InputTests = {FALSE}`, `LinkedUrls = {u2, u3}`, `MaxCopies = 2` | `PageSpacing` | holds per host behind a proxy too, where the IPSite is chosen by the slot and a client submits an url a second time with `test:0` |
| `MCPoliteness.cfg` | - | `CallSpacing` | robots.txt and the first page of a site are not `waitDuration` apart |
| `MCStaleRules.cfg` (module `MCSiteHistory`) | - | `RulesOfThisSite` | a slot taken over by a site without robots.txt keeps the rules of the previous site |
| `MCStaleRules.cfg` | - | `JustOneJump` | chains of CNAMEs are followed without end; `site.h:63` says "just one jump" |
| `MCShared.cfg` | - | `NamedUrlExact` | `namedUrl`, "urls in namedSites" (`debug.h:46`), drifts and wraps when two ports of a host share a slot |
| `MCResume.cfg` | - | `AllCovered` | a reload gives `URLsDisk` a number too high for its last file and reads an url from it that is in no table; the url is put back, and a full file of `URLsDiskWait` holds it |
| `MCReloadAssert.cfg` | - | `ReloadAccepted` | a queue whose urls were taken up to its last file cannot be reloaded |
| `MCReloadAssert.cfg` | - | `NothingForgotten` | urls in memory or in the last file are forgotten by a reload although the table has them as seen |
| `MCReloadAssert.cfg` | `CrashPoints <- AnyTime` | `TableNotLost` | a crash inside `hashTable::save` leaves the table in `hashtable.old`, which nothing reads |
| `MCShutdown.cfg` | `SPECIFICATION Spec`, `HighLevels = {TRUE}`, `Handlers = {}` | `HighServerStays` | two callers meet in `closeLevelUp` and the second closes the webserver of the high level mode |
| `MCTransfer.cfg` | - | `Connected` | the event of a socket that cron closed is taken for one of the connection that got its number; the write fails and is tried again |
| `MCPages.cfg` | `RobotsFiles <- MCRobotsGroup` | `GroupObeyed` | of a record for several agents only the last `User-agent` line counts (`doc/configure.md:71`) |
| `MCResolver.cfg` | - | `CnamesIgnored` | a second CNAME is an error of the query, not ignored as the comment of `reply.c` says |
| `MCShutdown.cfg` | `SPECIFICATION Spec` | `LowServerCloses` | a webserver thread that starts during the close stays on without the high level mode |
| `MCShutdown.cfg` | `SPECIFICATION Spec` | `ServerCanBeClosed` | two callers raise `closeLevel` past the level of the webserver, nothing can close it any more |
| `MCShutdown.cfg` | `EarlySignals = TRUE` | `SearchCanBeClosed` | a signal before `searchOn()` uses up the level of the search, which then cannot be closed |
| `MCResolver.cfg` | `Queries = {q1}`, `TcpTruncates = TRUE` | `LatencyBounded` | a truncated answer over TCP starts the query again, with all its tries |
| `MCPages.cfg` | - | `AnyName` | a name with a last ASCII letter after a Chinese one is changed (`doc/configure.md:69` promises such names) |
| `MCPages.cfg` | `Seeds <- MCAccent` | `NormalAccepted` | a file with a byte above 127 is normalised to one that `normalize` refuses |
| `Services.tla` | `InitSpecific({TRUE})` | `SpecificRead` | with THREAD_OUTPUT both threads build names in the one static buffer, and a document is read from the file of another |
| `MCServices.cfg` | - | `SuccessShown` | the second number of the graph of the seconds |

## 4. Bounds

- **Crawl.** Three urls, two or three hosts, one or two slots, one or two
  addresses, one or two connections, one or two DNS queries. The interesting cases
  need two hosts in a slot, two slots in an IPSite, and a third url that comes
  while the first two are under way; each run is built around one of these.
  `LimitUrl`, `LimitWait`, `LimitPrio`, `LimitPrioWait`, `RamUrls`, `MaxPerCall`
  are 2 to 4, so that each limit is reached. `Period = 2` makes each second open
  or close the waiting queues. `Gaps = {1}`: a second is never skipped (see
  Fairness); the theorems hold for every `Gaps`. `MaxCopies` bounds the
  submissions of one url with `test:0`.
- **Ring.** `MCRing` scales the limits 15, 10, 5, 1 on a ring of 64 down to 4, 3,
  2, 1 on a ring of 4.
- **Disk.** Two or three urls, files of two urls (100000 in the code), file
  numbers up to `MaxFile`: 2 in `resume`, which lets a queue pass a file that was not
  full at a stop and end the next one, 1 in `reload_assert`, where the assertion
  already fails; the urls fill and half fill files, and they circulate,
  so that files are passed, emptied and deleted. `disk_fifo` has a crash before
  any change of the disk, `resume` between two operations: a crash inside
  `hashTable::save` loses the table (`TableNotLost`, section 3) and with it
  `TableCovers`.
- **End.** One signal (the size of `Handlers`; the theorems hold for any number),
  each of the other callers once, which is as often as the code calls.
- **Connections.** Two connections, two descriptors and a table with room for the
  first, so that it grows and a descriptor is used again; one page and one
  robots.txt, so that a connection is opened in the turn in which another ends. A
  time out of one second with extensions of one, a limit of one byte a second
  against pieces of two: the allowance is overdrawn and refilled. `Horizon` stops
  the counting of bytes and seconds.
- **Names.** Two queries, two servers, two tries: retries go round the servers,
  both queries share the TCP connection. The second query is only truncated or
  answered, which is enough to have it in the stream when the connection breaks.
- **Pages.** Two pages, of at most 21 halves of a unit; bodies of at most two tags
  with every relative path of up to three of `/`, `.`, `x` and longer ones;
  robots.txt of up to two records; limits on the sizes of urls, pages and
  robots.txt small enough to be met. Names of up to four characters of one and
  three bytes in up to two labels.
- **Services.** Rings that start with two slots and double once or twice; three
  pages for two connections, file names of two binary digits, so that a directory
  is full; graphs of three intervals that wrap three times; three clients for two
  places (`MaxInput` counts the port too); buffers of eight bytes for clients; requests that fit a buffer of fifteen units, fill it, or are too long for it; every order of
  up to four lines of a configuration.

`UintRange` is the range where `namedUrl` wraps; `MaxJumps` bounds the CNAMEs a
query follows in `SiteHistory`.

Deadlock is checked in the runs of the crawl, the disk and the end. A crawl that
has stopped, or was aborted by an assertion, stutters in `Terminated`, a program
that has exited in `Done`. It is not checked in `transfer`, `resolver`, `pages`
and `services`, whose modules stop when what the instance gives them to do is
done; there the liveness properties say that they do not stop before.

## 5. Fairness

*Crawl (`liveness`).* Weak fairness of the whole step: the loop never blocks
(`poll` has a timeout of 10 ms). Strong fairness of `Cron`: seconds pass, and a
turn takes less than a second - the code gives no bound, and with longer turns the
seconds in which the waiting queues are opened can be missed; this is why `Gaps =
{1}`, and it is listed as a hazard. Strong fairness of the answer to each query:
adns ends every query, with an error after its own timeouts. Strong fairness of
the end of each connection: `checkTimeout` ends it when it is idle and
`maxPageSize` when it is not. Nothing is assumed about clients.

*End (`shutdown`).* Weak fairness per thread; a limit that is set
is reached some day; the webserver thread gets its socket or fails. No fairness
for signals, for the end of the urls, or for `accept`.

*Connections (`transfer`).* Weak fairness of the main thread, strong fairness of
`Second`: a turn in which the second has changed comes again and again. Nothing
about the peers and the network: a peer may be silent for ever, and
`ConnectionsEnd` holds because `checkTimeout` counts down.

*Names (`resolver`).* Weak fairness of the program, strong fairness of `Tick`.
They are used by no property of the run, which checks safety and the safety
refinement `Implements`. That every query is answered (`Answered`) holds on an
instance with one query; with two it is too large for TLC, and the run has
`LatencyBounded` instead, which bounds the ticks a query can take.

*Services.* Weak fairness of the output thread, of the end of each page (its time
out ends it) and of `input()`; a client that wants to call calls, and strong
fairness of what a client does next: it sends what it has and hangs up. A client
that does neither keeps its place for ever, since `input()` has no time out.

The other runs check safety and assume nothing.

## 6. Proofs

Proved by TLAPS for every value of the constants that satisfies the named
assumptions of `CrawlBase`, `Shutdown`, `Transfer`, `Resolver`, `DiskFifo`, `Resume`,
`FifoUse`, `Output` and `Pages`: any
number of urls, hosts, slots, connections and descriptors, any limits, gaps and time
outs, any servers, tries and replies of names, any size and number of files,
any size of ring, any answers, pages, rules and options. The tables of slots and IPSites are finite
(`TablesAssumption`), as those of the code are; `NamesAssumption` says which names of
files start alike.

| theorem | module | states |
|---|---|---|
| `TypeCorrect` | CrawlerProofs | `TypeOK` |
| `NeverBlocksOnWaitingQueue` | CrawlerProofs | `ReadWaitBounded` |
| `FetchHasConnection` | CrawlerProofs | `FreeConnForFetch` |
| `ConnectionsKept` | CrawlerProofs | `ConnAccounting` |
| `SitesUnderWayOnce` | CrawlerProofs | `SiteToken` |
| `NoUrlLost` | CrawlerProofs | `Conservation` |
| `LimitsExact` | CrawlerProofs | `Accounting` |
| `UrlObjectsCounted` | CrawlerProofs | `UrlObjectsExact` |
| `OnlyPriorityWaitFills` | CrawlerProofs | the assertion of `putInFifo` fails in `putPriorityUrlWait` only, if the other limits are above 1 |
| `IPSitesKept` | CrawlerProofs | `IPSitesRight` |
| `StopsWhenDone` | CrawlerProofs | `StopsOnlyWhenDone` |
| `PagesSpaced` | CrawlerProofs | `PageSpacing`, of the crawl with its clocks |
| `TypeCorrect` | ShutdownProofs | `TypeOK`, if no signal comes before `searchOn` |
| `SearchEndsFirst` | ShutdownProofs | `ServerOutlivesSearch`, under the same assumption |
| `SocketsMatch` | TransferProofs | `SocketsOwned` |
| `BandwidthKept` | TransferProofs | `BandBound` |
| `SilentDropped` | TransferProofs | `SilenceBounded` |
| `ResolverConsistent` | ResolverProofs | `Consistent` |
| `ResolverAsksAll` | ResolverProofs | `AllAsked` |
| `ResolverBounded` | ResolverProofs | `LatencyBounded`, if servers do not truncate over TCP |
| `ResolverImplements` | ResolverProofs | `Implements`: `Resolver` refines `DnsService` |
| `QueuesRight`, `QueuesRightInUse` | DiskProofs | the invariant `DiskInv` of the queues on disk, alone and in the crawl that uses them |
| `StarvesNever` | DiskProofs | `NeverStarved`, if `NamesApart` |
| `LengthsExact` | DiskProofs | `LengthExact`, if `NamesApart` |
| `QueueKeepsPromise` | DiskProofs | `QueuePromise`: a queue refines `UrlQueue` if it is `Alone`, with a crash before any change of the disk |
| `WaitKeepsPromise` | DiskProofs | `WaitPromise`: `URLsDiskWait` refines `UrlQueue` beside `URLsDisk`, with a crash before any change of the disk |
| `TableKnows` | DiskProofs | `TableCovers`, if the program can be reloaded and is stopped between two operations only |
| `RingsKept` | RingProofs | `RingsRight`: rings are queues, connections and their reports are kept |
| `PiecesJoin` | PagesProofs | `PiecesDontMatter`: what a parser makes of a page does not depend on its pieces |
| `QueueComesBack` | PagesProofs | `QueueKeeps`: what waits on disk comes back as the url of the table, if no submitted text holds a blank |

**Crawl.** The inductive invariant `IInv` is `TypeOK` and six parts. None of
the properties is inductive alone: `TypeOK` needs that queues are not empty
where the code takes their head without a test, which comes from
`ReadWaitBounded`, from `FreeConnForFetch` and from `SiteToken` (a site in
`dnsSites` has an url in its ring). `FreeConnForFetch` needs to know where
`fetch` is called from. Three parts are only there for the induction:
`ScanBounded` (a scan never has more urls left than the ring holds, which is
what lets it rotate the ring without a test), `Resolved` (a site whose urls go
to an IPSite has an address) and the part of `SiteToken` that ties the ring to
the token. The proof has one lemma per action, and under it one step per part
the action disturbs; `QueueLemmas` has the facts on `Append`, `Tail` and
injectivity that they share. `SiteToken` is the result with the longest proof:
it says that a site is never queried twice at a time and that no ring is left
behind, along the scans that rotate the ring while they move urls to IPSites
that may fetch at once.

**Counts.** The counters of the code are updated far from the urls they count, so
`Conservation`, `Accounting` and `UrlObjectsExact` say that a counter is a sum over
all places an url can be in. Their invariant is

    CInv == RingsSorted /\ CallsReturn /\ SpaceBounds
            /\ (pc # "aborted" => Conserved /\ Loads /\ Balanced /\ ObjectsCounted)

where `RingsSorted` says that a ring holds urls of its slot only, `CallsReturn` that
a halted program is in no call, and the four in the last line are the sums. They hold
until an assertion stops the program: the one of `putInFifo` ends it in the middle of
a transfer (run `ring`). The argument is one lemma, `OneMove`: a step takes at most
one url from one place to another, and each counter follows the place it counts. What
this does to a sum over the slots or the IPSites (`SumFunction`, a fold) is proved once
in `QueueLemmas`; the induction on their number is an argument of its own there, as
the library's theorems of induction cannot be used with these provers.

`putGenericUrl` tests `nburls` and fills the ring, so that there is room depends on
both. As `nburls` is exact, a limit above 1 leaves a place (`RoomInRing`): the limits
15, 10 and 5 of `putUrl`, `putUrlWait` and `putPriorityUrl` do, the 1 of
`putPriorityUrlWait` does not. `OnlyPriorityWaitFills` says that no other call ends in
the assertion, and `RingsNeverFull` that with 2 in its place none would; run `ring`
finds the assertion violated, and passes with `LimitPrioWait = 2`.

**IPSites.** `IPInv == IPSiteToken /\ HashRight /\ UrlsRight /\ Calls /\ Waiting /\
StopTested`. An IPSite is held once (`IPSiteToken`) while `transfer`, the callers of
`fetch` and `fetch` itself put it in `okSites` and take it out. That each url will be
fetched from an address of its IPSite (`UrlsRight`) needs that a slot in `doneDns` has
an address and its hash (`HashRight`), through every change of identity. `Calls` and
`Waiting` are the numbers of queries and of urls of IPSites, which bound both.
`StopTested` remembers the test of cron, two queues and `debUrl`; since `debUrl` is
exact, `StopsWhenDone` concludes that every other place is empty too.

**Politeness.** The clocks of `Politeness` measure from outside: `sincePage[v]` starts
when the page of a server is asked for. `PInv == IInv /\ CInv /\ IPInv /\ ClockTypes
/\ NotBehind`, and `NotBehind` is the argument: the IPSite all urls of a server wait
in is never longer idle than the server was left alone. `fetch` tests the first, so
the second has come to `waitDuration`. That the IPSite of an url is the one of its
server is `IPSitesKept`, also when the slot of the url has got another name or address
since; two servers may share an IPSite, which only makes the delay longer.

**Disk.** `DiskInv` says of each queue that the files between the one that is read and
the one that is written are full, that the last file and the buffer together hold what
`in` says, and that the place of reading is what `out` says, at each step of a change
of file. Its part about reading holds for a queue that is `Alone`: no other queue has
files whose names start with its name. `StarvesNever` and `LengthsExact` need this of
all queues (`NamesApart`). It holds in `MCDiskFifo`, and it fails for `URLsDisk`, whose
name starts that of `URLsDiskWait` (`types.h`), which is what `reload_assert` shows.
The refinement of `UrlQueue` is proved for a queue that is `Alone`
(`QueueKeepsPromise`, which uses no more of the names than `AloneAssumption`), and so
for `URLsDiskWait` beside `URLsDisk` (`WaitKeepsPromise`). The content of a queue is its
files joined and its buffer, cut at the place of reading; each step of `ResumeNext` is
one of a few views of it (nothing changed, an url at the end, an url taken, a restart),
and each view is a step of `UrlQueue` or a stutter. As the files are joined by a recursive
function, the proof works with the function that satisfies its equation, which
exists for every length.

`TableKnows` rests on `TableInv == DiskInv /\ HeldRight /\ Known /\ Written`: every
url of the queues and in memory is in `seen` or was read by a reload from a file that
was not full (`Known`), and outside the steps that end a file the table on disk
knows every full file (`Written`). The hypothesis on `CrashPoints` is needed: a crash
inside `hashTable::save` loses the table (`TableNotLost`, section 3).

**End.** `SearchFirst` says that a level is raised only after somebody saw the
search off or set it off, `NotBefore` that nobody is in `closeLevelUp` before
the search is on. The assumption is needed: with a signal before
`searchOn` the webserver can be closed under the search (`SearchCanBeClosed`,
section 3).

**Connections.** The inductive invariant is `Sockets /\ Spent /\ Debt`. `Sockets`
adds to `SocketsOwned` what its steps rest on: a connection that is not free has a
descriptor (`HasDescriptor`), one that is read has room in its buffer (`HasRoom`),
a socket holds at most one piece (`InPieces`), and the silence of a connection and
the time it has left are together at most `TimeoutPage + 1` (`Silence`), which is
how `checkTimeout` bounds a time that `pipeRead` keeps extending. `Spent` says
that what was moved and what is left are together no more than the seconds
allowed; a debt that the refill forgot would break it. `Debt` bounds from below
what is left: in `checkAll` by one move for each connection that had its turn,
elsewhere by one for each connection, and there is none where connections are
opened. The descriptor `getFds` gives out, the smallest one that is free, and the
largest piece exist by the well-foundedness of the naturals (`LeastOf`,
`GreatestOf`); the assumption that pieces are bounded is that of the buffer
(`maxPageSize`). The proof has one lemma for each step of the turn and one for the
kernel and the peers.

**Names.** Each C function of adns is an operator on the record `ads`, and one calls
the other while a query is between two queues. The invariant is therefore a
predicate `Right(R, O, E, N, T, low)` of any such record: what `check.c` asserts
holds but for the queries of `O`, which are in no queue, and those of `E`, which
wait for the connection and have yet to be sent; `N` were never submitted, `T` are
answered, and no timer that runs is below `low`. There is one lemma per function,
which says what it does to `O` and `E`: `Unlink` puts its query in `O`, `Done` and
`QuerySend` take it out, `tcp_connected` starts with all of `tcpw` in `E` and sends
them one by one, `BrokenEvents` is right again however many queries it ends. Between
two steps `O` and `E` are empty, so `RInv` is `Right` with the sets `N` and `T` of
the state and the least timer it allows (0 once `adns__timeouts` has come to its
end, -1 after a tick), and the socket test of `adns_processany`. Three parts are
there for the induction only: while the connection is not up each query that waits
for it has a try left (`Settled`), which is how `retries` stays within `NServers +
1`; and a server that was not asked is ahead of the next one by less than the tries
that are left (`Tried`), which gives `AllAsked`; and the age of a query and what is
left of its round (its timer, and the tries it has left over UDP) are together no
more than the end of that round (`Timely`). A query has three rounds at most: over
UDP, then at a canonical name or over TCP, then over TCP, since a second canonical
name is an error and `usevc` is never cleared. Time passes only when the timers have
been looked at, so a tick takes one from the timer for the one it adds to the age.
This gives `LatencyBounded`; the assumption that servers do not truncate over TCP is
needed, as the last table of section 3 shows, and `MaxAge`, at which `age` stops, is
above the bound. For `Implements`, `N` loses the query that is submitted, `T` gains
the one that is taken, and every other step keeps both.

**Rings.** `Crawler` takes the rings of the code for sequences; `RingsKept` says that
this is what they are, for every first size and any number of doublings and
connections. A ring holds a queue `s` if its table, read from `out` and wrapped round
its end, is `s` (`Holds`). An index runs past the end of the table once at most
(`ModOnce`), which turns each `%` into a case; a ring that doubles holds the same queue
since the part that had wrapped is moved behind the other. `rePut` gives back what was
taken last, for which the slot before `out` has to be free: `FifoInv` keeps a slot for
it. `ConnInv` says that the free connections, those in the pages, those in the hands of
either thread and those in the two rings are parts of `Conns`, so that a ring of
`NbConn + 1` slots, which does not test whether it is full, never is. `OrderInv` says
that the reports still to come are those of the connection in the hands of the output
thread and of its ring, in this order. These three together are inductive, and
`RingsInv` asks each of the service it is about. The array `global` fills at the start
is a recursive function (`Filled`), and the proof works with its equation.

**Pieces.** `html::inputHeaders` is called after each read and goes on from the state
it left, so that a line may be completed by any piece, and `pipeRead` sets its limits
after each. `PagesInv` says of a parser that reads (`Reading`) that it is the one which
would have got all its bytes at once, but for the length of the last piece, and of a
parser that wants no more (`HadEnough`) that it was so when it stopped. Two ideas carry
the step of a piece (`PieceJoins`). `ReadLines` is a recursive function, so both
parsers are sequences of states that follow the same equation (`Follows`), and if they
agree on what the reading of a line looks at (`Read` and `Asked`) where the earlier
pieces ended, they agree at every later line (`FollowAlike`). What they do not agree
on is `saved`, which the one in pieces has from its last call; it is overwritten in
the state `SPECIFIC`, and that state is never left. Lastly a whole page is parsed with
the rules of the site as they are now, so the invariant needs that neither the options
nor the site change while a page is read (`WholeKept`), and that the end of a page
reports no error `HadEnough` has (`EndIs`), an induction over the tags.
`PagesAssumption` says that a buffer holds more than nothing and that headers and
bodies are finite.

**Lines of the disk queue.** `url::serialize` puts a blank between the file and the
cookies and the constructor that reads the line takes the first one for it, so
`QueueKeeps` stands or falls with what a file may hold. `KeepsInv` adds two parts to
`PagesInv`. `QueueOK`: each waiting line is read back as an url of `seen` whose file is
a file (`IsFile`: it begins with "/" and is made of `Units`, among which is no blank) and
whose cookies are names of its host; with `lockSite` all of `seen` is of one host.
`FetchOK`: the page that is read was asked for such an url, of a host of `seen`. The
step follows the code. `WalkKeeps`, over the cases of `fileNormalize`, and `NormalForm`, an
induction over its steps, show that a file is refused or becomes a file, since what the
walk has passed begins with "/" as soon as it holds anything, and `..` takes it back to a
slash at least. `LinkIs` follows the constructors of `url`, `InitOKIs` and `CookieIs` the
cookies, which a link takes along to its own host only. `WholeGood` goes over the lines of a
header and `HtmlGood` over the tags of a body: all that is offered is such an url
(`Good`), and only those of the host of the page if the site is locked. `WholeGood` needs
`PagesInv`: a parser that is given its bytes in pieces is not known to be good unless it is
the one that has them all, which never meets a header before the line of the answer.
Lastly `ReloadIs` splits the line where it was joined (`SplitsAt`).
`UnitsAssumption` says that the texts of locations and tags are made of `Units`, which the
code justifies (`parseHeader30X` and `parseContent` end a text at a blank). Nothing does so
for the text a client submits: `QueueComesBack` has `Seeds \subseteq Seq(Units)` as a
hypothesis, which `MCPages` satisfies.

**Only model-checked.** Liveness under fairness, which is out of the prover's reach;
what the parsers, `robotsMatch` and `punycode` compute in
comparison with a reference definition (`LinksRight`, `RobotsObeyed`,
`PunycodeInverse`), which relates folds and recursive functions over sequences to
other ones and would need an induction over data, as would what the clients, the
requests and the options are read as (`InputsRight`); and the files and the graphs of the services
(`OutputsRight`), whose sums are folds over sequences and whose names of files are made
of digits.

## 7. Not modelled

- The characters inside a unit: how a header line, a tag or a word is recognised,
  entities, upper and lower case but for hosts; the wording of what the outputs
  and the webserver write. Hence these readings of the code are in no property:
  the index `posParse[i]` in `parseTag` (`file.cxx:712`), `%2e` and `/..#x`, which
  are not resolved as parent directories, and words such as `Allow:` after a
  `Disallow`, which are taken for rules (`file.cxx:217-237`).
- Contents of a class of the table of tags: `hashDup` looks at letters only, and a
  specific document is hashed by its last piece (`file.cxx:584`); in `Pages`
  different bodies never share a class.
- The parsing of DNS packets, of `resolv.conf`, search lists, other record types
  and the synchronous calls of adns; larbin reaches none of the last three.
- The webserver walks live rings and tables from its own thread without a lock
  (`webserver.cxx:774`, `813`), and is held by one client that does not end its
  request (`webserver.cxx:912`); its pages are layout.
- With THREAD_OUTPUT the statistics shared by the two threads are taken as if an
  increment were one step.
- `getContent` loops if its file cannot be opened: failures of the disk (full,
  refused, writes lost by the operating system) are outside the model, a crash is
  that of the process. `--scratch` is one step.
- The array `answers` of statistics, and that it has 16 entries for 17 kinds of
  answer (`types.h:99`).
- `startUrl` lines that match the privileged extensions of specific search, in the
  crawl (`Options` has them); URL_TAGS and LINKS_INFO, which are off in
  `options.h`; the variants of specific search other than saving.
- The file of the table of tags; it is written as that of the urls is.
- Data races as undefined behaviour: the globals of the shutdown are plain
  variables, each access is taken as one step; the loops that read them call
  functions the compiler cannot see into, so they do read them again.

## 8. Plan

Done: crawl (`CrawlBase`, `IPSite`, `NamedSite`, `Crawler`, `Politeness`,
`SiteHistory`), disk (`DiskFifo`, `UrlQueue`, `DiskQueue`, `Resume`), end
(`Shutdown`), connections (`Transfer`), names (`Resolver`, `DnsService`), urls and
pages (`UrlForms`, `Pages`, `Punycode`), services (`Rings`, `FifoUse`, `Output`,
`Specific`, `Histogram`, `Clients`, `WebServer`, `Options`), and the theorems
above. What is left to prove is the composition of `Transfer` with `Crawler`: the
steps of a connection shown to implement the opening and the end of a page in the
crawl.
