# BRMO in TLA+

BRMO loads the Dutch base registers into databases. The registers reach it in
two ways, people watch and steer it through a third, and the system falls apart
accordingly:

* the **loader** (`brmo-loader`, driven by `brmo-service`): berichten (messages)
  of BRK, NHR, BRP, WOZ, ... are stored in a *staging* database, and from there
  transformed into the *RSGB* database;
* the **object loaders** (`bgt-loader`, `bag2-loader`): files with millions of
  objects are streamed straight into tables of their own, first as a *stand*
  (complete state), later as *mutaties* or deltas;
* the **web pages** (`brmo-service`, with Ext JS in the browser): grids that show
  tables of the staging database, refresh themselves, and let a user check rows and
  delete, transform, fetch or edit them.

The modules here model the state those parts keep and the steps they take, TLC
checks them on small instances, and TLAPS proves the theorems listed below for
every value of the constants. The Dutch names of the code are kept.

## Inventory

| Part | State | Operations | Hard because |
|---|---|---|---|
| Transformation (`RsgbProxy`, `StagingProxy.handleBerichtenByJob`, `BerichtPipelineThread`) | job table and bericht.status in staging, tables in the RSGB, queue and flags of the pipeline thread | `run`, `cleanJob`, select, read page by page, `handle`, `getQueue`/`put`, `removeJob`, `close` | two threads and two databases without a common transaction; a run can break off or the process can die between any two commits; order of berichten about one object |
| Staging load (`StagingProxy.loadBr`, `deleteByLaadProcesId`) | laadproces and bericht rows | load a file, skip duplicates, overwrite, delete a laadproces | autocommit: what one statement reads another thread changes before the next; uploads, services, scanners and the transformation work on the same rows; one bericht of a file fails |
| RSGB rows (`RsgbProxy.parseNewData`, `parseOldData`) | rows, archive rows, `brondocument`, `herkomst_metadata` | insert, archive, update, delete | comparison of old and new data |
| Table writer (`ObjectTableWriter` and its BGT and BAG2 subclasses) | queue, batches per table, one transaction, keys seen | `start`, `write`, worker, `endOfObjects`, `complete`, `abortWorkerThread` | two threads share one connection; deletes and inserts are batched separately; failures in either thread |
| BAG2 mutaties (`BAG2LoaderMain`, `BAG2MutatiesCommand`) | metadata table (gemeente codes, current technical date), tables | load stand files, apply mutatie files in order | data and metadata are committed separately; files missing from the sequence |
| Grids (`GridSelection.js`, `PagingSelectionPersistence.js`, `berichten.js`, `laadprocessen.js`, `nhr.js`) | store and pager, timer, selection of the screen and of all pages, edit, requests in flight, message and log windows | load, refresh, page, sort, filter, check rows, edit a status, delete, transform, fetch, open a log | one thread of callbacks over many answers: loads overtake each other, time out or fail; the table changes meanwhile; totals are estimates; two pieces of code decide which page to go to |
| BGT download (`DownloadCommand`, `BGTLoaderMain`, `BGTDatabase`) | metadata (delta id, feature types, options), a table per feature type | initial load, update by deltas | the files of a zip are committed one by one, the delta id after them, the options before them; deltas are kept for a month; what an object of a delta becomes depends on its type |
| HTTP reading (`ResumingInputStream`, `HttpStartRangeInputStreamProvider`, `HttpSeekableByteChannel`) | position, ETag | read, reconnect with a Range | the connection breaks anywhere; the file changes meanwhile |
| Automatic processes (`AutomatischProcesJob`, the `scanner` classes) | status, lastrun, log | scheduled or started by hand | status as a lock; exceptions on the way |
| GDS2 and afgiftenummers (`GDS2OphalenProces`, `AfgifteNummerScanner`) | laadprocessen, STAGING_MISSING placeholders | fetch, find gaps | retries, partial failure |
| NHR (`NHRJob`, `KVKMutatieserviceProcesRunner`, `nhr-loader`) | table nhr_inschrijving as a retry queue | fetch, back off, remove or reschedule | signals arriving during a fetch |
| Directory scanner, forwarding (`BRK2DirectoryScanner`, `BerichtDoorsturenProces`) | files, berichten | scan, archive, forward | a file or a bericht half processed |

What has no state of its own or belongs to another product is listed in
`PROJECT.json` as not modelled, with the reason (XML readers, the forms of the
web application, the StUF services, SQL and XSL of the data model, packaging).

## Modules

| Module | Models |
|---|---|
| `Transformatie` | abstract: what a transformation run promises |
| `BerichtPipeline` | the transformation in detail; implements `Transformatie` |
| `MCBerichtPipeline` | instances for TLC |
| `BerichtPipelineProofs` | theorems about `BerichtPipeline` |
| `BerichtPipelineDirectProofs` | theorems about `BerichtPipeline` without a pipeline thread, and what is left of one of them with it |
| `ObjectTableWriter` | writing a stream of BGT or BAG objects with two threads |
| `MCObjectTableWriter` | loads for TLC |
| `ObjectTableWriterProofs` | theorems about `ObjectTableWriter` |
| `BAG2Mutaties` | which BAG files are loaded when, and the technical date that is kept of it |
| `MCBAG2Mutaties` | files and register for TLC |
| `BAG2MutatiesProofs` | theorems about `BAG2Mutaties` |
| `StagingLoad` | loading files into staging next to the transformation and deletions |
| `MCStagingLoad` | files for TLC |
| `StagingLoadProofs` | theorems about `StagingLoad`: what RSGB_OK says of the RSGB |
| `StagingVolledigProofs` | theorems about `StagingLoad`: what the status of a laadproces says of its file |
| `GridSelectie` | a page with a grid in the browser, and the requests it sends to the server |
| `MCGridSelectie` | tables and pages for TLC |
| `GridSelectieProofs` | theorems about `GridSelectie` |
| `BGTDeltas` | the commands that load the BGT and follow it by daily deltas |
| `MCBGTDeltas` | loads for TLC |
| `BGTDeltasProofs` | theorems about `BGTDeltas` |

### BerichtPipeline

A bericht is its place in the processing order (datum, volgordenummer): berichten
of one object never tie. `status` and `job` are in staging, `rsgb[o]` is the
bericht whose data object `o` has in the RSGB. There are three actors:

* the run thread: `StartRun`/`WeigerRun` (cleanJob, the check of
  `setWaitingStatus`, the selection), `Query` and the `Rij...` actions
  (one page of the job table), `GetQueue` and `Put`, `RemoveJob`,
  `StopWhenQueueEmpty`, `Join`, `Afbreken` (the exception's way out), `Close`;
* the pipeline thread: `Poll` and `Check` are apart, because the flags are read
  after `poll()` has returned;
* one call of `handle`, by either thread: `HandleLees` (transform, old bericht,
  what is to be done), `HandleCommit` or `HandleFout`, and then `HandleStatus`, the
  status update in the other database. A call of the pipeline thread can outlive
  its run (`Afbreken` does not wait): `close()` closes its RSGB connections, the
  staging proxy opens a new one, so `Achterblijver` still writes a status.

`Crash` may happen anywhere; `inst.stagingFout` lets a status update be swallowed
(`updateProcessingResult` only logs). `inst.stop` is "an error ends the run".

Modelled is mutatie processing (`orderBerichten`). Left out: stand processing,
`FOR_UPDATE` runs, `renewConnectionAfterCommit`, berichten with the same datum and
volgordenummer, and the SQL that stores one bericht (one effect per bericht).
`BY_LAADPROCES` selects like a special case of `BY_IDS`. Two runs at the same time
on the one job table are not modelled. The flags of the pipeline thread are plain
fields; they are modelled as sequentially consistent.

### ObjectTableWriter

A row is its table (the object's own, or that of its one-to-many and array
attributes), its key and the object it came from; `tx` is what the transaction in
progress sees, `db` what is committed. The main thread is `Start`, `Lees` (prepare
the table, delete the previous version, skip duplicates), `Controle` and `Offer`
(the offer loop), `EindeObjecten`, `Join`, `Wissen`, `Voltooien`, `Commit`, and after an
exception `Fout`, `AbortPut`, `AbortJoin`. The worker is `Take`, `DrainTo`, `Verwerk`.
A failing batch puts the transaction in PostgreSQL's failed state (`stuk`): nothing
but a rollback works, and the driver raises an exception on commit. For BAG mutaties
the batch size is 1 and the main thread writes, with the worker idle, exactly as
`BAG2LoaderMain` sets it up after `start()`.

Left out: creation of tables, keys and indexes, `objectLimit`, progress, column
conversion (it works or it fails). The abort of the BAG loader happens in two nested
catch blocks; the second one finds nothing to do and is not a step of the model.

### BAG2Mutaties

`Historie[k]` is the history of a key in the register: the days on which it was added
and changed. A stand of day d holds every key at `Versie(k, d)`, a file of mutaties
those between two days. `tabel[k]` is the version of the row in the database, `datum`,
`gemeenten` and `filter` are the metadata. A run (`Start`, with the list of files) loads a
stand (`KiesStand`, `LaadStand` per part, `StandGeladen`) or mutaties (`KiesMutaties`,
`PasToe`, `LaadMutaties` per part, `MutatiesGeladen`, again until `NietsToepasbaar`) and
applies the geometry filter (`GeoFilter`). One `LaadStand` or `LaadMutaties` is one
transaction of the table writer, whose inside is `ObjectTableWriter`; the metadata are a
later transaction. Exceptions of the code are actions of their own (`StandGeweigerd`,
`AndereDatum`, `GeenStand`, `Onvolledig`, `LaadMislukt`, `FilterMislukt`); `Storing` is
anything from outside, at any moment.

Left out: `--max-objects`, `--drop-if-exists`, downloading to a directory, and how the
filter follows references between objects (a key is in `Buiten` or not). Assumed of the
register: what a file says of a period does not depend on the file, and gemeente files
come per month (`Levering`, from a comment at `BAG2LoaderUtils.java:200`). DDL is taken to be transactional, as it is in PostgreSQL.

### StagingLoad

`laadproces` and `bericht` are the tables; ids are positions, a deleted row has status
"WEG". `lader[l]` is a thread inside `loadBr`: `Begin` (the check on name and date),
`WriteLaadProces`, per bericht `LeesKapot` or `Lees` (`getExistingBericht`), and then
`WriteBericht`, `WriteBerichtMislukt` (the unique index or the foreign key refuses it),
`UpdateBericht` or `SlaOver`, and `Sluit`, the status of the laadproces. The connection is
in autocommit, so each is a step and what `Lees` found may be old when it is used. The
transformation is reduced to the statements that touch the same rows. `StartRun` is
cleanJob: of what an earlier run left in the job table it removes the rows whose bericht
has an outcome. Then `VulJob` copies br_xml to the empty table, `Hervat` goes on with what
is in it, or there is nothing to do (`NietsTeDoen`). `LeesRij` reads a row, `SlaOp` stores
the copy, `UpdateStatus` or `Mislukt` writes the status, and `StatusNietGeschreven` is the
SQLException that is only logged. None of them touches the job table: a row stays until
`RemoveJob`, when all were read, and a run that breaks off before that (`RunAfgebroken`,
`Crash`) leaves all rows, handled or not. `RunKlaar` is the end after the join.
`deleteByLaadProcesId` is two statements (`VerwijderBerichten`, `VerwijderLaadProces`).
`Crash` may come between any two steps.

There are two ways in which a bericht gets RSGB_OK without its content in the RSGB. It is
overwritten while a copy is still to be handled; or it is overwritten after its copy was
handled, which makes it STAGING_OK again, and the run breaks off, so that cleanJob keeps
the outdated copy and the next run handles it. `overschreven` records both, the second
when the run breaks off.

In which order the transformation goes about its rows is `BerichtPipeline`; here any copy
may be next. A run that breaks off does not wait for its pipeline thread, and a call of
`handle` may go on for a while next to the following run; `BerichtPipeline` has these
stragglers, here no call outlives its run. Left out: the readers, `updateLaadProcesMeta`, the archive, and BRP, whose reader
looks up the previous bericht of a person. A load that dies leaves its laadproces
STAGING_OK and the file is refused from then on; that is a hazard in `PROJECT.json` and
outside `NietsVerzwegen`, which is about loads that came to their end.

### GridSelectie

`db` is the table on the server, a row being away, open or done; the rest is the browser,
which runs one callback at a time, so that a callback is an action. `pagina` says which
of the three pages it is: they share `GridSelection.js` and differ in their fields,
buttons and server.

* Loads: `aanvragen[s]` is a request of the store. The server answers in two statements,
  `ServerTelt` and `ServerLeest` (on nhr in the other order), and others may change the
  table in between. `LaadGoed` is the whole load listener with what Ext does around it:
  the timer, the total (of the answer, or the one kept in `maxResults`), the step to
  another page of the pager (`PagerDoel`) and of the listener (`TerugDoel`, four times in
  the life of the page), and `OnViewRefresh` of the plugin. `LaadFout` is a load that
  fails or answers with something else than JSON. Loads are never aborted: with two
  slots they overtake each other. When an answer leads to a load, that load takes the
  slot; when both the pager and the listener want one, one of the two is modelled.
* The refresh: `timer` counts the timeouts that are pending. Ext and the listener keep one
  handle; `Gewist` says what `clearTimeout` does to it.
* The selection: `gekozen` is the selection model of Ext (what is on the screen);
  `selection` and `selected` are the plugin's array and hash. Clicks, header, keys and the
  editor all end in `Kies`, which calls `OnRowSelect` and `OnRowDeselect`. A record is a
  row and a generation: on berichten and laadprocessen the id of the row makes the
  record, on nhr there is no id and Ext makes new ones with each load (`IdsVoor`).
* Editing: `BegintBewerken` (which stops the timer), `Bewaar`, `Annuleer`.
* Requests: `opdrachten[o]`, with `wacht` while somebody in the browser waits for the answer. The
  server handles their rows one by one (`ServerVerwerkt`); they fail half-way
  (`ServerMislukt`), or time out in the browser while the server goes on
  (`OpdrachtVerlopen`).
* Messages and logs: `SetMessage`, `SluitMelding`, `OpenLog`, `LogAntwoord`, `LogMislukt`.

What Ext does (`ext-all.js`, one line of generated code) is modelled as far as the
scripts rely on it: ids, pager, selection model, cell editing. Left out: layout and the
expand button, the buttons that only open another page, sorting by more than one
column, filters with several values (a filter is on or off), the upload of the NHR page, and
`clearPersistedSelection`, which nothing calls. How a transformation goes on the server
is `BerichtPipeline`; here it is a row that becomes done.

### BGTDeltas

`register[d]` is the BGT on day d: of one object per feature type, how many versions it has
had and whether the last is current. `Stand` gives its rows, `Was` and `Wordt` what the delta
of a day takes away and adds. `tabel` and `meta` are the copy; `tabellen` are the tables that
exist. A command runs from `pc = "rust"` to `Einde`, with the exit code of the program (or the
status of the process `BGTLoader`, which runs the same two commands):

* download initial: `Initial` (the metadata table, created or used as it is), `ZetTypen` and
  `ZetHistorie` (autocommitted: each is a step), `Extract`, `BestandInitial` per file,
  `KlaarInitial`;
* download update: `Update` (finding the delta id in the list of PDOK), and per delta
  `VraagDelta`, `BestandUpdate` per file and `KlaarDelta`;
* `Breekt`: a download or the database fails, or the process dies, between any two steps.

One `BestandInitial` or `BestandUpdate` is one call of `BGTObjectTableWriter.write`, one
transaction, whose inside is `ObjectTableWriter`. It fails on a key that is there already,
or without a table (`KanVullen`, `KanBijwerken`). `Labels` are the types with a collection
attribute, of which the parser makes several objects. `gemengd` remembers that an initial
load into existing tables was broken off.

Assumed of PDOK: an extract is that of the latest delta and carries its id, a zip has a
file per feature type that was asked for, and the row of an ended version has another
gml id than the version had while it was current. Left out: `load` of a local file,
waiting for PDOK to make an extract, the geometry filter, linearizing, prefixes,
`--max-objects`, and how the zip is read over HTTP.

## Runs

Every bound is a constant of the configuration.

| Run | Shows | Bounds |
|---|---|---|
| `transform_direct` | without the pipeline thread: order (`VolgtBelofte`), restart (`HerstartMogelijk`, `NietsVergeten`), reporting (`FoutGemeld`), two databases (`StagingVolgtRsgb`), older data never come back (`NooitTerug`) | 3 berichten about 2 objects, pages of 2, 3 runs, 1 crash, every selection by id |
| `transform_pipeline` | with the pipeline thread: nothing in flight is lost (`InVlucht`), the order is kept, every run ends | 4 berichten, pages of 2, queue of 2, 2 runs, calls that outlive a run |
| `schrijver` | one or two threads, batches, deletes ahead of inserts: what is committed is what a single thread without batches would make (`SequentieelResultaat`), keys stay in place (`Integriteit`), nothing is lost between threads, an abort ends | batches and queue of 2, up to 6 objects in 2 files, four kinds of load, failing streams, objects and batches |
| `schrijver_vast` | finding: the main thread hangs on the queue of a dead worker | one stand of 4 objects |
| `bag2_mutaties` | the date never claims more than the tables hold (`NietsGemist`); without mishaps the tables are those of the date, filtered (`Actueel`), shared objects are there once (`GeenDubbel`, `GeenSleutelFout`); all files that apply are used (`Bijgewerkt`) | 2 gemeenten, 4 objects, 2 months, 15 lists of files, 4 runs, 2 mishaps |
| `bag2_opnieuw` | finding: after a run that broke off between data and date the next one is refused on keys, where `NietOntdubbeld` is not the cause | 3 runs (stand, broken run, retry), 1 mishap |
| `staging_laden` | RSGB_OK says that the content is in the RSGB, unless it was overwritten under an outdated copy (`VerwerktTenzijOverschreven`); what a laadproces without errors did not store was known already (`NietsVerzwegen`); a duplicate has nothing in staging (`DuplicaatBekend`) | 2 threads, 3 files, 2 laadprocessen, 2 runs, 1 deletion, 1 crash |
| `staging_overschreven` | finding: a bericht that is overwritten under its copy is called transformed | the same |
| `grid_selectie` | what the plugin keeps is consistent (`SelectieKlopt`), is what the screen shows (`VinkjesKloppen`), survives other pages (`VinkBlijft`) and is what is sent to the server (`AlleenGekozen`) | 3 rows on pages of 2, all three pages, 4 actions of the user, 1 load and 1 request in flight |
| `grid_verversen` | one timeout at a time (`EenTimer`), no silent stop (`NietStil`), no rest beyond the last page (`PaginaBestaat`), pager and listener come to rest (`KomtTotRust`), the table is shown in the end (`ToontTabel`) | 2 loads that may overtake each other, estimates of 0 and 4 for 3 rows, 1 action, 1 change by others, 1 failure |
| `bgt_deltas` | the delta id says where each table is (`TabelKlopt`), a command that succeeds leaves them all there (`SuccesIsActueel`), the daily update brings the copy up to date or an initial load is needed (`BijOfVast`) | 2 feature types, one a label, 4 days of which 3 deltas are kept, 2 initial loads of three kinds, 1 break |
| `bgt_label` | finding: an update leaves ended labels in a copy without history | the same |

Three berichten are enough for two about one object with another in between, for a
page that is full and one that is not, and for a failure with a bericht after it;
the fourth in `transform_pipeline` fills the queue, the thread's hands and leaves one
for the reader. Two or three runs let a run start over what two others left. In the
writer a queue of 2 fills up while the worker holds two more objects, and the loads
contain an object that changes twice in one file, one shared by two files, and one
that is deleted without a successor.

For the BAG four runs are a stand, two rounds of mutaties and a retry. The objects are one
that both gemeenten have in their stand, one they both get in the first month and that
changes in the same month, one of each alone, one of which lies outside the filter; in
the second month there is no toevoeging, so that a round can be repeated unnoticed.

For staging, one file has a key, a second an unreadable bericht, the same key and a
bericht without object_ref, the third is empty: two threads that insert the key, one
that overwrites what the other wrote, before, during and after a run, and a delete
before each. With two laadprocessen a file may be one of two about the key, or one that is
loaded again after its deletion; the second run finds what the first left. Threads are symmetric: no property names one.

For the grids, three rows on pages of two give a full page, one that is not, and
with one row less or more a last page that is empty or just full; four actions are two rows checked on
two pages with the way between them, or check, edit, uncheck and a button. Estimates of 0
and 4 make too few and too many pages of them. Six generations are more ids than the
selection can hold on to in four actions. The rows stay the same in `grid_selectie` but for
what its own requests do.

For the BGT, four days are a first extract, an update of two deltas and one of one, or a
delta id that PDOK no longer has; an object can begin, change and end in them. One break
leaves one of two files done; the second load replaces, or goes over, what the first and
its updates left. `Update` can always start when nothing runs, so deadlock is checked.

`CHECK_DEADLOCK FALSE` where the system may stop: a history ends when its bounds are used up, a
load when its files are read, `schrijver` includes the hang that `schrijver_vast` shows,
and a grid whose load failed reloads no more (`grid_verversen`). `grid_selectie` checks
deadlock: without failures the refreshing goes on for ever.

### Fairness

`FairSpec` of `BerichtPipeline` has weak fairness for the run thread, the pipeline
thread and the call of `handle`: they are Java threads which the scheduler keeps
running, `poll` waits one second at most, and database calls return. None for new runs,
arriving berichten, crashes, and calls left behind. `FairSpec` of `ObjectTableWriter`
has it for the two threads. That of `BAG2Mutaties` has it for the one thread of a run: it
waits for nobody, and a download that stops is a `Storing`, not silence. `EerlijkeSpec` of
`GridSelectie` has it for the server, which answers each request it gets, for answers
that arrive, and for timeouts, which the browser fires; none for the user, who need
not click, close an edit or read a log, none for the others and for failures. `Spec` of
`BGTDeltas` has it for a command that runs, which is one thread, and for starting the
update, which the loader's README puts in a daily cron job (line 347); none for initial
loads and days.

## Findings

All are in `PROJECT.json` with the line they contradict.

1. `endOfObjects` blocks on the queue of a dead worker (`ObjectTableWriter.java:583`).
2. After a break between the objects of a period and its date, every retry fails on
   primary keys (`BAG2LoaderMain.java:394`).
3. A bericht that is overwritten while its copy in the job is still to be handled becomes
   RSGB_OK with content that was never transformed (`StagingProxy.java:928`). A restart
   does the same to one that was overwritten after its copy was handled
   (`StagingProxy.java:244`).
4. Objects with a collection attribute lose their mutation status in the parser: an
   update leaves the ended version of a label in the table (`BGTObjectStreamer.java:330`).

`GeenSleutelFout` has one exception, `NietOntdubbeld`: duplicates are looked for when the
database has more than one gemeente (`BAG2LoaderMain.java:386`). When it has one and the
mutaties come as a file of more gemeenten, or the same file is given twice, an object that
both parts add is refused, as the run without the exception shows.

Some properties hold without the pipeline thread and not with it, and are checked only
where they hold: `HerstartMogelijk` (`handleBerichtenByJob` empties the job table before the
thread has finished, `StagingProxy.java:512`) and `FoutGemeld` (an exception in the thread
after the last row is never rethrown, `BerichtPipelineThread.java:90`), and `NooitTerug`. A call
of `handle` that outlived its run (`RsgbProxy.java:264`) writes its status when it comes to it. When
it has stored a newer bericht of an object, and records it only between the look-up and the
commit of an older one, two runs later, that older one was given `TOEPASSEN` and puts the old
data back. With two runs there is no such history, with three and berichten by
status there is: it came out of the proof, in which the plan of `handle` is kept by every
step but `Achterblijver`. `NooitTerugTijdig` proves that nothing else does it. The model also has
the histories in which the thread stops with a bericht in its queue, because `poll()`
returned before the reader's last `put()` (`BerichtPipelineThread.java:69`). `Bijgewerkt` is about
mutaties of the kind of the first file: those of the other kind are ignored
(`BAG2LoaderMain.java:319`), although the loader's README says that the order of the files
does not matter.

`SequentieelResultaat` excludes the histories in which a worker failed after the last
object was offered: `complete()` does not look at its exception and commits the file
without the objects the worker held.

`BijOfVast` names what stops the updates of the BGT until somebody loads it anew. An update that
broke off between two files inserts, on every retry, rows that it already has
(`DownloadCommand.java:281`); `BGTLoader` retries it after an error ("opnieuw proberen",
`BGTLoader.java:83`). A feature type without objects in the extract has no table
(`BGTLoaderMain.java:170`). And an initial load in a new schema that broke off is
refused the next time, because its metadata table exists, unless tables may be dropped, an
option that `BGTLoader` does not set (`BGTLoader.java:112`). `TabelKlopt` and
`SuccesIsActueel` leave out the copy on which an initial load without new schema broke
off: it has the old delta id, the new feature types, and tables of both
(`DownloadCommand.java:126`).

Of the grids nothing is claimed where the code does otherwise: from an empty page the load
listener goes to page `total / pageSize`, which can be that same page when the total is an
estimate, four times, and then never again (`GridSelection.js:124`); the records of the NHR
page have no id, so every load, each minute too, unchecks all rows (`nhr.js:26`); the total that an incomplete
page leaves in `maxResults` outlives the filter it was counted with, and rows beyond it have no
page (`GridSelection.js:131`); after "auto refresh functie gestopt" a timeout that was
pending still reloads (`GridSelection.js:89`); rows that were deleted stay in the kept selection
and are sent again (`GridSelection.js:194`).

## Proofs

`BerichtPipelineProofs` proves for every number of berichten, page size, queue
capacity, number of runs and of crashes, under `PipelineAannames`:

* `Types`: `Spec => []TypeOK`;
* `Invariant`: `Spec => []Inv`, the inductive invariant. `TypeOK /\ InVlucht` is not
  inductive; what is needed besides is in four named parts. `Rollen`: which thread owns
  the call of `handle` and when the pipeline thread can exist. `Lezer`: every row of
  the run up to `lastJid` was tried, queued or is in hand, the rest of the page lies
  after it. `Vlucht`: queue, unit and call are in the order of the berichten and without
  duplicates. `Fouten`: nothing in flight is newer than a failure unless the abort flag
  is up, so nothing of it will be stored;
* `NietsVerloren`: `Spec => []InVlucht`;
* `ImplementeertBelofte`: `Spec => VolgtBelofte`, the refinement of `Transformatie`:
  initial states map to initial states (`BelofteInit`), and each step to a step or a
  stutter (`BelofteStap`, which needs `OudsteEerst`: a call that may commit holds the
  oldest bericht left);
* `LezerKanVerder`: `Spec => []NietVergeefs`, the part of `RunEindigt` that is about states:
  a reader that waits in `put` on a full queue has a thread that will poll it, and one that
  joins the thread has told it to stop. The hard case is a thread that was just
  told to abort: it polls once more before it looks at the flag, and until the reader sees the
  exception at most one row is on its way, since the next one goes through `getQueue()`
  (`Wachten`).

`BerichtPipelineDirectProofs` builds on that, under the same assumptions, for runs without
a pipeline thread (some of these fail with one, see the findings):

* `DirectStagingVolgtRsgb`, `DirectNietsVergeten`, `DirectFoutGemeld`:
  `Spec => [](~inst.pipeline => P)` for each of the three properties;
* `DirectHerstart`, `DirectNooitTerug`: the action properties, when no history has a
  pipeline;
* `NooitTerugTijdig`: `Spec /\ [][Tijdig]_vars => NooitTerug`, with a pipeline thread or without.
  `Tijdig` says that no call that outlived its run records a newer bericht of the object in
  hand after `getOldBericht` looked. The code does not see to that (see the findings), so this is no
  assumption about it: the theorem says that this is the only way in which the property fails;
* `DirectInvariant`: `Spec => [](Direct => DirectInv)`, on which all rest. `Telling`: the
  number of rows up to `lastJid` is `offset + processed`, so that the comparison with the
  total cannot end a run early, or leave its last page (`AllesGeprobeerd`); it is right
  because no row of the run lies between two rows read one after the other (`Lezer`).
  `Jobtabel`: the table is that of the run until then. `Bijgehouden`: in what order a row
  is committed, its status written and the table emptied. `PlanKlopt`: the plan made at the
  start of `handle` still holds at the commit, because no other thread writes a status
  RSGB_OK in between; `PlanBetekenis` says what getOldBericht compared with.

`StagingLoadProofs` proves for any files, any number of threads, laadprocessen, runs,
deletions and crashes, under `StagingAannames`:

* `Types`: `Spec => []TypeOK`;
* `VerwerktStaatInRsgb`: `Spec => []VerwerktTenzijOverschreven`;
* `Invariant`: `Spec => []Inv`, on which both rest. That a row is RSGB_OK only with its
  content in the RSGB depends on what a run does to other rows, and a run may find in the
  job table what an earlier one handled already. Storing a copy
  could replace what another row with the same key stands for. It does not, because the
  keys of existing rows are unique (`Uniek`), there is one copy per key (`JobRijen`,
  `JobUniek`), no other row with that key is handled meanwhile (`JobActueel`, which a
  deletion and a new load could threaten), and the row itself has no outcome while a run
  still has its copy to handle (`Open`, which cleanJob restores in a table with handled
  copies). Such a copy is that of its row unless the row was overwritten (`Kopie`, also of
  the rows a broken run left), and what is committed but not recorded is the copy in hand
  (`Vastgelegd`). `RunVorm` says which copies a run can have at each stage, `Laders` what a
  thread knows between its statements.

`StagingVolledigProofs` builds on that, under the same assumptions:

* `AllesVerantwoord`: `Spec => []NietsVerzwegen`;
* `DuplicaatIsLeeg`: `Spec => []DuplicaatBekend`;
* `Boekhoudingen`: `Spec => []VInv`. Both properties speak of laadprocessen that were
  closed, and what is written in the books at that moment was gathered in many steps, with
  other threads and deletions in between. `Boeken` is what a thread may rely on underway: its
  laadproces is that of its file and still open, the berichten up to where it is are
  accounted for unless it counted an error, no row has its laadproces unless it remembers
  having written one, and a row it found has the key it looked for. `EigenLaadproces` says
  that no other thread adds to it, `WegIsKwijt` that a deletion is remembered as such. The
  lemma `Stap` shows once, for all steps that neither open nor close a laadproces, that the
  books of everybody else stay right.

`GridSelectieProofs` proves for any table, page size, set of pages, number of loads and
requests in flight, actions, changes and failures, under `GridAannames`:

* `Types`: `Spec => []TypeOK`;
* `ArrayIsHash`, `SchermIsSelectie`, `SelectieOverleeft`, `AlleenGekozenRijen`: the
  four properties of `grid_selectie`. They rest on `Invariant`: `Spec => []Inv`. That only
  checked rows are sent needs more than that screen and plugin agree: unchecking a
  record must not take away a row that another record stands for. It does not, because the
  screen has one record per row and, on all pages but nhr, a row keeps its id (`Ids`);
  with that, what is checked, or kept, is what the user left checked (`Gevinkt`). The
  argument is short because of `Stappen`: a step leaves the selection, or is an answer
  to a load, or checks some rows of the screen and unchecks others (`Vinken`), whether it is a click, a
  header, a key or an edit;
* `HooguitEenTimer`, `NooitStil` and `BestaandePagina`: `EenTimer`, `NietStil` and
  `PaginaBestaat` are inductive with `TypeOK`.

`ObjectTableWriterProofs` proves for any batch size, loads and failures, under
`SchrijverAannames`:

* `Types`: `Spec => []TypeOK`, which says of the batches that none stays at its size
  unexecuted, and of the queue that it keeps its bound;
* `NietsVerloren`: `Spec => []NietsOvergeslagen`, for the BGT loader, whose writer is the one
  that deletes in batches. An object passes through the queue, the list of the worker, a
  batch and the transaction, and each step must leave it in one of them (`Overdracht`). The
  marker must come last, or the worker would end with objects behind it; that takes that
  the main thread is past the last object when it puts it, while `drainTo` moves it from
  queue to list. And what is in a batch or in the transaction must survive the delete
  batches, which are executed later than the objects they precede in the file:
  `WissenVeilig`, from the assumption that a BGT file holds no version that it also deletes
  (`BGTObjectTableWriter.java:157`: "different versions still have a unique primary key
  value"; the deliverer of the files sees to it, nothing in the code checks it);
* `Invariant`: `Spec => []Inv`, the inductive invariant: the types, with every place in queue
  and list one of the file in hand (`Voortgang`), and `Overdracht`;
* `BestandIneens`: `Spec => BestandHeel`, the action property that a file of the BGT whose worker
  did not fail is in the database at once: `db'` is `db` (empty after the truncate of an initial
  load) without the rows the file replaces, and with all rows of the file; and that nothing
  but a commit changes `db`. It is what the next theorem says of the BGT, in closed form
  and file by file. Besides `Inv` it needs that at the commit nothing waits any more: where
  each thread is when queue and batches are empty (`Rust`), that a worker that does not fail ends
  behind the marker (`Levend`), and, from both sides, what the transaction holds while
  batches are underway (`Inhoud`);
* `Opeenvolging`: `Spec => []SequentieelResultaat`, for loads of every kind and any number of files:
  the database is what one thread would have made of the files that were committed, object by
  object and without batches. That thread is a recursive function of file and
  place; `Volledig` and the lemmas `ObjectNaObject` and `BestandNaBestand` give its one step,
  by well-founded recursion, and the proof follows it along with the main thread. The
  invariant is `ReeksInv`. `Som`: the transaction, with what waits in queue, list and batches and
  without what waits to be deleted, is what that thread has at this place. So a
  batch that is executed early or late changes nothing, provided that deletes and inserts
  may change places: `Wachtrij`, which rests on `WissenVeilig` for the BGT, the only one
  whose deletes wait. `Gelijkop`: both have seen the same keys and truncated the same
  tables. `Markering`: the worker ends behind the last object. `Vastgelegd`: what was
  committed before is what that thread had at the end of the file before. Of a stand of the BAG
  it is assumed that it holds no wijziging (`BAG2GMLMutatieGroepStream.java:363` makes each
  of its objects a toevoeging);
* `AfsluitenKan`: `Spec => []NietOpElkaar`, the part of `AbortEindigt` that is about states: the
  `put()` of `abortWorkerThread` finds room, since the queue was cleared and nothing is
  offered any more, and a worker that is joined has its marker in queue or list, or is
  gone (`Afsluiting`);
* `SleutelsSluiten`: `Spec => []Integriteit`, for mutaties of the BAG. That keys stay in place holds
  of each batch only because no batch is ever full before it is executed and the worker
  has no part in it (`Alleen`), and because the key of what is going to be inserted is
  free: every key comes from a row there was or an object read before, and what was added
  was seen (`Herkomst`). Of the files it is assumed that a wijziging keeps its key and
  that a toevoeging has a new one, or is a duplicate that is skipped; that the files which
  `BAG2LoaderMain` hands to the writer are so is `GeenSleutelFout` of `BAG2Mutaties`.

`BAG2MutatiesProofs` proves for any objects and history, files, order of files, gemeenten,
filter, number of runs and of mishaps, under `BAG2Aannames` (a history is in order of time,
a file covers at least a day and a gemeente, gemeente files come per month):

* `Types`: `Spec => []TypeOK`;
* `DatumKlopt`: `Spec => []NietsGemist`;
* `EenRijPerSleutel`: `Spec => []GeenDubbel`;
* `AllesToegepast`: `Spec => []Bijgewerkt`;
* `PreciesOpDatum`: `Spec => []Actueel`;
* `GeenSleutelBestaat`: `Spec => GeenSleutelFout`, the action property;
* `Invariant`: `Spec => []Inv`, on which the first four rest. The date is written once, for what many
  transactions put in the tables, so the invariant says how far a run is. `StandVolgorde`: the
  files before the one in hand were loaded and have the date of the first. `StandInhoud`:
  with that date, what was loaded or seen is in the table. `StandUniek`: who has a row was
  seen, or no second part can have it. `Ronde`: the files of a round start at the date
  and cover the gemeenten, and what was loaded of them is at the date they end, which is
  the same for all. `NietsOver`: when the filter is applied no file is left. What counting
  the history gives is in `VersieMonotoon`, `LaatsteIsActueel` and `GeenMutatie`. That a
  set of indexes has a greatest element (`GrootsteBestaat`) is taken from the well-founded order of
  the naturals, since induction itself is out of reach.

  `Inv` says what the tables hold at least. The last two properties need what they hold at
  most, `Grens`: that a row is newer than the date only when it was loaded since the date was
  written and no run broke off meanwhile (`Bovengrens`), that an object added in this round
  was seen where duplicates are looked for (`Ontdubbeld`), that a run which ended well left
  nothing outside the filter (`Schoon`), and when a run is between data and metadata
  (`Losheid`).

`BGTDeltasProofs` proves for any feature types, labels, options, register and number of
loads, days and breaks, under `BGTAannames`:

* `Types`: `Spec => []TypeOK`;
* `DeltaIdKlopt`: `Spec => []TabelKlopt`;
* `SuccesKlopt`: `Spec => SuccesIsActueel`;
* `Invariant`: `Spec => []Inv`, on which they rest. `Typering` adds to the types which day
  a command is loading; `Opdracht`, that its options are those in the metadata;
  `Tabellen`, that of the files that are done the table has the day being loaded. A file
  without objects is passed over, also when its table has rows of an earlier load; that
  this is harmless needs `Blijvend`: an object that has been there stays in the register,
  so a table with rows has a file with objects. A table that is one day ahead stays so
  when the delta is loaded again (`DeltaKlopt`).

Model-checked only: liveness under fairness, which is out of the prover's reach: `RunEindigt`,
`AbortEindigt`, `KomtTotRust`, `ToontTabel`, `BijOfVast`. Of the first two the part that is about states is
proved (`LezerKanVerder`, `AfsluitenKan`). Every other property of a passing run has a theorem; those
of the transformation that fail with a pipeline thread are checked and proved without one.

## Plan

In this order; each with its MC module, a passing run and mutants.

1. done: `Transformatie`, `BerichtPipeline`, `ObjectTableWriter`, `BAG2Mutaties`, `StagingLoad`,
   `GridSelectie`, `BGTDeltas`.
2. `GDS2Afgiftes`: `GDS2OphalenProces` and the directory scanners on top of staging,
   `AfgifteNummerScanner` with its STAGING_MISSING placeholders, the check of
   `BerichtTransformatieUitvoeren` on them, and forwarding (`BerichtDoorsturenProces`);
   abstract: every afgifte is in staging once, and no later one is transformed while one is
   missing. To look at: a retried download appends to the file (`GDS2OphalenProces.java:526`),
   an unreadable file is archived (`BRK2DirectoryScanner.java:308`).
3. `HttpLezen`: a resumed download yields the bytes of one version of the file;
   `HttpSeekableByteChannel` against a byte array as abstract specification. To look at: the sign of the number of bytes
   read (`ResumingInputStream.java:90`), a seek past the end (`HttpSeekableByteChannel.java:240`),
   an `IOException` that is swallowed (`BAG2LoaderMain.java:680`).
4. `Processen`: statuses of the automatic processes, `NHRJob` with
   `KVKMutatieserviceProcesRunner` on the table nhr_inschrijving. To look at: `NHRJob.java:188`,
   `AutomatischProcesJob.java:50`, `BerichtTransformatieUitvoeren.java:154`, and two runs of
   the transformation at once (`RsgbProxy.java:306`).
5. `RsgbRijen`: `parseNewData`/`parseOldData` as functions on rows against a reference
   definition. To look at: `RsgbProxy.java:1574`.
6. An abstract specification of a register that is followed by date, which both
   `BGTDeltas` and `BAG2Mutaties` implement.
7. Proofs: every safety property of the modules under 1 has its theorem; next are those of the
   later modules, and the refinements of 6.
