# Arrival Engine: TLA+ models, checks and proofs

This directory is the verification project of the Arrival Engine: the TLA+ modules
that model its code, the TLC configurations that check them on small instances, and
the TLAPS proofs of what matters most for every instance.  `PROJECT.json` is the
machine-readable index (components, runs, mutants, source map, hazards, findings,
theorems); this file explains it.  Paths are relative to the repository; the Python
package is `src/arrival/`.

To run something (in this directory): `tlc -workers 2 -config MCArrivalApp.cfg
MCArrivalApp`, `tlapm BuildPipelineProofs.tla`.

## 1. The system

The engine has two halves that meet only on disk.

* **Research, offline.** `python -m arrival build` goes through `data/roster.yaml` one
  person at a time: it asks the connectors for documents, asks a model which of them
  are about this very person, extracts cited facts and hubs (things two people can
  share), applies the taste rules, and writes `data/docs/{doc_id}.json` and then
  `data/dossiers/{person_id}.json`.
* **Arrival, online.** A FastAPI process reads the dossiers once, builds the interest
  graph, keeps who is in the building in memory, and answers each `POST /arrive` with a
  digest: whom to meet and why, what is new, one opener, numbered sources.

```
 roster.yaml --> research.build_all --> connectors --> http.client --> http.ratelimit
                     |      |                             |  cache
                     |      +--> resolve --> llm (budget) +--> .cache/http
                     |      +--> extract --> taste
                     v
              docs/*.json, dossiers/*.json
                     |
                     v
 web.store --> graph.build_graph      presence
     |               |                   |
     +------> web.app: /arrive --> graph.match --> digest.make_digest --> /digest/{id}
                                                       |
                                                       +--> llm, at most 2.5 s
```

Everything is asyncio on one thread: code between two `await`s is atomic, and every
`await` is a point where any other coroutine of the process may run.  That is the
grain of all models here: one action per stretch of code between awaits, one action
per file made visible by a rename.

### Inventory

| Component | State it keeps | Operations | What is hard | Correct means |
|---|---|---|---|---|
| Web app (`web/app.py`, `web/presence.py`) | presence (ordered dict), `digests`, `digest_order`, the lazy LLM client | arrive, leave, read pages, start | the LLM await in the middle of `/arrive`; eviction over two structures; restart | every accepted arrival is answered once; the newest digests are served; everybody in the room is introduced |
| Digest assembly (`digest.py`) | none; locals across one await | `make_digest` and its selectors | shared documents, caps, fallback when the model fails | every fact shown is displayable, cited and said once |
| Interest graph (`graph.py`) | the graph, rebuilt at start | `build_graph`, `match` | carriers who describe one hub differently; contested Wikidata ids | one node per real thing, names nobody may hear never spoken |
| Roster and dossier store (`research.load_roster`, `web/store.py`) | ids given to people; dossiers by id, index of ids and names | load the roster, load the files in their order, resolve a token | namesakes, names that are another's id | no two people have one id; every id reaches its own person |
| Build (`research.py`) | files on disk, report rows, exit code | build, skip, commit, fail | kill between two writes, reruns, one person failing | a dossier on disk is complete and honest; exit 0 is true |
| Model budget and client (`research._BudgetedClient`, `llm/client.py`) | used, refused, errors | metered call, one retry | concurrent callers around an await | never more spent than the budget; errors told apart from silence |
| Retrieval (`connectors/base.py`, `research._fan_out`) | none across calls | search every source, rank, interleave, cut | a source failing, one talkative source | one source's failure costs only its documents; no source that found something goes unread |
| Resolver (`resolve.py`) | verdicts, keys and support gathered while the documents are judged | judge, police the answer, veto, accept | concurrent verdicts, mislabelled evidence, documents that contradict the person | a person is resolved on two facts or one strong key, whatever the labels or the order |
| Extraction (`extract.py`) | facts, names and hub candidates gathered over batches | check quotes, number facts, merge hubs, fields, city | names of facts the model reuses or guesses; candidates that disagree | a fact quotes its own document, a hub stands on facts that are about it |
| Taste gate (`taste.py`) | rulings gathered over batches | rules, classifier, contradictions, what a page may show | the classifier failing or contradicting itself; a harmless clause beside another | silence withholds; nothing a rule excludes is ever shown |
| HTTP (`http/client.py`, `http/cache.py`) | `.cache/http/*.json` | fetch, read, write, expire | overlapping fetches, kill, expiry, failures | the answer to this very request; failures heal |
| Rate limiter (`http/ratelimit.py`) | one GCRA bucket per host | reserve, acquire | callers racing for one bucket | spacing, order, no idle waiting |
| The ten connectors (`connectors/*`), page text (`http/extract.py`) | none | search, parse | none: pure functions of a response | not modelled |
| Digest page (`web/render.digest_view`) | none | derive the facts of a remembered digest again and put quotes under its sources | two derivations of one thing: facts that read alike, namesakes, hubs that count for nothing | every number beside a sentence leads to a quote that backs it |
| Other views (`graph_view.py`, `corpus_graph.py`) | none | HTML and SVG | none: read-only | not modelled; what they may show is `IsDisplayable` and `Nameable` |

The hazards this leads to are listed, line by line, under `hazards` in `PROJECT.json`,
each with the properties that would catch it.

## 2. The modules

| Module | Models | Role |
|---|---|---|
| `Presence` | `web/presence.py` | the ordered dict, extended by `ArrivalApp` |
| `ArrivalApp` | `web/app.py` handlers, `match`'s rows, the Meet cap | the online process |
| `Reception` | nothing in the code | the abstract service `ArrivalApp` implements |
| `DigestPage` | `digest.make_digest` | what the digest shows and cites |
| `DigestView` | `web/render.digest_view` | what the page claims and quotes; extends `DigestPage` |
| `CorpusGraph` | `graph.build_graph` and its elections, what `match` may say | the graph the online process is started with |
| `BuildPipeline` | `research.build_command`, `build_all`, `build_dossier` | the offline process and the disk |
| `LlmBudget` | `_BudgetedClient`, `resolve._judge_all`, `AnthropicClient.structured` | one person's concurrent model calls |
| `Retrieval` | `connectors/base.py`, `research._fan_out` and what it calls | which documents are judged, and in which order |
| `Resolver` | `resolve.py` | composes `LlmBudget` and `Retrieval`: who a person is |
| `Extraction` | `extract.py` | facts and hubs out of the accepted documents |
| `TasteGate` | `taste.py` | which facts may be shown |
| `DossierBuild` | the second half of `research.build_dossier` | composes `Extraction` and `TasteGate` |
| `DossierStore` | `research.load_roster`, `web/store.py` | ids, file order and the index |
| `ServedRoster` | the start of the web process | composes `DossierStore` and `ArrivalApp` |
| `HttpFetch` | `http/client.fetch_record`, `http/cache` | concurrent fetches over the cache files |
| `RateLimiter` | `http/ratelimit` | GCRA over virtual time |
| `MC*` | | instances for TLC |
| `Picks` | Python's `sorted` and list comprehensions, as functions that can be proved about | used by `DigestPage`, `DigestView`, `CorpusGraph` |
| `SequenceLemmas` | nothing in the code | the lemmas the proofs share: least elements, folds, what lists are made of |
| `*Proofs` | | theorems, see section 5; `DigestProofs` is about the page and the interest graph |

### ArrivalApp, Presence, Reception

`POST /arrive` is two steps and an outcome.  `Arrive` is everything up to the await
inside `make_digest`: the person enters `present` *before* the match, and the rows of
the match are kept in the local `room`.  `LlmAnswers` and `LlmFailsOrTimesOut` end the
await; `Answer` is the rest: assemble, `_remember` (store, append, evict), redirect.
`Leave`, `ArriveOffRoster` (404 before any work) and `Restart` complete the process;
the GET pages change nothing and are left out.  The digest's content is abstracted to
what handlers depend on: for whom, whom it proposes, whose opener it has.

`Reception` is the promise without queues or event loop: whoever walks in is owed one
digest that introduces people they found inside; a digest, once written, stays as
written until forgotten.  `ServesReception` says that `ArrivalApp` implements it, under
the mapping in `Host`: inside is the key set of the presence dict, `owed` is read off
the requests that are at the await, `shown` is the digest table.

### DigestPage, DigestView

What `ArrivalApp` treats as one await is opened here: the selection of facts for every
section (`Select`), the model answering or failing, and the assembly of sources.  Facts
are records of exactly what the selectors compare; the sentence tests are a flag.
The Meet rows (`meet`) are inputs: the person proposed and, per shared hub, whether the
clamp left it any worth and which facts of the arriving person's dossier it leans on.
`opener` is the fact whose sentence the opener says, `quoted` the one `make_digest`
cites for it; they differ when the model repeats a prompted fact in the template's words.
`Quoted` are the facts whose sentences `make_digest` puts on the page, `Shown` these and
the one such a line of the model's says.
The selection is a pure algorithm, so this run enumerates dossiers rather than schedules.

`DigestView` is the page made of that later.  A digest holds sentences, not facts, so
`digest_view` derives a second time who the Who line quotes, what a row leans on and
which fact the opener says, and puts quotes under the sources by these (`PageClaims`,
`SourceEvidence`), while the numbers beside the sentences come from `Markers`.

### CorpusGraph

The process starts by loading dossiers (`Load`) and building the graph (`BuildGraph`);
nothing changes it afterwards.  The interest lies in the elections in between: carriers
list one hub under different types, labels, ids and Wikidata QIDs, and the graph must
make one node of it.  `Elect`, `ElectQid`, `AcronymAliases`, `CanonicalHubIds` and
`Nameable` are the functions of those names, over sets of occurrences (a person and a
hub they list).  A label is reduced to its slug, its initials and whether it is written
in capitals; evidence to whether any of it may be shown; the logarithm of the weight
to a falling difference.  `Why` is what the sentence of a match may cite, in order.

### BuildPipeline

One action per stage of one person, so that `Kill` can fall between any two: choosing or
skipping (`Skip`, `Build`), `Retrieve`, `Resolve`, `Extract`, the dead-model test
(`DeadModel`, `Commit`), one `WriteDoc` per document, `WriteDossier`, and `Raise` for an
exception anywhere.  `Start` is a new invocation with or without `--force` and `--only`
(any selection, in roster order); `Finish` sets the exit code.  `Lose` and `Damage` are
what may happen to files between runs.  A document's text is a version: the same URL
may read differently the next time it is fetched, which is what makes shared
`docs/{doc_id}.json` interesting.

A document whose id `_safe_segment` refuses is passed over and the dossier that cites it is
committed all the same (`RefuseDoc`, `research.py:995-997`); `Unsafe` are those ids.  What
a path made of such an id would name is abstracted to nothing, in the skip test too.
`before` is an observer: the disk as it was when the build of the person in hand began.

### LlmBudget, Retrieval, Resolver

`LlmBudget` is the coroutines of `_judge_all` behind their semaphore: a call is counted
before its await, refused when the cap is reached, retried once by the client inside the
same call, and counted as an error when it fails.  `requests` observes what is sent.

`Retrieval` says what `_fan_out` hands on when the sources have answered: `Envelope` is
one source (nothing raised, nothing twice, no more than asked), `Ranked` the display
priority, `FanOut` the interleaving that takes one document of each source in turn,
drops a URL already taken and stops at the cap.

`Resolver` runs both.  It starts with a person and the documents of `FanOut`; `Call` and
`GiveUp` are the budget's actions, `Judge` is the moment a reply is policed and kept
(`VerdictFrom`: a span the page does not hold turns it into `unsure`), and `Conclude` is
the pure second half, `Outcome`: details, vetoes, strong keys, the two-arm acceptance,
confidence.  A page is reduced to what the rules compare: which
phrases it says, which details it claims about its subject, its leading title, the filer
and host it names.  Phrases are model values; "another employer" and "another city" stand
for every phrase that contradicts the person.

### Extraction, TasteGate, DossierBuild

Texts are sequences of words, because every rule of this half is about a part of a text:
a quote that must be found in its document, a cue inside a clause, a label that must be
whole words.  `Collect` is what one batch and its answer add: facts whose quote is
verbatim, numbered per document; the model's own names for them, where a reused name
means none; hub candidates with their evidence, identity and city.  `HubsOf` merges the
candidates over all batches, keeps the fields it may (`SurplusFieldIds`) and adds the
city (`PlaceHubs`).  `TasteGate` is the rule layer
(`RuleVerdict`, clause by clause, with the whole cue tables of the source reduced to one
cue per pattern) and the classifier (`Absorb`: a verdict per id of this batch; silence,
contradiction and failure withhold).  `DossierBuild` is the process: `Extract` one batch
per model call, `StartTaste`, `Classify` one batch per call, `Assemble` with
`_supported_hubs`.

### DossierStore, ServedRoster

`LoadRoster` gives ids as `load_roster` does: the declared id or the slug of the name, a
namesake's extended by their first detail and then by the first number that
is free.  `FileBefore` is the order of `sorted(glob)` (`-` sorts
before `.`, so an id comes *after* the ids that extend it), and in `ResolveToken` every
dossier claims its id and its name over what was there.  `ServedRoster` gives the application its people and tokens
from there, so that one run asks both that every id reaches its owner and what happens
to the owner afterwards.

### HttpFetch

A request is a URL, a method, the headers that count and a body; the key of its cache file
is computed from all four (`RequestKey`).  `Hit` answers from that file, `Ask` goes to the
network.  `Respond` classifies what came and writes the record beside the cache file
(`temporary`); `Store` is the rename, `StoreFails` a write that cannot be done, and either
returns the record.  `Fail` is everything that ends in `None`.  `Raise` is the path without
a handler: content sniffing and text extraction run outside every `try`.  `Kill` ends
the fetches in flight, also between the write and the rename; between these two no other
fetch runs, for there is no await.

`Left` says what an earlier process may have left under a key: a torn file, a hand-written
fixture, a document stored before T-025 under the key of then (`OldKey`, the bare URL
where there was no body), a negative without an expiry, and a body that is no text stored
as a document before T-026 (`"refused"`: no version since answers with it).

### RateLimiter

`Reserve` is one call of `reserve()` (no await inside), `Send` the end of the sleep,
which may come late but not early.  Time is in ticks; `tat` is the bucket.

## 3. The runs

Every run ends in less than four minutes with two workers.  Deadlock checking is off
because each instance has a finite supply of requests, callers, documents or runs, after
which the system stops as it should.

| Run | Question | Bounds and why they are enough |
|---|---|---|
| `app` | Do eviction, presence order and introductions survive every interleaving, is everybody answered, does it all implement `Reception`, and does every id reach its owner? | 3 requests, 3 people, history of 2, Meet cap 1: eviction happens, two digests can be written in the other order than their arrivals, ties are broken by id; the people are Dana, another Dana of Acme and one called Dana Acme, so that one id has to be numbered; one token nobody answers to; no symmetry, since liveness is checked |
| `app_leavers` (violation) | Does a digest made after somebody left still propose them? | 2 requests, 3 people |
| `digest` | Is what is shown displayable and cited by its strongest evidence, and does every number on the page lead to a quote that backs the sentence beside it? | up to 4 facts of 15 shapes: every category, tie, missing date, over-long line and withheld fact meets every other, and facts may read alike; a fact alone of its document, which a line that repeats it leaves without a source, among them; 3 sets of Meet rows: nobody, namesakes with a hub that counts for nothing, an id that resolves to no fact; a model that fails, paraphrases or repeats the template |
| `corpus_graph` | Do elections join one thing once, independently of opaque names, and is nothing withheld spoken? | 3 people with up to 2 of 10 hubs each, and a bystander so that a hub two people share weighs something and one that all three carry nothing; an acronym with two expansions, two contested QIDs that also appear under a second label; symmetric in the people |
| `build` | Is what is on disk complete and honest, whatever is killed or fails? | 2 people; 2 documents either may cite, of 2 readings each, one with an id that is no file name; budget 2, so that both documents exhaust it and one leaves a call to extract with; 2 runs, one lost document and one damaged dossier |
| `build_citations` (violation) | Is the text beside a dossier the text it quotes? | 1 document with 2 readings, 2 people |
| `resolver` | Is nobody resolved on one fact, by a label or by the order of documents, is every source heard, are the counters exact in every interleaving, and does judging end? | 4 documents of 3 sources, budget 3, gate 2: one document is refused and the gate is contended; two people (three details one of which names two firms; details that deny, or share a common word); four corpora (filings and items found twice; a decoy's item that contradicts the person; hosts that bear a name; a profile beside two wordings of one detail); 9 replies over all label families, confidences and a `no` |
| `dossier` | Does each fact quote its document, each hub stand on what is about it whatever the order, and is nothing withheld shown or pointed at? | 3 documents, two to a batch; every pair of four answers or failures, which between them reuse names of facts, guess ids, state one QID for two things, disagree on types, propose cities and fields; every pair of rulings per classifier batch, unasked and contradicting ones included; two tables of recognised words |
| `fetch` | Is the answer to this very request and the same warm as cold, do failures heal, and is nothing but a whole answer ever a cache file? | 3 fetches, symmetric, drawn from 6 requests: one page with and without a credential, by GET and by POST, another page, and two searches that differ in their body alone; a tick and a negative lifetime of one; directories that are empty, torn, or hold a file of any kind under the name three of the requests had before T-025 |
| `fetch_durable` (violation) | Does a usable document stay in the cache? | 2 fetches |
| `limiter` | Spacing, order, no idle waiting, nobody starves? | 4 callers, a host whose burst is cut by the cap and one whose burst is the one-token floor |
| `limiter_burst` (violation) | Is the burst within its stated maximum? | 5 callers on one host |

Every property of a passing run has a mutant in `PROJECT.json`: a changed definition,
such as an eviction that is off or a guard that is dropped, for which TLC reports the
property violated.  The mutated operators stand beside the ones they replace and are
marked as mutants.

### Fairness

Weak fairness is assumed only where the code has a timer or runs by itself.
`ArrivalApp`: `asyncio.wait_for` fires (`LlmFailsOrTimesOut`) and the event loop resumes
a finished await (`Answer`); the model, the host and visitors promise nothing.
`BuildPipeline`: the process takes its next step, since each connector and each model
call has its own timeout.  `Resolver` and `LlmBudget`: the gate admits its waiters, each
request ends (the client's timeout), and `gather` returns when its judges have.
`RateLimiter`: time passes and a due sleeper wakes.  `HttpFetch` states none: httpx's
timeout is per operation, a host that drips its body within it holds the fetch for as long
as it likes, and that every fetch returns is not claimed.  No strong fairness is assumed
anywhere.

### Where code and documents disagree

Four runs end in a violation, each of something the repository says of itself:

* `app_leavers`: a digest that is remembered after somebody left still proposes them,
  because the match is made before the LLM await (SPEC.md, R5).
* `limiter_burst`: GCRA with a tolerance of `capacity` intervals lets `capacity + 1`
  requests go at once; the comment says the burst never exceeds the cap.
* `fetch_durable`: two overlapping fetches of one URL; an empty answer that comes second
  replaces the document, which the docstring calls durable.
* `build_citations`: a document shared by two dossiers is overwritten by a later fetch,
  so the quotes of the earlier dossier can no longer be checked against it.

Other disagreements were met while modelling and have no run of their own:

* the docstring of `graph._canonical_hub_ids` says that the elected slug id agrees by
  construction with the elected type, which a contested QID, counted in one vote and not
  in the other, undoes;
* the docstring of `extract._hub_qid` speaks of the *documents* of the evidence; the code
  counts the facts of the evidence, so a document counts once per fact taken from it;
* `extract._HubGroup.is_field` stays set once a candidate of the group was a field, and
  the evidence of a later candidate of that label that is no field joins the group,
  although `_attested_evidence` promises that the documents of a field name it;
* `digest.py:993-994` calls a model-written opener a paraphrase that cites nothing, but a model
  may return the template over a fact of its prompt.  That fact's own sentence is then on the
  page, and unless something else quotes or leans on its document it has no source, against
  R7 and R9 (SPEC.md:25, 27) and the docstring of `make_digest`, "whose `sources` cite every
  fact it shows".  `EveryFactCited` says exactly when: it claims one source for every fact
  shown and *none* for these (`Repeated`), so that a change of the code either way breaks it;
* `research.py:992-993` says of a dossier that "it must not exist until everything it cites
  does", but a document with an id that is no file name is skipped three lines later and its
  dossier written (`tests/research/test_t6_build_all.py:301` has the case).  Such a person
  counts as built and the exit code is 0, and every later run builds them again.
  `CitedDocsOnDisk` and `CleanExitMeansBuilt` name this case;
* `research.py:1143` prints "nothing was written for them" of the failed, and `_failed_row`
  (`research.py:882`) says so too.  That is true where every model call failed; a failure
  during the commit leaves the documents written before it, over older ones of the same
  URL.  `FailedKeepTheirDossier` says what may have changed;
* `client.py:262` calls `fetch_record` never-raising, but `sniff_content_type` and `_extract`
  (`client.py:365`, `384`, `528`) stand outside its handlers, and what they call catches
  `ValueError` and `TypeError` only (`extract.py:209-211`, `518-520`): deeply nested JSON leaves
  as a `RecursionError`.  `Raise` is that path;
* `client.py:206-208` says that the change of keys of T-025 orphans *every* older file.  A
  file of an authenticated GET lay at the bare URL, which is still the key of the
  anonymous GET, so that document is served to it, for ever: the exception in
  `AnswersOwnRequest`.  Likewise a body that is no text, stored as a document before
  T-026, is refused on every read and never fetched again: the exception in `FailuresHeal`;
* `web/presence.py:29` calls a second arrival a no-op; it moves the person to the end of the
  list, which `PresenceFollowsArrivals` is about;
* `web/store.py:57-60` says an id and a name both reach their person, but where the
  roster *declares* ids, a name may be somebody else's id, and of the two dossiers the
  one read later has the slug: `IdsReachTheirOwner` is about rosters whose ids are
  derived, which is what the shipped roster has, and `IdsAreOwn` names that hypothesis.

## 4. What is not modelled, and why

* The query building and parsing of the ten connectors, HTML to text, charset sniffing,
  decompression, prompt wording, the markup of the pages, settings and argument
  parsing: pure conversions without state.  Their results are inputs of the modules.
* In the web process: the read-only pages, body parsing, and a start that stops at a
  damaged or missing dossier directory.  Everybody in the `app` run is in the graph;
  a member whose dossier is unresolved is in `CorpusGraph` only.
* A hub label that slugs to nothing, for which `_identity_key` falls back on the id.
* The wording of a match and of the digest's template, and the weight of a shared hub
  beyond its order.
* The limiter's reset when the clock runs backwards, which only tests reach.
* Every source failing at once: no document, no call, no error, and an empty dossier is
  committed.  It is listed as a hazard without a property, since nothing in the
  repository promises otherwise.

## 5. What is proved

Every theorem holds for all values of the constants that satisfy the named assumption
of the module (`AppAssumption`, `ReceptionAssumption`, `StoreAssumption`,
`ServedAssumption`, `LimiterAssumption`, `PipelineAssumption`, `BudgetAssumption`,
`RetrievalAssumption`, `ResolverAssumption`, `FetchAssumption`, `TasteAssumption`,
`ExtractionAssumption`, `DossierAssumption`, `DigestAssumption`, `GraphAssumption`); TLC
evaluates those assumptions in the runs.  They say what the code's types and tables say: that
finite things are finite, that ids of documents are not reused within one person, that the
words of the field vocabulary are words, that a blank string is no document.  Three theorems
have hypotheses of their own, and say so (`IdsAreOwn`, `OwnersReached`, `OneThingHolds`).

| Theorem | Says | Inductive invariant |
|---|---|---|
| `ArrivalAppProofs!TypeCorrect` | type invariant, with one presence key per person | `LocalsSet`: a request past its await has its locals |
| `ArrivalAppProofs!DigestTableHolds` | dict and queue agree, within the history | `QueuedAreAnswered`: only answered requests are queued, so an id is never queued twice |
| `ArrivalAppProofs!NewestServed` | the digests served are the newest answered | the queue is the tail of `answered` |
| `ArrivalAppProofs!PresenceHolds` | the building is listed by latest arrival | `InArrivalOrder`: whoever is inside has a latest arrival, and it is later than that of everybody before them |
| `ArrivalAppProofs!IntroductionsHold` | the later of two people found, and is introduced to, the earlier one unless the cap is full of better matches | `IntroInv`: what each request found stays with it (`ArrivalsOnRecord`, `LaterFoundEarlier`, `RoomsFinite`), a digest is what the cap leaves of it (`DigestsOfRooms`); and `OutrankedByAll`, that who is cut is outranked by the whole section |
| `ArrivalAppProofs!ServiceHolds` | the application implements `Reception` | `IntroInv`: arrivals enter, answers introduce, departures depart, restarts reset, all else is invisible |
| `ArrivalAppProofs!IdsAreOwn` | each id reaches its owner where every id is its owner's name or goes on from it | none: about the operators; whoever bears another's id as a name has an id that goes on from it, and is read first |
| `ArrivalAppProofs!IdIsFresh` | the id given is new, and extends the name wherever the declared id, if any, does | none: of `Len(Entries) + 1` numbers one is free |
| `ArrivalAppProofs!OwnersReached` | whoever arrives by their own id is the last to have come in, whoever leaves by it goes out alone | `Distinct` of the roster so far, entry by entry: everybody has an id of their own that goes on from their name; then `IdsAreOwn`, and `TypeOK` for the presence |
| `RateLimiterProofs!TypeCorrect` | no negative wait | |
| `RateLimiterProofs!SpacingHolds` | no window holds more than its length allows plus one burst | `TatCoversSlots`: the theoretical arrival time lies an interval per later grant beyond every slot |
| `RateLimiterProofs!FirstComeHolds` | no later caller overtakes an earlier one | `NoSlotAhead`: whatever the clock reads, the next slot is no earlier than the last one granted |
| `RateLimiterProofs!NobodyWaitsIdly` | who waits, waits for a run of earlier requests | `RunIsWorkedOff`: the theoretical arrival time is some slot and an interval for every grant since |
| `BuildPipelineProofs!TypeCorrect` | budget counters and pending writes in bounds | `OnlyWhileCommitting`: nothing is pending outside a commit |
| `BuildPipelineProofs!CitedDocsHold` | cited documents are on disk, but those removed and those whose id is no file name | `WrittenOnDisk`: what a commit has crossed off is there, or was refused |
| `BuildPipelineProofs!NothingUnacceptedHolds` | unresolved dossiers are empty, facts quote accepted documents (no run repeats it) | `Sound` of the dossier in hand |
| `BuildPipelineProofs!CleanExitHolds` | exit 0 is true of the disk | `NoExitYet`, `RowsTrue`: rows are true while the run lasts (`Complete`, or `CompleteButForUnsafe` of who was built) |
| `BuildPipelineProofs!FailedKeepHolds` | the build of one person changes no dossier but theirs, and that only when it succeeds; documents become what was just accepted; after a dead model nothing at all has changed | `DossiersAsFound`, `DocsAsFound`: until a build ends, the disk is `before` but for the documents crossed off; `CommitsAnswered`: no commit after a dead model |
| `ResolverProofs!TypeCorrect`, `SpendingHolds`, `CountersHold` | budget, retries and gate respected; counters exact | `BudgetInv`: each call made is in flight, judged or failed; one still at its first request has one more to spend |
| `ResolverProofs!ResolveSpends` | the same of the resolver: a step of it is a step of the budget or leaves it alone | `BudgetInv` |
| `ResolverProofs!VouchedForHolds` | accepted documents were judged `yes` on a span they hold; keys come from documents that claim nothing else | `VerdictsStand`: a verdict that counts cites its document; `Concluded`: the resolution is the `Outcome` of the verdicts |
| `ResolverProofs!OneFactHolds` | without a key, two documents and two attributes | `Concluded` |
| `ResolverProofs!LabelsHold` | where a span quotes a detail, its label changes nothing | `Concluded` |
| `ResolverProofs!OrderHolds` | in the opposite order the same documents earn the same keys | none beyond `Concluded`: each key is a statement about the set of verdicts |
| `ResolverProofs!SourcesHeard` | while the budget has a call per source, no refused document is a source's first | `TurnInv`: the gate is first in, first out, so the documents judged are a prefix; the interleaving puts each source's first among as many documents as there are sources that found something |
| `HttpFetchProofs!TypeCorrect`, `OwnRequestHolds`, `WarmIsCold`, `FailuresHealed`, `OnlyAnswersFiled` | an answer is to this very request, what the network gave, no failure outlives its lifetime, each with the exceptions of older files; a file becomes a whole answer or stays | `FetchInv`: every record is `Sound`, every file `FiledUnder` a key its request has or had; what is being written (`Pending`) and what was `Answered` belongs to its fetch.  `KeysDiffer`: different requests have different keys |
| `DossierProofs!RulingsHold` | only an answer to its own batch rules on a fact | `RulingInv`: a ruling stands on an entry of the log |
| `DossierProofs!NoPointers` | no hub cites a withheld fact | the dossier is what `SupportedHubs` made of it |
| `DossierProofs!ShownIsClean` | no clause of a displayable fact is excluded by the rules | none: about the operators |
| `DossierProofs!WithheldIsHidden` | nothing a page may show has a clause that today's tables exclude, whatever the tables of the build let pass | the type of what was taken; `ShownIsClean` |
| `DossierProofs!QuotesHold` | every fact quotes its own document verbatim, no guess is made of the document, and no id is used twice | `CitationInv`: each fact is rooted in one batch and its answer, and facts of one document are numbered on from those before |
| `DossierProofs!EvidenceHolds` | every fact a hub cites stands behind it: named by its own batch's answer, naming the hub, or naming the city | `HubInv`: `CitationInv`, and of every group of candidates, that its labels slug to its key, each of its facts is `Backed` and each of its QIDs is the only one of some document; the merge keeps it through every fold |
| `DossierProofs!AdoptionHolds` | a QID adopted from one document is the only one it states; where the roster states a place, that is the city | `HubInv`, with: the places are the roster's |
| `DossierProofs!HubOrderHolds` | listed from last to first in every answer, the same candidates leave the same hubs | `OrderInv`: `HubInv`, and the groups of the two orders are made of the same candidates (`Lists`): a group per key, each value counted once per candidate of that key |
| `DigestProofs!SelectionHolds` | what the page selected stays what `make_digest`'s rules say of the dossier | `Inv`: at every stage the sections are the functions of the dossier they were computed as |
| `DigestProofs!EveryFactIsCited`, `EvidenceIsStrongest` | each fact shown is displayable and has one source, but one only a model's line repeats, which has none where nothing else on the page is of its document; a source is held by the strongest fact cited from it | `Inv`, with `Said`: the opener says nothing that is withheld; a slot stays its document's and only grows stronger while sections are filed |
| `DigestProofs!EveryMarkerIsQuoted` | each number printed leads to a quote that backs the sentence it stands at | `Inv`; the opener read back from the page is the one `make_digest` cited |
| `DigestProofs!SpokenHolds` | no sentence names a hub only withheld facts stand behind, or one nearly everybody carries | `GraphInv`: the graph is `Graph(Occurrences)` |
| `DigestProofs!QidNamesHold` | exchanging two Wikidata ids exchanges them in the graph and changes nothing else | `GraphInv`; the exchange is injective and commutes with each vote, group and node in turn |
| `DigestProofs!OneThingHolds` | people who name a hub alike share a node; nobody is joined twice by an acronym and its only expansion | `GraphInv`; of the nodes of an acronym and its expansion each would consist of its own key's occurrences, so `AcronymAliases` would have folded one into the other |

The lemmas beneath them are about the operators: what removing and re-adding a key of
an ordered dict does to its order, what the newest n of a sequence are, how one
document changing state changes every count, that of two ids of which one goes
on from the other the longer is read first, that a best candidate is a document's own, that
the Meet section of people found is never empty and never over its cap.

**Folds.**  Much of the code walks a list and carries something along, and the community
modules write that as a fold, which is a function chosen by its recursion.  What holds at
the end of a fold needs an induction along the list.  The induction theorems of the library
take an operator, which the provers cannot instantiate; `SequenceLemmas` goes around that:
a set of naturals that is not empty has a least member (`Least`, from the well-foundedness
of `<` on the naturals), so a property of 0 that passes from each number to the next holds up
to n (`Climb`); hence the function that solves a fold's recursion exists (`FoldExists`,
`FoldSolves`), and the fold satisfies it (`FoldSteps`).  Each algorithm then states, as a set
of indices, where its invariant holds, and climbs.

**Order.**  That two folds over the same candidates in different orders agree cannot be had by
comparing them step by step.  `HubOrderHolds` gives each candidate a token, the number of its
answer and its place there, and says of a group only what no order can change: which tokens
it is made of, how often each type, label and QID was said by them, the union of their
evidence, their latest age (`MadeOf`).  Pooling two groups of disjoint tokens keeps that; two
groups made of the same tokens elect the same identity and id (`MadeAlike`), so the two merges
are one (`ListsMergeAlike`).  `_collect_hubs` takes in one candidate at a time, in whichever
place it stands (`CandidatesAreListed`), so nothing here is about the reverse alone.

**Hypotheses.**  `IdsAreOwn` and `OwnersReached` are about ids that follow the names: an
entry declares no id, as in the shipped roster, or one that goes on from its own name
(`IdsFollowNames`); section 3 says what happens otherwise.  `OneThingHolds` assumes
`SluggedHubs`, that a hub without a QID has the id made of its type and the slug of its label.
That is what `extract` writes; the model class (`contracts.py:291`) does not enforce it on a
dossier edited by hand.  It also assumes `ExpansionsAreNotAcronyms`: a name that initials
stand for is not itself the initials of a third.  Initials are one word and need several
words to stand for, so only a name whose words are parted by apostrophes or accented letters
alone can break that: its slug joins what `_acronym_of` counts apart.

**What proving changed.**  `EvidenceIsNoGuess` used to say that a name a hub cites a fact by
is the id of no extracted fact.  The attempt to prove it showed that to be false, and TLC
then found the run: a model may guess an id that only a *later* batch hands out.  It now
speaks of the facts known by the batch in which the hub was proposed, which is what
`extract` looks at and what readers rely on.

Only model-checked: the liveness properties (`EveryArrivalAnswered`, `EverySleeperSends`,
`EveryRunEnds`, `AlwaysConcludes`), since fairness and ENABLED are
beyond the prover.  Every other property of a passing run is stated by a theorem.

## 6. What is left

1. Refinements: `Resolver` implements the `Resolve` step of `BuildPipeline` (spends no
   more than the budget, fails or returns), `DossierBuild` its `Extract`; `DigestPage`
   implements the await of `ArrivalApp`.
2. A start of the web process over the files of `BuildPipeline`: dossiers missing,
   damaged or unresolved, behind `ServedRoster`.
