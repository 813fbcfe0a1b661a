# Soulservice in TLA+

Soulservice keeps the identity ("soul") of an assistant: a Self Core document,
memories, facts, properties and adaptations, encrypted per soul in PostgreSQL.
Three programs write the same tables: the MCP server (`src/src/soulservice/mcp`),
called by language models with Bearer tokens; the admin web UI
(`src/src/soulservice/web`); and the command line `soulctl`
(`src/src/soulservice/cli`). They share nothing but the database and are all
`asyncio` programs: everything between two `await`s is atomic within a process,
nothing is across processes, and the database runs at its default, READ COMMITTED.

This directory models the parts whose correctness depends on how those programs'
transactions interleave, checks the models with TLC on small instances and proves
the central properties with TLAPS for every instance.

## 1. Inventory

| Part | State | Operations | What is hard | What makes it correct |
|---|---|---|---|---|
| Self Core (`web/queries.py`, `cli/main.py`, `core/portability.py`) | live row with a version, archive with `UNIQUE (soul_id, version)` | web load/save with a version check, `self-core edit` with an open editor, `self-core import`, merge import | four writers, no row lock, the archive row is taken at statement time and the version number from an older read | nothing saved is lost, writers exclude each other, what is replaced is archived |
| Memories and review (`mcp/tools/memory.py`, `review.py`) | rows `pending/confirmed/rejected/forgotten`, `recall_count` | remember, decide, forget, recall | check in one statement, update by id in another; a row lock per answer row | a held memory is not recalled before review, a revoked one stays revoked, counts are exact |
| MCP rate limiter (`core/ratelimit.py`) | two token buckets per API token | `check` | boundaries of refill, two buckets at different rates | neither limit exceeded, nobody refused without need, the announced wait nearly suffices |
| MCP request path (`mcp/middleware.py`, `mcp/server.py`, `core/db.py`, `core/audit.py`) | API tokens, the connection pool, RLS context of connections, audit log | resolve a token, require scope, scoped session, tool, audit, revoke | three sessions per call from one pool; tokens revoked in between; contexts on reused connections | own soul only, audit equals work, revoked tokens get nothing, no call starves |
| Facts and properties (`mcp/tools/facts.py`, `properties.py`) | rows with a unique key, soft-deleted | upsert, forget, merge of a bundle in mode overwrite or skip | multi-statement merges against single upserts; lock order of lists | requests act at once; skip leaves settled entries alone |
| Login throttle (`web/throttle.py`) | one bucket per address and email, in memory | `allow` | refills at boundaries, a restart forgets the buckets | no more links are issued than the bucket held and was given |
| Web login (`web/auth.py`, `auth_routes.py`) | login links, allowlist with roles, signed session cookie | request, verify, visit, logout | the link is checked in one statement and burnt in another; it is mailed after its commit; the role is frozen in the cookie | a second use needs an overlap; a role is what the settings gave the owner of a mailed and burnt link |
| Data keys (`core/crypto.py`) | wrapped key per soul, process cache with a time to live | get, put, invalidate, expire | the cache is filled inside transactions that may roll back, and from reads that others overtake | who finds a soul gets the key of its row |
| Adaptations (`cli/main.py`) | rows `active/superseded` | add, supersede, import | the check is one statement, the insert and the update follow; no key keeps two successors apart | a second successor needs an overlap; no line is lost |
| Export and import (`core/portability.py`) | none of its own | export, new-soul import, merge | one statement per table, each with its own snapshot; an answer lost after the commit is retried | a bundle misses nothing, a new soul is all of it, its version is above its archive unless merges overlap |
| Provisioning (`cli/main.py`, `web/queries.py`) | tenants, users, souls, keys, tokens | create, `init`, import, token create | `init` looks and then inserts; slugs are unique per tenant and looked up without one | a second seed needs an overlap; a token keeps to its soul's tenant |
| Chat client (`chat.py`) | message list | model turn, tool call | protocol order, but sequential | each call answered once |
| Readers, pages, rendering, embeddings, injection patterns, configuration | none | — | — | — |

How they interact: the MCP server resolves the token of every HTTP request, then
each tool runs in one scoped transaction together with its audit row. The web UI
opens a bootstrap session to find the soul and then a scoped one. `soulctl` and
the imports use the owner role, without row-level security. All meet in the rows,
their locks and their unique keys; no component calls another over the network
except the chat client, which is an MCP client.

`PROJECT.json` lists the same parts with their status, and every hazard found in
the code at its line with the properties that cover it.

## 2. Modules

Abstract specifications, the modules of components, `*Proofs` with the theorems,
`MC*` with the instances for TLC.

| Module | Models | State and actions |
|---|---|---|
| `VersionedDocument` | what the Self Core promises its writers | a document and what it replaced; `Start`, `Save` |
| `SelfCore` | the live row and the archive under all writers | one request per save. `LoadForm`/`Submit` are the GET and POST of the web editor, `OpenEditor`/`CloseEditor` the two ends of `soulctl self-core edit`, `ReadVersion` the start of `self-core import` and of a merge; `SelectLive`, `Archive`, `Update`, `InsertFirst`, `Commit` are the statements all of them issue. A row inserted by an open transaction blocks an equal key until it ends |
| `MemoryBook` | what memories promise those who review and recall them | one step per request: `Store`, `Decide` (of a memory once held for review), `Forget`, `Recall` (counts each of its answer once, none that is held and unapproved) |
| `MemoryReview` | `memories` under remember, import, decide, forget, recall | `CheckDecide`/`CheckForget` are the SELECTs, `UpdateStatus`/`CommitStatus` the UPDATE by id and the COMMIT; `Select`, `CountNext`, `CommitCounts` are recall and its counter updates row by row |
| `TokenBucket` | refill, spend and the wait as it is told, of one bucket, as operators | used by `RateLimit` and, for the login throttle, by `WebLogin` |
| `RateLimit` | `RateLimiter.check` for every token | time is a counter of ticks; levels are kept in `1/interval` parts of a token so that everything is an integer |
| `CallGate` | what the MCP server promises of a tool call | a call is `Recognise`d by a token not revoked, `Believe`d if it has not expired, `Admit`ted with its use on record, and `Serve`d in one step, its row and its audit entry; or turned away |
| `ToolCall` | a call of an MCP tool from its Bearer token to its COMMIT | `SelectCandidates`, `VerifyCandidates`, `OpenTouch`, `Touch`, `CommitTouch` are `resolve_bearer_token`; `Require` is `_require_identity`; `OpenScoped`, `RunTool`, `LogToolCall`, `CommitCall` are every tool's handler; `OpenWhoami`, `AnswerWhoami` the one that is different; `UpdateRevoked`, `CommitRevoked` a revocation from web or CLI; `Expire` is time |
| `EntryStore` | what facts and properties promise | one step per request: `Overwrite`, `Skip`, `Forget` |
| `FactStore` | `facts` and `soul_properties` under set, forget and merge | a set is a list of one entry; `Upsert`, `InsertFact`, `CheckProperty` are the statements per entry, `CheckActive`/`Delete` a forget, `Commit`, `Fail` |
| `WebLogin` | sign-in: throttle, link, mail, verification, cookie, role | `Submit`, `IssueLink` or `FailLogin`, `SendMail` are `POST /login` up to the throttle, its commit and its mail; `CheckLink`, `Burn`, `Commit` the SELECT, UPDATE and COMMIT of `consume_magic_link_token`; `SignIn`/`LoseAnswer` what becomes of the cookie; `FailVerify` a failure before the commit; `Visit` is `require_role`, `Logout` itself; `Restart` forgets the throttle and reads the allowlist again; `Tick` is time |
| `SoulRegistry` | what is promised of tenants, users, souls, keys and tokens | each comes to be in one step and never changes: `CreateTenant`, `CreateUser`, `Found` (a soul with its key, at a free place, for a user or with a new tenant and user), `Mint` |
| `Provisioning` | tenants, users, souls, `soul_keys`, tokens and the key cache | `LookSeed`/`CommitSeed` are `soulctl init`; `Insert`, `CommitSoul`, `Fail` are `soul create` and the new-soul import, whose INSERT waits on an uncommitted equal slug; `KeepOwnKey` is the import filling the cache before its commit; `CreateTenant`, `CreateUser`, `Mint` the one-statement commands; `FetchKey`, `PutKey`, `Forget` are `_get_dek` and the cache's expiry and invalidation; `Restart` |
| `SoulBundle` | a soul's sections under `export_soul`, `get_self_core`, `import_soul` and the adaptation commands | `ReadCore`, `ReadHistory`, `ReadEntries`, `ReadAdaptations`, `ReadMemories` are the statements of an export (a view takes the first and the fourth); `BeginNew`, `CommitNew` the new-soul path; `BeginMerge` (the SELECT of the version), `ArchiveLive` (the INSERT ... SELECT), `CommitMerge` (the UPDATE and the rest) the other, `Fail` the end of either; `AddAdaptation`, `FindActive`, `Replace` are `adaptation add` and `supersede`; `Save`, `Enter`, `Remember` the writers who go on meanwhile |

`SoulBundle` lets the writers of the source's self core take turns, and those of one
fact or property: how their statements race is what `SelfCore` and `FactStore` are
about, and an export is disturbed by what they commit, not by how. A merge is taken
apart where another merge can come between: its SELECT of the version, its archiving
INSERT and its UPDATE are three steps, the sections after them are written with the last.
Rows have the id of the request that inserted them, as the database gives every
row an id of its own; so a model can tell a row from its copy without a counter.

Conventions. A READ COMMITTED transaction is modelled statement by statement: each
statement sees what is committed when it runs, and its own writes; a row written
by an open transaction is locked until that ends; an INSERT whose unique key an
open transaction has inserted waits for it. `Rollback`, `Fail`, `FailCall` stand for every way
a transaction ends without COMMIT: an exception, a lost connection, a killed
process, a deadlock abort. A crash needs more only where a process keeps state of its
own: the login throttle and the allowlist it has read (`Restart` of `WebLogin`) and
the key cache (`Restart` of `Provisioning`). The MCP limiter's buckets are lost too,
which starts `RateLimit` over.
Contents are members of small sets, ciphertexts are identified with their plaintext.

## 3. Runs

| Run | Instance | Shows |
|---|---|---|
| `self_core` | one web save, one edit, one CLI import, one merge; no Self Core, or versions up to 2 | `OneWriterAtATime`: the unique key serialises writers though nobody locks. `NoSavedContentLost`: a save reported as done is live or archived. `ArchivesWhatItReplaces`, `ForgetsNothing` (refinement of `VersionedDocument`). `CollisionNeedsStaleSave`, `FrozenAfterCollision`: where version collisions come from and where they lead. `EverySaveEnds`: waits on archive rows end although editors may stay open |
| `self_core_overwrite` | two web saves | violated: `NoSilentOverwrite`. The docstring of `save_self_core` promises that a concurrent edit is not overwritten silently; the check is an unlocked SELECT, and a save between it and the archive INSERT is replaced without a 409 (its content stays in the archive, as `NoSavedContentLost` shows) |
| `self_core_collision` | racing saves | violated: `CurrentAboveArchive`. The live version can equal an archived one; from then on no save succeeds |
| `memory_review` | two memories, a decide, a forget, two recalls | `ActsAtOnce` (refinement of `MemoryBook`): each request takes effect in one step, at its commit, so that only a memory once held can come back from forgotten, though a decide may overtake a forget at its commit. `HeldUntilConfirmed`, `RecallCountExact`. `EveryRequestEnds`: recalls deadlock, the database breaks the cycle |
| `memory_revoke` | a decide, a forget, a recall | violated: `RevocationSticks`. A decide that found the memory pending confirms it after its revocation was committed, and a recall that begins after both returns it |
| `rate_limit` | one token, limits 2 per 3 ticks and 4 per 10, clock up to 12 | `GrantsWhatFits`: a call is let through exactly if, with it, no stretch of time from a granted call until now holds more calls than the limit and what flows in meanwhile: the limits are kept, and nobody is refused without need. `TwoWaitsSuffice`: who waits as told, and half a tenth of a second more, is refused at most twice |
| `tool_call` | two calls, a web and a CLI revocation, two tokens of two souls, two connections | `ScopeIsOwn`, `AuditMatchesWork`, `RevokedStaysOut`; `KeepsTheGate` (refinement of `CallGate`): the three sessions of a call let in only who has shown, after coming, a token neither revoked nor expired, on record as used, and with the scope the tool needs |
| `tool_call_ends` | two calls, one connection, a revocation, fair | `EveryCallEnds`: no call holds a connection while it asks for another |
| `fact_store` | a set, a forget, two imports that take a fact and a property in opposite orders; both with any past | `ActsAtOnce` (refinement of `EntryStore`); `SkipKeepsSettled`: a skipping import replaces no fact that has a row, a forgotten one included, and an active property only if someone else made it active meanwhile; `NobodyStuck`: whoever waits, waits for a request that can go on, or for a cycle the database ends |
| `web_login` | two login requests by an admin, who may leave the list, or by a stranger; two verifications; one token an hour; fair | `LinksBounded`: failed mails and restarts included. `SecondUseOverlaps`: one link can sign in twice, but only if neither sign-in had burnt it when the other looked. `RolesComeFromLinks`: every role given is the one the settings gave the owner of a mailed and burnt link at that moment, viewer if a restart had taken it off the list, and a page needs a role given. `EveryRequestEnds`, also behind a locked row |
| `provisioning` | two runs of `init`, a tenant, a creation, an import, a token | `TwoSeedsOverlap`: `init` creates its rows once unless two runs overlap (section 5). `CommitsAreWhole` (refinement of `SoulRegistry`): a soul has its key and its owner from the start and takes a place that is free when it is committed, whoever waited or rolled back; a slug in two tenants may find either soul, but the token is of one soul, its tenant and its owner. `CachedKeyOpens`: what a rolled back import leaves in the cache is under an id no soul will have |
| `soul_bundle` | an export, a view, three imports, two supersedes, two versions of the Self Core; a line, an entry, a memory | `NothingIsMissing`: a bundle mixes moments, but holds every text and every adaptation (or its successor) the soul had at the start, and so does the soul made of it. `CollisionsOverlap`: the copy's version is above its archive, so that a merge can archive it, unless two merges overlapped, of which each read the version before the other was committed. `TwoHeirsOverlap`. `CopiesAddUp`: an import repeated after a lost answer adds its memories and adaptations once more, its facts and properties once |

Bounds and why they are enough. Each request makes one attempt and requests of a
kind differ in nothing but their name, so what matters is how many are open at
once. Two writers suffice for every race found here and a third stands for
"someone else committed in between"; the runs give each kind one request
and the symmetric kinds two. Self Core versions start at 1 or 2, because a collision needs an archive
that reaches the live version; they grow without a bound of their own, by the number
of saves. The limits 2/3 and 4/10 make the hour refill at about half the minute's rate:
either bucket can be the empty one, or both; a tenth of a second is two ticks (`Half` = 1)
and neither bucket refills a token in a multiple of that, so that a wait is told too
short, too long and right; 12 ticks are longer than a refill of the hour from empty. Two connections for two calls let
a connection be handed from one soul to another; one connection makes the pool
the bottleneck. In `web_login` a link that lives one tick and a clock of two make it
expire before, between and after a verification's statements, and an hour of two ticks gives a
second token within the instance; two verifications are what a double use needs.
In `provisioning` rows are never removed, so
the number of requests is the only bound; every slug, name and email may coincide
with another's or not. In `soul_bundle` `MaxVersion` = 2 lets a first version be there before an export and
a save fall between any two of its statements; three imports
are a new soul and two merges into it, which may overlap or repeat it; as all three bring
one bundle, a merge never writes the first Self Core of a copy that has none, which is
left to the proofs; one line, entry and memory
suffice because rows of different keys do not meet. Deadlock checking is off everywhere: requests are finite, so
every instance stops when all have ended; that nothing stops earlier is what the
liveness properties and `NobodyStuck` say.

Fairness. Weak fairness of the steps the server or `soulctl` take by themselves
once a transaction is open: the event loop and the database run what is runnable.
Nothing is assumed of users (they may never submit, an editor may stay open), of
revocations that have not started, of failures, or of time. Where row locks can
form a cycle (`memory_review`) the database's deadlock
detector is an action with fairness of its own, as PostgreSQL documents it. In
`tool_call_ends` a revocation that has updated its row commits. In `web_login`
(`FairSpec`) each request the server has begun is carried on: the link is issued, the
mail sent or given up, the row burnt and committed, the answer delivered or lost;
whether a user ever opens the mail, and time, are free. The other specifications
have no fairness, and no property that needs it.

## 4. Proofs

Five refinements are among the theorems: `VersionedDocument`, `MemoryBook`, `CallGate`,
`EntryStore` and `SoulRegistry` are implemented by the modules of the code. In each the
abstract step is the COMMIT, or the statement whose outcome the caller relies on, and
all other statements, waits, failures and restarts are stutters.

All theorems hold for every number of requests, rows, tokens, souls, connections
and every limit; the assumptions are those named in the modules (`ConstantsAssumption`:
kinds of requests are disjoint, "no row" is not a row, limits are positive).

- `SelfCoreProofs`: `SaveInvariant` with `SaveInv`. `OneWriterAtATime` is not
  inductive as it stands: that a second archiving INSERT cannot succeed needs
  `WriterOwnsLiveRow` (what an open writer has archived is the live row, and no
  committed archive row has its version), which needs `SnapshotLiveOrArchived`
  (a row selected earlier is either still live or already archived, in which case
  its INSERT fails). From it follow `ReplacedRowIsArchived`, `SavedStaysReadable`,
  `CollisionFreezes`, `FreshSavesNeverCollide` and the refinement
  `ImplementsDocument`. `NoneIsStuck` needs only the exclusion of writers: whoever
  waits, waits for the one writer, and nothing holds that one up.
- `MemoryReviewProofs`: `ReviewInvariant`. `HeldStaysHidden` needs that only a
  decide moves a held row (`ReviewIsOfHeld`, `VerdictsByKind`) and that a
  confirmation is never forgotten as an event (`ConfirmedByDecide`).
  `RecallsAreCounted` adds `CountsByRecall`:
  only recalls are counting, and those that have returned a memory are finitely many,
  so that the one that ends adds one to the cardinality and to the count.
  `WaitInvariant` adds that a request has the locks of exactly the rows it has updated
  (`LocksOfUpdates`) and what an answer under way may name (`AnswersOK`, `CountingOK`).
  `ReviewsActAtOnce`, the refinement of `MemoryBook`, needs them at the commits: the
  count a recall adds is of distinct memories that have left review, a decide's row
  was held. `CleanForgetStays` is an action property of the same invariant.
- `RateLimitProofs`: `LimitInvariant` says that a bucket's level pays for every
  call granted since any granted call (`BucketsPay`), and that a level short of full is
  owed to calls granted (`LevelsOwed`: since one of them, all that the bucket held and
  was given was spent but for the level). The first makes every call that is let through fit
  (`LimitsAreKept`), the second every call that fits be let through; together they are
  `GrantsAreExact`. `TwoWaitsAreEnough` needs `WaitsRipen`: after a wait as told the
  minute's bucket has a token, half a tenth of a second later, whichever bucket refused, and after
  the second wait the hour's has one too. The arithmetic is in lemmas about refill and spending.
- `ToolCallProofs`: `CallInvariant`. `ScopesAreOwn` needs that connections have one
  holder (`OneHolder`) and identities are checked tokens (`IdentityIsChecked`);
  `AuditIsTrue` needs `PendingIsOwn`; `RevokedStayOut` and `Accounted` follow
  from the same invariant. `CallsKeepTheGate` is the refinement of `CallGate`: `Stage`
  says how far a call has come, each commit or check that matters is one step of the
  gate, and opening, waiting for and closing sessions are stutters; it needs that an
  identity is there only after `CommitTouch` (a conjunct of `IdentityIsChecked`).
  `WaitInvariant` adds whose the locked rows are (`LocksOfUpdates`).
- `FactStoreProofs`: `StoreInvariant` ties every draft to its writer's list
  (`DraftsOffered`), every entry passed to a lock or to a row that was skipped
  (`MergedSoFar`), and what a skipping import wrote to rows that were absent or
  turned active since, and never to a fact's row (`SkipsSettled`). One lemma, `FrameKeeps`, says what a step
  leaves to the other requests, so that each action is proved about its own.
  `EntriesActAtOnce` is the refinement of `EntryStore`: a commit is one abstract
  step, everything else a stutter. `SettledAreKept` is the action property.
- `WebLoginProofs`: `SignInInvariant`. `LinksBounded` is not inductive: a request that
  has its token but no link yet must be counted (`Due`), and the bucket's level has to
  be in the sum with what was taken (`BucketPays`); its lemmas are about the
  arithmetic of one refill. `SecondUsesOverlap` needs `LinksOK`: a verification that
  goes on has a delivered link nobody had burnt when it looked. `RolesAreEarned` needs
  that every cookie is of a role given (`SessionsOK`) and that links are never unburnt.
- `ProvisioningProofs`: `RegistryInvariant`. `SeedsOK` (a seed's tenant is named when it
  commits and not before), `PlacesOK` (one soul at a place, counting the uncommitted
  one, so that a waiting INSERT cannot produce a second), `KeysOK` (every key that is read
  or cached is its soul's, or of a soul that will not exist). `RegistryIsImplemented` is
  the refinement of `SoulRegistry`: `PlacesOK` makes the place of a commit free, and a
  seed's tenant, having had no name, had no users and no souls. `TokensAreKept` says what
  follows for tokens.
- `SoulBundleProofs`: `BundleInvariant`. `NothingIsMissing` needs that the archive is
  exactly the earlier versions (`SourceOK`), that a superseded row never becomes
  active again and that its successor has its line (`HeirsOK`), and for each reader
  what its earlier statements still say of the present (`ReaderOK`): the core read
  first is at most the version up to which the archive read later reaches.
  `CopyOK` carries that over to the soul an import makes. `CollidingMergesOverlap` needs
  `MergeOK`: the version a merge has read is the live one as long as no import that
  writes a Self Core has been committed since. `RepeatsAddUp` is inductive by itself.

In `FactStoreProofs` there is also `NoneIsStuck`, for every set of lists: if all
writers are blocked, each waits for an entry of another, so that all of them
together are the deadlock the database ends.

What makes the liveness properties true is proved in two safety halves, for every
number of requests, in `SelfCoreProofs`, `MemoryReviewProofs`, `ToolCallProofs` and
`WebLoginProofs`. `NoneIsStuck`: whoever cannot go on waits for an open request other
than itself, and following that leads to one that waits for nobody (in `MemoryReview`,
or to a cycle the database ends). `StepsCount`: the steps a request has left get fewer
with each of its own and more with none of another's. That a step which can be taken
is taken, and so that every request ends, is fairness, and TLC's part. The two halves
(`NobodyStuck`, `EachStepCounts`) are stated in the components' modules; of them only
`NobodyStuck` of `FactStore`, which has no liveness property, is part of a run.

Each of the eight modules also has `TypeCorrect`, from its inductive invariant.

Model-checked only: the liveness properties (`EverySaveEnds`, `EveryRequestEnds` of
`MemoryReview` and of `WebLogin`, `EveryCallEnds`), which are out of the prover's
reach, and the three violations of section 5. Every invariant and every action property of a
passing run is a theorem.

## 5. Disagreements between code and documentation

Three runs expect a violation; each quotes the text it refutes in `PROJECT.json`
under `findings`: the silent overwrite and the version collision of Self Cores,
and the confirmed memory that had been revoked.

The following have no run that expects a violation; a property of a passing run, if
there is one, says what holds instead.

- `src/docs/functional-overview.md:147` calls login tokens single-use, `src/README.md:171`
  and the docstrings at `web/auth.py:39` and `web/auth.py:56` one-time. A token is checked
  in one statement and burnt in another that does not ask whether it is unused: two
  overlapping submissions of one link both sign in. `SecondUseOverlaps` says that only
  an overlap does that.
- `mcp/server.py:106` tells a refused caller to "Retry after" a wait rounded to the nearest
  tenth of a second, up to 0.05 s short, "0.0s" included: who obeys to the letter can
  be refused again, and again. `RateLimiter.check` announces the wait of the bucket that is
  empty first, the minute's if both are, so that even an exact wait can end in another
  refusal. `TwoWaitsSuffice` allows for both.
- The comment at `core/portability.py:427-429` expects that after an import no later merge
  collides. For the new soul that holds; but two merges that overlap archive each other's
  version as in `self_core_collision`. `CollisionsOverlap` says that only they do.
- The docstring at `cli/main.py:826` calls `init` idempotent: two runs that overlap both find
  nothing and both create a tenant, a user and a soul. `TwoSeedsOverlap`.
- `src/README.md:310` says that every tool invocation is recorded: `whoami` and `health`
  write no audit row. `AuditMatchesWork` is about the tools that do.

And three behaviours on which the repository is silent, modelled as they are:
`forget_fact` deletes a value that was set after it had looked (`mcp/tools/facts.py:184-201`);
a skipping import leaves a forgotten fact alone but brings a forgotten property back
(`core/portability.py:519` and `543`); a slug is looked up without its tenant
(`web/queries.py:68`), so that of two souls with one slug either is found.

## 6. What the models leave out

- Encryption, embeddings, injection patterns, validation of values, rendering:
  data that no property here tells apart. A property value that fails validation
  is skipped by an import, as if the list did not have it.
- Which request's identity a tool sees is up to the MCP library; `ToolCall` takes
  the request that carries the call. How the library schedules is left open.
- The web UI's own pool (it writes through one scoped session per request, after
  the bootstrap session is closed) and `soulctl`'s single connection.
- The chat client: a sequential HTTP client with one list of messages, nothing of
  which outlives it or races with it.
- Lists, pages, the dashboard and the getters, which read one statement; of the
  readers that take two, `get_self_core` is in `SoulBundle`.
- The audit rows of the web's wrappers (`web/queries.py:175` logs a decision whatever
  came of it): what they should say of an error is nowhere stated.
- In `SoulBundle` what the source has been told is not forgotten again while it is
  exported: a memory or entry forgotten between two statements is in the bundle or not, and
  no other section depends on it.
- Limits configured as 0 (`core/ratelimit.py:55`); the limits are assumed positive.
- Running the migrations. Their keys, references, checks and policies are guards of
  the actions that meet them.

## 7. Plan

Done: `SelfCore`, `MemoryReview`, `RateLimit`, `ToolCall`, `FactStore`, `WebLogin`,
`Provisioning` with the key cache, `SoulBundle` with the adaptations, each with its runs and its
theorems; the refinements of `VersionedDocument`, `MemoryBook`, `CallGate`, `EntryStore`
and `SoulRegistry`; the safety halves of the liveness properties.

Left, the most useful first:

1. An abstract specification of a soul and its copies that `SoulBundle` implements.
2. The audited wrappers of the web UI, once it is settled what they record.
3. The turns of the chat client.
