# Reeltalk in TLA+

TLA+ models of Reeltalk, a federated film diary (Django, PostgreSQL,
ActivityPub), the TLC configurations that check them and TLAPS proofs of what
matters most. Every definition is read off the code under `src/reeltalk/`; paths
below are relative to it.

## The system

One instance is a set of web workers and one task worker (django-q2) over one
PostgreSQL database. Requests are not wrapped in transactions: a view is a series
of autocommitted statements at READ COMMITTED except where it says
`transaction.atomic`. Instances talk by signed POSTs to each other's inboxes.
There is no outbound queue: an activity is posted once, from inside the request
that caused it, and the caller waits.

| Component | State | Operations | What is hard | What makes it correct |
|---|---|---|---|---|
| Inbox pipeline (`activitypub/views.py`, `inbox.py`, `models.py`) | `DeliveredActivity` rows | refuse, verify, claim the id, run the handler, commit, answer; prune | concurrent redeliveries, failing handlers, crashes, peers that time out | effects once per remembered id; 202 only for what was processed; every delivery ends |
| Inbox failure budget (`inbox_throttle.py`) | `InboxAttempt` rows | check, record, Retry-After | check and record far apart, sliding window, second query for the answer | bounded failures, an honest wait, no block for ever |
| Follow (`follow.py`, `delivery.py`, `social/views.py`) | the follow relation at both ends, blocks, FOLLOW notifications | follow, unfollow, the Follow, Undo, Accept and Reject handlers, block | the answer is posted inside the inbox transaction while the asker waits; nothing is retried | both ends agree; row and notification together; nobody waits for ever |
| Status and shelf federation (`statuses.py`, `broadcast.py`, `objects.py`) | mirrored statuses, tombstones and shelf rows | Create, Update, Delete handlers; broadcasts | unordered, lost and repeated deliveries | convergence, no resurrection, nothing invented |
| Shelves and reviews (`core/models.py`, `core/views.py`) | `ShelfFilm`, `Status` | finish, delete, shelve, unshelve | several tabs, uncaught constraint errors, rows read and saved later | one live review per film, exclusive shelves, empty tombstones |
| Likes, replies, mentions, notifications | rows per event | toggle, reply, record, read | double clicks, edits that mention anew | one row per event, none to the blocked or suspended |
| Feed and paging (`core/models.py`) | none of its own | merge and page reviews, replies, lists and shelf events | groups across page boundaries | each entry once |
| Import and export (`core/import_export.py`) | the same rows | export, import of a file, row by row in one transaction | which film a row is taken for: ids that are not unique, years that are missing | a member's file can be imported again and changes nothing |
| Film catalogue and merge (`core/models.py`, `catalog.py`) | `Film`, `MergedFilm` and everything that refers to a film | absorb, merge, resolve an old id | unique constraints on what is moved, chains of merges | nothing lost, every old id resolves |
| Lists (`lists/`) | `FilmList`, `ListItem`, saves, the post face | add, remove, move, rename, delete, mirror | rank swaps, two halves deleted together | ranks stay an order, list and face agree |
| Moderation (`moderation/`) | reports, suspensions, bans, domain blocks | file, resolve, suspend, ban, block and unblock a domain | who suspended what, first contact during a block | a lift restores only what its own block imposed |
| Accounts and mail (`social/models.py`, `verify.py`, `password_reset.py`, `tasks.py`) | users, invites, single-use tokens, mail tasks | sign up, redeem, mint, consume, send | at-least-once tasks, concurrent mints and redemptions | one live token, one use |
| Remote actors (`mirrors.py`, `signatures.py`) | mirrored users, refresh marks | resolve, mirror, refresh | first contact twice, suspension and fetch | one mirror per actor, no suspended sender |
| Credential attempts, proxy walk, HTTP guard (`social/attempts.py`, `proxy_trust.py`, `public_http.py`) | attempt rows | count, block, clear | the budget's gap again | bounded attempts |

Interactions: the inbox calls the follow, status, like and flag handlers inside
its transaction; the follow handler calls out again from there. Core and social
views commit and then broadcast. Notifications and mentions are written by
handlers and views alike. Moderation changes what `mirrors.py` resolves, and so
which senders the inbox accepts.

## Modules

| Module | Models | Used by |
|---|---|---|
| `ExactlyOnce` | what the inbox promises: an activity takes effect in one step, once while its id is remembered | `Inbox` (refinement) |
| `Inbox` | one worker's POST, point by point where others interleave; the peer; the prune | `MCInbox` |
| `InboxThrottle` | the failure budget with the clock | `MCInboxThrottle` |
| `Follow` | home page, both inboxes, the answer nested in the POST | `MCFollow` |
| `ReviewMirror` | author's actions, the network, the mirror's handlers | `MCReviewMirror` |
| `Shelves` | statements of concurrent requests of one member on one film | `MCShelves` |
| `DomainBlocks` | a block of a host, its lifting, the refusal of one account, and the door they close | `Moderation`, `MCDomainBlocks` |
| `Reports` | reports and Flags about one member and the member's posts, the decisions, the lines appended to them | `Moderation` |
| `Interactions` | likes, one reply, edits and deletion of one post, mention rows, notifications, where copies are sent | `Moderation` |
| `Lists` | one ranked list edited from several tabs, its copy elsewhere, the member who saved it | `Site` |
| `Accounts` | one account: its row, its links, the pages that save the whole row | `Site` |
| `Joining` | setup, sign-up, invites, and the budgets of attempts | `Site` |
| `FilmMerge` | merges of films while a member uses them; id resolution; whole-row saves | `Site` |
| `ImportExport` | matching, stubs, shelving and rating by file; the export | `Site` |
| `Moderation` | `DomainBlocks`, `Reports` and `Interactions` side by side | `MCModeration` |
| `Site` | `Joining`, `Lists`, `Accounts`, `FilmMerge` and `ImportExport` side by side | `MCSite` |
| `InboxProofs`, `InboxThrottleProofs`, `FollowProofs`, `ReviewMirrorProofs`, `ShelvesProofs`, `DomainBlocksProofs`, `ModerationProofs`, `SiteProofs` | the theorems about the module each is named after | |

Most `MC` modules only declare the model values their `.cfg` files give to the
constants. `Moderation` and `Site` hold several components that share no row:
the variable `area` says which of them moves, the variables of the others rest at
one value, and every property speaks of its own area. One run explores them side by
side, and no interleaving of two areas: what one takes from another (a suspension,
in `Interactions`) is fixed there from the start.

**Inbox.** `pc[w]` is where worker `w` is in `_handle_inbox_post`. `Refuse` and
`Verified` are its early returns and their opposite; `Lookup` and `Claim` are the
SELECT and the INSERT of `get_or_create`; `HandlerReturns`, `HandlerRaises` and
`Commit` the transaction in `_apply_inbound_activity`; `Respond` the 202. The
dedup row of an open transaction is not a variable: `HoldsRow` reads it off the
worker's position. `ran` counts committed runs of an activity's handler, which
stands for all its effects. An activity without a string `id` skips the claim.
The prune never removes the id of a request that is under way: it deletes rows at
least a day old.

**InboxThrottle.** `rows` are the ages, in ticks, of each source's attempts; `Tick`
adds one to each, and a row as old as the window leaves, as `created_at__gt` has it.
`Check` and `RecordFailure` are apart, as in the view. `told` runs down from the
last Retry-After and is void once another failure is counted, since the wait was
computed without it.

**Follow.** The home request goes `checked` (row looked up), `posting` (row
recorded), `waiting` (POST under way), `done`. The away inbox's transaction goes
`arrived`, `adding`, `answering`, `ok` or `failed`; its inserted row is
`inserted` until `CommitFollow` makes it `followers`. The blocks are read twice,
by the handler and by `notify`. `HandleAnswer` is the home inbox handling the
Accept or Reject. Activity ids are unique per event here and are never sent
twice, so the dedup of `Inbox` is left out.

**ReviewMirror.** A home action is a committed request with the activities it
posts. `Receive(i)` handles the i-th oldest of them, and `late` counts those that
overtook an earlier one; `Lose` drops one; `Redeliver` applies one whose dedup row
was pruned. `MirrorStatus` is `_mirror_status` for a review: tombstones stay, an
existing row takes the version in hand, a new one needs there to be no other live
review of the film by that author.

**Shelves.** `mark_watched` is a transaction with a step per statement, so that
its locks and its stale reads show; the others are a look and a statement. What a
transaction has written is in `insRead`, `delRow` and `wrote` until `Commit`.

In the modules that follow, `req` (or `job`) is what each open request does and
has read; a request begins with the reads of its view, and writes in later steps,
so another request can come between wherever the code holds no lock. Some of
what then goes wrong is what the code allows. A history variable (`met`,
`lapses`, `crossed`) notes the overlap, and the property excepts that overlap by
name: it holds for every other order of events, and the exception was found by
TLC to be needed. The section on disagreements lists them.

**DomainBlocks.** `Covered` is `blocked_domain_for`: a rule covers its host and
all below. `BlockReads` and `BlockCommits` are the two ends of the sweep's
transaction, `Lifted` what an unblock restores. `Door` is `_resolve_actor`,
`Lookup` is `ensure_mirror`; both fetch and then meet `mirror_user_from_person`
(`Fetched`, `SaveMirror`).

**Reports.** `row[f]` is the report of one reporter about one target; reports
about one target are one pile. `ReportForm`, `CreateReport` and `TellStaff` are
the form's three commits, `HandleFlag` and `CommitFlag` the inbound Flag's one
transaction. `MayDecide` collects the guards of the decision pages, `Resolve` is
the UPDATE of whatever is open by then; `NotAllTold`, `Forwarded` and `MailSent`
lead to `_append_note`, which reads rows and saves each. `signed` stands for the
note a decision left.

**Interactions.** A local request commits statement by statement: the like and
its notice (`like_status`, `InsertLike`, `TellLike`); the text, the mention rows, who has been
told, the notices and the broadcast (`SaveText` to `TellAndSend`). A delivery from
elsewhere is one transaction and so one step. `held` is where copies are that
were not told to be deleted.

**Lists.** `rank` is the stored order, `asked` the order the edits asked for.
`AppendReads` and `MoveFinds` read ranks; the steps after them write. `Compose`
reads the list for the broadcast under the title the request loaded, `Deliver`
and `Lose` are the other instance's handler or the loss of the post.

**Accounts.** `account` is the row, `meant` the row as each operation's own
columns make it: the two differ when a page that saves the whole row takes
another's decision back. `Click` takes the token's lock, `Consume` and
`CompleteReset` spend it. Mail tasks ask nothing of the token, so late and
repeated mails need no action: the link can be clicked from the mint on.

**Joining.** `LockLive` to `CreateUser` is the invite's transaction. The budget
of attempts is read by `Signup` and `LoginPosts` and written by `ValidateSignup`
and `LoginFails`; that it is exceeded by no more than the requests past the check
is a conjunct of `TypeOK`.

**FilmMerge.** `merge_films` loads the form's rows, `Repoint` moves what refers to
the absorbed films, `Commit` deletes them and leaves `MergedFilm` rows.
`resolve_film_id` is a recursive function of the hops left. `Opens` and what
follows are the member's pages, which go by the id they were given; `FillLoads`
and `FillSaves` the backfill and the edit form.

**ImportExport.** The functions are the algorithm: `find_match`,
`find_or_create_film_stub`, `import_row`, `import_film_csv` (a fold over the rows), `export_film_csv`. The
actions only build libraries to evaluate them in; each property is evaluated in
every library and for every file of up to two rows. Titles, years and ids are numbers;
the order of an export is the one sequence of its films that `Precedes` sorts.

Definitions whose name carries a suffix (`Claim_NoIndex`) are the same
definition with a mistake in it. Nothing uses them except to see that a property
fails when they take the place of the original.

## What the runs check

| Run | Bounds | Shows |
|---|---|---|
| `inbox` | 2 workers; 3 activities (with id and handler, without handler, without id); 2 POSTs each; 1 prune each; ~300,000 states | `ExactlyOnceWhileRemembered`, `AcceptedMeansProcessed`, `ClaimIsExclusive`, the refinement `ImplementsExactlyOnce`, and `EveryDeliverySettles` |
| `inbox_throttle` | 3 workers, one address and the unparsed source, limit 2, a window of 4 half seconds | `FailuresBounded`, `ToldWaitFreesARow`, `BlockedSourceIsFreed` |
| `follow` | 3 clicks, 2 open at once, 1 fault, 1 blocking | `SettledAgreement`, `NotedWithRow`, `EveryClickReturns` |
| `follow_overtaken` | as above, no fault and no block | violates `UndoneMeansRemoved` |
| `review_mirror` | 2 reviews, 3 versions, 2 shelvings, 2 late, 2 lost, 1 redelivered; ~690,000 states | `Converged`, `LatestVersionShown`, `NothingInvented`, `TombstoneIsFinal` |
| `review_mirror_edits` | 1 review, 1 late | violates `EditsAreNotUndone` |
| `shelves` | 4 requests, 3 open at once; ~260,000 states | `OneLiveReview`, `LiveReviewIsWatched`, `ExclusiveFromOneTab`, `EmptyTombstonesFromOneTab`, `EveryRequestEnds` |
| `shelves_exclusive` | 2 requests at once | violates `ShelvesAreExclusive` |
| `shelves_tombstone` | 3 requests, 2 at once | violates `TombstonesAreEmpty` |
| `moderation` | 2 requests at once in each of three areas: 2 domains, one below the other, and an account on each; 3 reports (2 ever filed), one a Flag, about a member and a post; 3 people around one post, one remote, 3 requests begun; ~714,000 states | `HiddenHasARule`, `RuleHides`, `RefusalOutlivesBlocks`; `PileToldOnce`, `DecisionIsFinal`, `Explained`, `BannedHasNoPosts`, `NotesAreKept`; `NamedAreReached` |
| `refused_sender` | 1 domain, 1 account, 1 request at a time | violates `SuspendedNeverResolves` |
| `site` | 2 requests at once in each of four areas: 3 films on a list, 2 of them known elsewhere, 5 edits; 2 links of each kind and 2 addresses; 3 names, 2 invites, a budget of 1; 3 films to merge, 4 requests; and a library of 2 films, files of 2 rows; ~486,000 states | `OrderKept`; `LinksAreSound`, `DecisionsStand`; `OneAccountPerDoor`; `EntriesFollow`; `FilesAreSafe` |

Each component has its type invariant `TypeOK`; `InboxThrottle`'s is a conjunct of
`FailuresBounded`, `ReviewMirror`'s of `NothingInvented`, and those of the areas are
`AllTyped` and `SiteTyped`. The bounds are the smallest at which every action
fires and the cases meet: two workers are all that can contend for one id (a
third only waits as the second does), and a delivery that is posted twice meets a
duplicate, a failure and a crash; three clicks are follow, unfollow, follow again;
two reviews are what the unique constraint compares; three open requests are the
smallest cycle of waits that is not a pair. Two requests at once are enough where
a hazard is one request's read made stale by another's write. Two nested domains
are what the question "does another rule stand" needs; three reports are two
reporters in one pile and another pile; a bound on overlaps (`MaxClashes`) keeps
histories with two different excepted overlaps out, where most properties are
silent anyway; three films are the shortest chain of merges; a file of two rows is
the shortest in which one row changes what the next is taken for. One route stands
for both inboxes in `inbox`, since a retry races its first attempt just as the two
routes race each other. All constants named `Max...` are bounds and none is in the
code. Runs other than the throttle's stop when their bounds are spent, so they do
not check deadlock; that requests do not hang is what the liveness properties say.

**Fairness.** `Inbox`: a worker that can take a step of its request does (threads
are scheduled), and a peer that has POSTs left eventually finds an idle worker;
nothing is assumed of crashes, timeouts, refusals in particular, or the prune.
`InboxThrottle`: only that time passes. `Follow`: a request or transaction that
can go on does; clicks, blocks and faults need not happen. `Shelves`: the same,
and a request waiting to save is not assumed to find that there was nothing to
save. `ReviewMirror` has no liveness property: nothing is retried, so nothing
must arrive. The areas of `moderation` and `site` state safety only: their requests
are straight sequences of statements that wait for nothing but a lock whose holder
goes on, and what matters is where they end.

## Where the code and its documents disagree

Shown by runs:

- **An Undo can miss its Follow** (`follow.py:155`). While the Follow's
  transaction waits for the Accept to be answered its row is not committed; an
  Undo handled meanwhile deletes nothing, and the row appears afterwards. The
  other instance lists a follower who has unfollowed.
- **A late Create undoes an edit** (`statuses.py:441`). Nothing compares the edit
  times.
- **A film on both shelves** (`core/models.py:1470-1473`). The check on Watched
  and the insert on Watchlist are two statements, and a finish can commit between.
- **A tombstone with a rating** (`core/models.py:1443`). A finish saves the review
  it read although it was deleted since.

- **A refused account gets in** (`mirrors.py:452`). The lookup leaves a suspended
  mirror out, so its document is fetched as a stranger's, and the suspended mirror
  is then returned as the sender.

Stated in the modules, refuted by TLC when added to the run's configuration, and
without a run of their own:

- `AmplificationBoundedAtLimit` (`inbox_throttle.py:29-31`): workers past the
  check exceed the limit by up to their number less one, which `FailuresBounded`
  makes exact.
- `ToldTimeIsHonest` (`inbox_throttle.py:105`): with the limit exceeded, the
  oldest row's going is not enough. It holds with one worker.
- `NothingCountedGetsOne` (`inbox_throttle.py:105-106`): when the last row ages
  out between the refusal and the second query the peer is told 60, not 1.
- `SuccessMeansProcessed` (`social/views.py:822-825`): an error response is not
  an exception, so the page reports success.
- `RejectEndsItsFollow` (`follow.py:68-70`): a Reject whose delivery the other
  side took for failed is handled at home after the member has followed again,
  and removes the new row.
- `ShelfConverges` (`statuses.py:360-361`), `DeletedIsNotShown`
  (`objects.py:559-560`), `SafeToRunTwice` (`activitypub/models.py:28-29`): shelf
  events out of order, a Delete before its Create, and an old activity applied
  again after the prune each leave the mirror wrong.

Named by a property as what it excepts, and found by TLC when the exception is
taken out:

- *Moderation.* Two unblocks at once, or an unblock and a block, leave an account
  hidden that no rule covers (`HiddenHasARule`), since each counts on the other's
  row. A block misses the account that is first met while it runs (`RuleHides`). A
  refusal that overlaps a block or an unblock is written over
  (`RefusalOutlivesBlocks`). Two forms about one target at once see each other's
  row and nobody is told; two Flags see neither and the staff is told twice
  (`PileToldOnce`). Two decisions at once leave the outcome of the one and the
  report of the other (`Explained`). A post published during a ban survives it
  (`BannedHasNoPosts`). A line appended while a decision is signed writes over the
  note (`NotesAreKept`).
- *Interactions* (`NamedAreReached`). Two likes from two tabs tell the author
  twice; two edits at once leave mention rows that are neither text's, fail, or
  tell of a mention twice, where `mentions/notify.py:20-21` has it once ("crossed").
  A finish without text keeps the review's text and clears its mention rows, as
  the mentions are read off the form (`core/views.py:511`): they no longer are
  what the saved text says, as `mentions/models.py:71-73` has it ("emptied": one
  tab is enough). An edit that drops a remote member, and then a delete, never
  reach that member's instance, which keeps its copy ("dropped").
- *Lists* (`ListAsAsked`). Two additions or two moves at once leave two films on
  one rank, or an order nobody asked for.
- *Accounts.* Two reset requests at once leave two live links (`LinksAreSound`);
  the profile page and the admin's page save the row as it was loaded, and take
  back a password, an address, a verification or a suspension set meanwhile
  (`DecisionsStand`). The setup page posted twice at once makes two admins
  (`OneAccountPerDoor`).
- *FilmMerge* (`EntriesFollow`). A save that was loaded before a merge inserts the
  absorbed row again ("revived"): the backfill's second save, after the poster, or
  a merge into a film that another has absorbed meanwhile, after which two
  `MergedFilm` rows can lead in a circle (`core/models.py:293-294` has them lead to
  a film). A block made during a merge goes with the row it is on ("crossed").
  Merging a watchlisted film into a watched one leaves it on both shelves, and two
  films that one member has reviewed can never be merged, as the constraint fails
  the UPDATE (`core/models.py:239`); both hold in the model and break no property.
- *ImportExport*. A re-import is not a no-op (`import_export.py:5`) for a film that
  is in the export for a comment alone, has no id and no year, shares its IMDb id
  or its title and year with another, or has a title that is quoted and no id
  (`ReimportIsNoOp`). A file imported twice changes more the second time when a row
  lacks an id and a year, or when two rows have an id or a title in common, with each
  other or with one film (`ImportsSettle`). The last is a case that no file of the run
  meets, found by the proof: with a film of TMDB id 2 and IMDb id 3, a first row
  (TMDB 1, IMDb 3, title 1, rated) is taken for it by its IMDb id, and a second (TMDB 1,
  title 3, unrated) makes a film with TMDB id 1; imported again, the first row is taken
  for that one, and finishes it.

## What is proved

For every value of the constants, under the modules' own assumptions only.
`InboxAssumption`, `ShelvesAssumption`, `DomainBlocksAssumption`,
`InteractionsAssumption`, `FilesAssumption` and `MirrorAssumption` say what the sets of the model are and
that the bounds are numbers; `JoiningAssumption`, `FollowAssumption` and
`ThrottleAssumption` also that requests or workers are finitely many and that a limit
and a window are not zero. `SiteAssumption` has tokens of one kind each, finitely many
films, and no more films than `resolve_film_id` follows hops: a chain of more merges
than its 100 does end short of the film, in the code as in the model. Nothing else is
assumed of how many workers, activities, accounts, posts or requests there are, and no
fairness.

| Theorem | Says |
|---|---|
| `InboxProofs!TypeCorrect` | `[]TypeOK` |
| `InboxProofs!ExactlyOnceHolds` | `[]ExactlyOnceWhileRemembered`: committed effects keep step with dedup rows |
| `InboxProofs!AcceptedHolds` | `[]AcceptedMeansProcessed`: a 202 was earned |
| `InboxProofs!ClaimHolds` | `[]ClaimIsExclusive`: one open claim per id, none beside a committed row |
| `InboxProofs!Refinement` | `Inbox` implements `ExactlyOnce` |
| `ShelvesProofs!TypeCorrect` | `[]TypeOK` |
| `ShelvesProofs!OneLiveHolds` | `[]OneLiveReview` |
| `ShelvesProofs!WatchedHolds` | `[]LiveReviewIsWatched` |
| `ShelvesProofs!ExclusiveHolds` | `[]ExclusiveFromOneTab` |
| `ShelvesProofs!EmptyTombstonesHold` | `[]EmptyTombstonesFromOneTab` |
| `InboxThrottleProofs!FailuresAreBounded` | `[]FailuresBounded` |
| `InboxThrottleProofs!ToldWaitsHold` | `[]ToldWaitFreesARow` |
| `FollowProofs!TypeCorrect` | `[]TypeOK` |
| `FollowProofs!NotedHolds` | `[]NotedWithRow` |
| `FollowProofs!AgreementHolds` | `[]SettledAgreement` |
| `ReviewMirrorProofs!NothingInventedHolds` | `[]NothingInvented` |
| `ReviewMirrorProofs!TombstonesStay` | `TombstoneIsFinal` |
| `ReviewMirrorProofs!ConvergedHolds` | `[]Converged`: in order and with nothing lost, the copy is what the author has once all has arrived |
| `ReviewMirrorProofs!LatestIsShown` | `[]LatestVersionShown`: and after losses, each review that was heard of since |
| `SiteProofs!DoorsHold` | `[]OneAccountPerDoor` |
| `SiteProofs!BudgetsHold` | `[]TypeOK` of `Joining`, and with it the budgets of attempts |
| `SiteProofs!LinksHold` | `[]LinksAreSound` |
| `SiteProofs!DecisionsHold` | `[]DecisionsStand` |
| `SiteProofs!EntriesAreFollowed` | `[]EntriesFollow` |
| `SiteProofs!OrdersAreKept` | `[]OrderKept` |
| `SiteProofs!FilesHold` | `[]FilesAreSafe`: libraries of any size, files of any length |
| `SiteProofs!SiteIsTyped` | `[]SiteTyped` |
| `ModerationProofs!PilesAreToldOnce` | `[]PileToldOnce` |
| `ModerationProofs!DecisionsAreFinal` | `DecisionIsFinal` |
| `ModerationProofs!DoneIsExplained` | `[]Explained` |
| `ModerationProofs!BansLeaveNoPost` | `[]BannedHasNoPosts` |
| `ModerationProofs!DecisionsKeepTheirNotes` | `[]NotesAreKept` |
| `ModerationProofs!NamedAreToldOnce` | `[]NamedAreReached` |
| `ModerationProofs!AllAreTyped` | `[]AllTyped` |
| `DomainBlocksProofs!BlocksAreTyped` | `[]TypeOK` of `DomainBlocks` |
| `DomainBlocksProofs!HiddenHolds` | `[]HiddenHasARule` |
| `DomainBlocksProofs!RuleHidesHolds` | `[]RuleHides` |
| `DomainBlocksProofs!RefusalHolds` | `RefusalOutlivesBlocks` |

**Inbox.** The inductive invariant is `TypeOK`, the three safety properties and
`AnswersAreEarned`. A commit adds one effect and one row, which keeps them in
step only if the row was not there yet: that is the exclusive claim, since a
worker at its commit holds the row. The claim itself stays exclusive because
`Claim` alone opens one, when nobody else holds it. A 202 is given two steps
after the row was seen or written, so what a worker knows in between has to be
said: a worker that reports a duplicate, or is about to answer, has a processed
activity. `ProcessedStable` carries that over every other step, the prune
included, which turns a row into a forgotten one and never into nothing. The
refinement maps a commit to `Take` or `TakeUnkeyed` and a prune to `Forget`; the
invariant gives `Take` its guard, and every other step stutters.

**Shelves.** `OneLiveReview` speaks of committed rows, but what could break it is
in open transactions. `Inserts` therefore states the partial unique index over
both: live rows are one, inserters are one, and never both. It needs
`RowsAreOld`, that a review row belongs to a request that has ended, or else an
update of the request's own name would pass for an insert. `LiveReviewIsWatched`
needs `ShelvedFirst`: past its first write a finish sees or has inserted the
Watched row. What holds from one tab needs `OneTab`: with a single open request
the Watchlist row a finish deletes is the one that is there, a shelve still finds
the film unwatched, and the review a finish saves is still live. Those three are
what a second tab breaks, and the two violation runs show how.

**InboxThrottle.** The count is not inductive by itself: a worker adds to it long
after its check. What never grows past the bound is the count with the workers at
work added (`Room`); a check adds to that only below the limit, and recording a
failure moves one from the second number to the first. A wait is told from the
oldest row and rounded up, so while no further row fits the oldest one goes before
the wait is over (`Waits`): a tick takes one from the wait and adds one to the age.

**Follow.** Row and notification commit in one step, but what the commit writes was
decided earlier: `Decided` says that only a Follow being answered has inserted its
row, and with which verdict, `Withheld` that a notification is left out only after a
block. For `SettledAgreement` the argument follows the one click that is open
(`OneAtWork`): until its transaction ends home holds what the click asked for
(`Ahead`), and before and after it the two sides agree (`Rested`). A fault ends the
premise.

**ReviewMirror.** Everything under way or ever processed tells of a version that was
written (`Known`), and versions only grow, so a copy taken from any of it, in any
order and however often, is never ahead. That one review is live is checked by each
insert; that a tombstone stays needs no invariant beyond the types. For `Converged`
the activities under way, handled in the order they were posted, lead from the copy
to what the author has (`CatchesUp`): a post adds a last step, a delivery takes the
first away. With losses no such path is left, but the order is (`InOrder`): the last
that is told of a live review is its latest version, and no Delete of another comes
after it. So a review that was heard of since is shown, is still to be told of, or
is kept out by one whose Delete was lost (`Overstays`).

**Joining.** That an invite makes one account is about the lock: `Held` says its
holder is one and that what it holds is not spent, `Spent` that an invite is used
exactly when one account came of it. A worker that dies lets go of the lock and has
made nothing. Setup locks nothing, so `OneForm` holds only while no two forms have
overlapped: then one is open at most, and only while there is no admin. A budget is
checked in one step and counted in another; `Room` counts the requests in between
with the attempts on record, and that sum never grows past the limit plus all the
requests but one.

**Accounts.** A click holds its token's lock, so `Unspent` can say that a locked
token was not accepted yet and that no second click has it. `OneLink`: whoever
is about to mint has seen every live link it must supersede, and is the only one to
mint, which for resets holds until two have overlapped. An address counts as proven
only by a token that was accepted, in the row and in every row a page has loaded and
may save again (`AllProven`).

**FilmMerge.** That walking the `MergedFilm` rows ends is shown by numbering the
absorbed films, each after those that were absorbed into it (`Ordered`): a walk
goes to ever later ones, and of those there are fewer than there are films. `resolve_film_id` is a recursive function; what it gives is
a walk of `Hops` steps (`Unfolded`), and a merge only lengthens the walks that
ended in an absorbed film. The member's rows are then where the walk ends
(`AllFound`). For its types, `Rowed` adds that a TMDB id is on one row and that an id
without a row has nothing on it.

**Lists.** Each open edit's reads still hold unless two of a kind have overlapped
(`InRank`): the rank an addition will take is above all others, a move's two rows
have the ranks it read. A swap then leaves the rank at each place of `asked` what
it was. A removal takes the rank to 0 and marks the moves that named the row,
which then fail. For the copy, alone there is one request, and either the copy is
the list or that request has made a change that its document will tell (`Told`).

**ImportExport.** What must be known of a library is `WellKept`: each TMDB id is on one
film, a rated film was watched, no film is on both shelves. In such a library
`find_match` finds the one film there is to find (`MatchIs`), so a row changes that film
alone (`RowMoves`), adds what it lacks, and takes no rating or Watched film away
(`RowKeeps`). A row is `Settled` when the library says all that it says; then it does
nothing (`SettledIsNoOp`), a row with an id or a year is settled once it was read
(`RowSettles`), and it stays so while rows that are not like it are read
(`SettledStays`). Every row of a clear file is therefore settled after one import, and
every row of an export that leads back is to begin with. A file is a fold over its rows,
taken apart in `ImportIs` into the libraries `Between` them; each induction over them is
by the least number at which the claim would fail. That an export has the films in some
order at all is `SortedExist`, since the export chooses one.

**Reports.** The properties except overlaps by name, so the invariant is about what
overlaps: `Overlaps` says that any two open requests whose kinds clash are on
record, and each of the others what holds while a clash is not. `Heard`: an open
pile has one alert and whoever files finds it. `NoPostLeft`: nobody publishes while a
ban sweeps. `Remembered`: what was read of the notes is what is there. `OpenStill`: a
report about to be decided is open, so `Accounted`: a deed has its report. A Flag alone
inserts in one step and commits in another, so `FlagsAreNew` has to say that nobody
else has filed that report in between.

**Interactions.** `IGround` is what holds whatever overlaps: texts name members, a
note is of something that was written, and a reply's author is told once.
`OneByOne` is what holds while one member has one tab: what a request read of
likes, rows and notes is still so, so nobody is told twice, and a copy is where the
mention rows say. `Unbroken` is what holds if besides no request died: whoever is
still to be told or sent a copy is on the list of an open request. That likes stay
within their bound is about all requests together (`LikesBegun`): each like used one
request begun or one delivery, and one that is about to be inserted has used one more.

**DomainBlocks.** Each promise rests on what an open request has read still being
so when it commits, unless the overlap that could change it was noted. `BlocksNoted` says
that every such overlap of open requests is on record. `RefusalsStay`: nothing a
block or unblock is about to save over is a refusal. `HiddenStay`: what is hidden or
about to be has a rule, and an unblock has seen all that only its own rule hides.
`RulesStay`: a block has seen all that it must hide, an unblock nothing that another
rule covers, and what is about to be mirrored is under no rule. The types need
`MirrorsOnly`: what a request is about to save over was held when it was read, and
nothing that is held is let go.

Each conjunct that is hard to keep has a lemma of its own, with a step per action;
the invariants were checked by TLC on the instances of the runs before they were
proved.

Left to TLC, on the instances above: liveness and whatever rests on ENABLED
(`EveryDeliverySettles`, `BlockedSourceIsFreed`, `EveryClickReturns`,
`EveryRequestEnds`), which the temporal prover does not reason about. Every other
property of a passing run is stated by a theorem. The prover cannot be given the
induction theorems of its library, which take an operator; the inductions here (over
the hops of a walk, the activities under way, the rows of a file) go through sets of
numbers and the least element of one.

## Not modelled

Whole components: the home feed, which is derived anew at each read and changes
nothing; documents and collections served read-only; the source address behind a
proxy, a walk over one header; the TMDB client and the HTTP guard (I/O);
templates, scripts, styles, settings and packaging. Cryptography is a signature
that verifies or does not.

Parts of components: the refresh of a mirrored profile; the deletion of a reply;
suspensions and bans that change while members interact; the deletion of a film
and the editing of `MergedFilm` rows by the raw admin; two imports at once;
sessions and signing keys; reading and clearing the notifications page; the parser
of mentions, which is the set of members a text names. `PROJECT.json` lists each
component with its state, and every hazard with the properties that cover it.

Within what is modelled: rows of different films, pairs of members, lists or
accounts share no key, so one of each stands for all, except where several meet
(merges, files, domains). A review's text and rating are one version number, a
text elsewhere the set of members it names. Handlers other than those of `Follow`,
`ReviewMirror`, `Interactions`, `Lists`, `Reports` and `DomainBlocks` are the one
abstract effect of `Inbox`; there a delivery that is one transaction and waits for
nothing is one step.

## Plan

What is left, in order:

1. Composition of `Shelves` with `ReviewMirror`: the finish view reads before its
   transaction whether to send a Create or an Update, and whether the watchlist
   removal (`core/views.py:486`), and the broadcast follows the commit.
2. `Feed`: paging by cursor over grouped shelf events (`core/models.py:1148`) as a
   function against a reference definition.
3. `Follow` with the activity's own id in the Reject (`follow.py:230`), to state
   what comparing it would give.
4. An abstract specification of the shelves (a film is unshelved, wanted or watched,
   one live review at most) and of a report (open, then decided once), which `Shelves`
   and `Reports` implement step by step, as `Inbox` does `ExactlyOnce`.
