# A verification project for monkeys_brain

The Monkeys is a publishing platform with events, groups and discussions: Go
services behind an HTTP gateway, speaking gRPC to each other and RabbitMQ to
each other's consumers, over PostgreSQL, OpenSearch, Redis and MinIO.  This
directory holds TLA+ models of its core logic, what TLC checks of them on small
instances, and what TLAPS proves of them for every instance.

## 1. Inventory

Paths are relative to `src/microservices/` unless they say otherwise.

| Component | State | Operations | What is hard | What makes it correct |
|---|---|---|---|---|
| Events, `the_monkeys_events` | PostgreSQL: `events`, `event_ticket_tiers`, `event_coupons`, `event_attendees`, `event_payments`, settlements | RSVP, cancel with promotion, host review, checkout, webhooks, refunds, publish/cancel/archive, edits of capacity and tiers, recurring series | row locks that some statements take and others do not; a refund goroutine with a stale list; webhooks late, twice or out of order; crashes between gateway and database | no oversell; a cancelled event is empty; money and ledger agree with the gateway; a paid seat that is lost is refunded; the coupon's counter |
| Groups, `the_monkeys_groups` | PostgreSQL: `groups`, `group_members`, `group_permissions`, `group_join_requests`, `group_bans`, `group_invites` | join, leave, roles, removal, ban, requests, invite links, status, account deletion | five tables kept in step by a dozen handlers, one of which takes no group lock | bans hold; grants end with membership; links are limited; the organizer stays; the counter covers the members |
| Message bus client, `rabbitmq` | the shared `ConnManager`: connection, generation, confirmation channel, mutexes | publish with and without confirmation, reconnect, consume | goroutines sharing one confirmation channel; connection loss at any point; reconnects by several of them | success means stored; nobody waits for ever; consumption resumes |
| Consumer loops (blog, storage, users, notification, activity, cache) | deliveries with auto-ack | one handler per action name | messages lost between delivery and handling | mirrored rows agree with the source |
| Blog, `the_monkeys_blog` | OpenSearch documents with `_seq_no`, audience and group; PostgreSQL rows written by the users service's consumer | draft stream, publish, schedule, move back, archive, delete; a scheduler in every instance; updates of a group's posts | document first, message second; several schedulers on a search that lags; retries after a lost answer; messages about a group against posts under way | an order to publish is carried out once, in time, and decided; documents are announced; row and document agree; a closed group has no public posts |
| Authorization, `the_monkeys_authz` | `user_account`, Redis: pending registrations, reset codes, cooldowns | register, verify, resend, reset; tokens, OAuth | read-modify-write in Redis | at most a fixed number of guesses; one account per address |
| Users, `the_monkeys_users` | profiles, permissions, co-author invitations, follows | account deletion across services | a saga with no compensation | nothing of a deleted account remains |
| Storage, `the_monkeys_storage` | `storage_assets`, `asset_references`, verification requests that point to assets, MinIO | register, reference, replace, delete, collect | the last reference against a new one; an object store beside a database | nothing that is referenced is collected; what nobody references is |
| Discussions, `the_monkeys_discussions` | threads, comments, reactions and their counters | post, react, delete, moderate | counters beside rows | counters agree with rows |
| Notification, activity, cache, AI, stream, gateway | append-only tables, read models, none | insert, query, translate | little shared state | - |

Interactions: the gateway calls every service by gRPC.  `the_monkeys_authz`,
`the_monkeys_users` and `the_monkeys_blog` publish on one exchange through
`rabbitmq.ConnManager`; each service consumes a queue of its own.  Account
deletion in the users service calls events and groups first and then publishes
to storage, blog and notification.  Razorpay calls the events service back
through webhooks; the events service calls it to open orders and to refund.

`PROJECT.json` repeats this list component by component with what is modelled
of each, and lists the hazards at the lines where they bite.

## 2. Plan

In order of importance; items 1 to 6 are built.

1. `EventRSVP` (seats, money and coupon of one event), `EventRSVP_proofs`,
   `EventCoupon_proofs`.
2. `GroupMembership` (one group), `GroupMembership_proofs`.
3. `MessageBus` (one process's connection manager and its users),
   `MessageBus_proofs`.
4. `ScheduleContract`, what an author who schedules a blog is promised;
   `BlogIndex`, the handlers, streams and schedulers that implement it, with
   `BlogIndex_proofs`; `BlogPipeline`, the index composed with its messages and
   with the consumer that mirrors it, with `BlogPipeline_proofs`.
5. `AssetRefs` (content-addressed storage, its clients and its collector),
   `AssetRefs_proofs`.
6. `GroupPosts` (a group's visibility and deletion against its posts, between
   the groups, gateway and blog services), `GroupPosts_proofs`.
7. `OTPRegistration`: Redis key, attempts, cooldown, expiry, two clients.
8. `AccountDeletion`: the users saga over events, groups, PostgreSQL and three
   messages; what a refusal half way leaves.
9. Discussions, bulk RSVP over a series, settlements on top of the ledger.
10. Abstract specifications worth stating next, with the step by step proof that
    the model implements them: `SeatBook` (a set of holders and a limit) for
    `EventRSVP`; a reliable queue for the publishers of the bus that report
    success.  Every invariant and action property the passing runs check has its
    theorem (section 6).

## 3. Modules and the code

### EventRSVP: `the_monkeys_events`

One event, its tiers, its coupon, one attendee row per user, the payment ledger,
and around them the gateway and the refund goroutines.

- The grain of atomicity is the locking of PostgreSQL under READ COMMITTED.
  Handlers that take `SELECT ... FOR UPDATE` on the events row are serialized;
  `txn` is the one that is open.  `CreateRSVP` and `CancelRSVP` are split
  (`BeginRSVP`/`CommitRSVP`, `BeginCancel`/`CommitCancel`), because each uses a
  value it read before that another statement may change: the status seen, the
  tier, whether the seat is refundable.  `ReviewRSVP` locks the row as well and
  is one action.  `SetEventStatus`, `UpdateEvent` and `UpdateTicketTier` read
  without any lock and are split too, with one of each in flight at a time.
- Statements that need the events row (every `UPDATE events`, and the `INSERT
  INTO event_payments` of `ConfirmPayment`, whose foreign key takes `FOR KEY
  SHARE`) wait for `txn`; statements on attendee and tier rows do not.
- `ConfirmPayment` locks the attendee row and then needs the events row,
  handlers do it the other way round: the deadlock PostgreSQL resolves by a
  victim is `Rollback`, or a webhook delivered again.
- An order goes `requested`, `created` (at the gateway), `open` (attached to its
  row; only now does the client know it), `paid`, `refunded`; or `dead`.  Orders
  are numbered and a payment has its order's number.  Webhooks may come at any
  time after the payment, any number of times.
- `refundAll` is one action per call it makes: list, refund (done, refused, or
  done while the client timed out), mark, mark failed.  `Crash` ends the
  transactions, the checkouts and the goroutines.
- Abstractions: one coupon, valid for every tier; prices are amounts in paise of which only
  being positive matters; RSVP windows, question answers, notifications, the
  status `live`, deletion of the event, its tiers or its coupon, bulk RSVP over
  a series, settlements and account deletion are left out.  `seatLimit` is a
  ghost: `UpdateEvent` may lower the capacity below the seats taken and revokes
  none, so the promise is "no more than the capacity, or than an edit found".

### GroupMembership: `the_monkeys_groups`

One group with the five tables around it, and `user_account` for the cascades
of its deletion.  A handler that takes `lockGroup` is one action with its
permission check; `UpdateMemberRole` and `RejectJoinRequest` are one action by
the lock on their member or request row.  `AcceptInvite` locks the invite row
only, and is split: `BeginAccept` (link, group, ban), `ReadMembership` (an
existing member row is locked from here, an absent one is not), `CommitAccept`,
`AbortAccept`.  `RowFree` says that other handlers wait for the locked row.
`groups.visibility` has two values, `private` standing for unlisted too, which
the code treats the same way.  Expiry and revocation of a link both end it.
Not modelled: deletion of the group, rules, media, featuring, search.

### MessageBus: `rabbitmq` and the consumer loops

One process: `Reliable` goroutines each call `PublishReliable` once, `Plain`
ones `PublishMessage` once, `Consumers` run `consumeQueue`.  A connection
carries whether its channel is open, the holder of `pubMu`, the publishes the
broker has not answered and the content of `confirmCh`.  Confirmations come in
order and are taken by whoever holds `pubMu`.  `writer` is the write lock of
the manager, held by whoever dials.  Generations are only compared for
equality, so a connection nobody refers to is reused as a fresh one.  Waiting
times and backoffs are left out; `MaxRetries` is kept.  The AMQP library and
the broker are external: they close the confirmation channel with the channel,
as the library documents, and either answer a publish or lose the connection.

### ScheduleContract and BlogIndex: `the_monkeys_blog`

`ScheduleContract` is abstract: per blog a standing order (none, waiting, due)
and how many orders were carried out.  An order may be placed, replaced,
withdrawn, become due, and be fulfilled only while due; none stays due for ever.

`BlogIndex` has the documents (status, time, archived, failed cycles, sequence
number), the version of each that searches see, the autosave streams and one
scheduler per instance.

- Every write is one action: OpenSearch makes it atomic per document and gives
  it a new `_seq_no`.  `_primary_term` is left out, as it changes only with a
  failover, after which the comparison fails as it does for a new number.
- `Refresh` lets searches catch up.  `DueHits` reads the lagging version; the
  hits keep the numbers they were found with, and `PublishScheduledBlog` makes
  them the precondition of its update.
- One attempt may be committed, refused (conflict: not retried; gone: retried),
  fail, or be committed without an answer.  After `MaxRetries` the failed cycle
  is counted on the document, unconditionally, as in the code.
- `DraftBlogV2` asks once per connection whether the blog is published, then
  announces it if it does not exist, then saves; an index request replaces the
  document.  The older stream `DraftBlog` is not modelled.
- A crash loses the cycle of a scheduler.  A lost answer of a handler leaves the
  write done and the message unsent.
- `created` is a ghost: whether the broker took a `BLOG_CREATE` since the blog was
  last deleted, or that deletion came upon a stream past its own (`overrun`),
  which writes on without asking again.
- The refinement mapping reads the order off the document: scheduled, not
  archived, not given up; due once its time is reached.

### BlogPipeline: the blog service, the bus and `the_monkeys_users`

EXTENDS `BlogIndex`.  Handlers leave their message to a goroutine (`outbox`, a
bag: goroutines overtake each other); streams and schedulers send in line.
`SendFromGoroutine` stores a message, stores it twice (a confirmation was lost),
or gives up.  The consumer of the users service applies the queue to the rows: a
refused or failed message goes to the dead letter queue, a repeated delivery is
applied again, `BLOG_UPDATE` without a row ends the process.  `raced` and
`astray` are ghosts that name the two ways the code lets row and document part:
messages about one blog overlapped, or a change and its message were parted for
good: by a lost answer to the write, a send given up, a crash before the send, a
delivery dropped, a stream that ends between its `BLOG_CREATE` and its first
write, or a stream's save that changes the status and tells nobody.

### AssetRefs: `the_monkeys_storage` and its clients

`asset` holds the bucket of a checksum's canonical key or "none", `objects` what
MinIO holds (checksum and bucket), `live` the reference of each slot: a file of a
blog, or a document of an applicant.  `active` and `past` are the checksums that
undecided and decided verification requests point to.

- An upload is the sequence of calls the gateway makes: check, put, register,
  reference, each a step others may come between, and which it may abandon.
- `DeleteAssetRef` and `ReplaceAssetRef` are transactions split where they read:
  mark, `CollectOrphans`, `PurgeOrphanedStorageAsset` per orphan in a savepoint,
  `Commit`.  Rows they hold make others wait (`SlotLocked`, `BeingDeleted`,
  `MustWait`); the foreign keys refuse; a cycle of waits fails one statement.
- Objects are removed after the commit; a failure or a crash leaves the object.
- `overtaken` and `disturbed` are ghosts: an upload of the same bytes came between
  the deletion of a row and the removal of its object; others changed references
  while the transaction was open.
- Deletion by path prefix, presigned URLs and the gates on reading are left out.

### GroupPosts: groups, gateway and blog

One group (open, closed, deleted), its author's membership, its posts (status,
whether in the group, audience, sequence number), the gateway's publication
requests (`AuthorizeRequest`, later `WriteRequest`), the editors' saves
(`ReadScope`, later `WriteDraft` with a precondition), a scheduler, and the
messages `coerce` (the group closed) and `detach` (it was deleted).  The consumer
runs one update by query at a time: it searches, then rewrites hit by hit, and
skips the documents that changed since.  Messages may be lost, sent twice and
taken in any order.  `late` names a post its last update missed, or one written
on an authorization from before the group changed.

The modules `MCEventRSVP`, `MCGroupMembership`, `MCMessageBus` and `MCAssetRefs`
add the values of constants and the symmetry sets; `BlogIndex`, `BlogPipeline`
and `GroupPosts` are checked directly.  Definitions named `Bug...` are faulty
variants of the definition that follows them and occur in no specification; each
shows that one property notices one plausible bug.

## 4. Runs

| Run | Question | Instance |
|---|---|---|
| `rsvp_seats` | seats, cancellation and review gate under every edit (`NoOversell`, `CancelledIsEmpty`, `ReviewGate`, `EndedIsFinal`) | 3 users, 2 free tiers (one of a single ticket, and an edit that limits the other), capacity 1 or 2, review switched on and off |
| `rsvp_money` | money, ledger and coupon (`SeatedMoneyHeld`, `LedgerAgrees`, `RefundFollowsLostSeat`, `CouponWithinLimit`, `CouponUsesBacked`, and `NoOversell` with paid seats) | 2 users, one paid tier, capacity 1, a coupon of one use, 2 orders, 2 refund goroutines |
| `group_membership` | roster, grants, requests, bans, link, counter (7 properties) | organizer and 2 users who may be promoted to co-organizer and delete their accounts, 1 link of 1 use |
| `bus_confirms` | confirmations and consumption (`OkMeansStored`, `ConfirmOutstanding`, `ConsumptionResumes`) | one reliable and one plain publisher, one consumer, 2 failures, 1 timeout, 2 attempts |
| `blog_index` | does the index implement the contract of a schedule? (`ImplementsContract`, a refinement with liveness; `HitsAreStaleOrDue`, `EveryDocumentWasAnnounced`) | 1 blog, 2 schedulers, 1 stream, 2 retries, 4 requests, 2 faults |
| `blog_pipeline` | do rows follow documents through the messages? (`AnnouncedWasPublished`, `StoresAgree`) | 1 blog, 2 schedulers, 2 streams, 3 requests, 1 fault |
| `asset_refs` | references against the collector and the object store (`ReferencedHasAsset`, `ReferencedHasObject`, `CanonicalKeyStays`, `LastReferenceCollects`) | 2 checksums, a blog with 2 files, 1 document, 2 verification requests, 5 operations, 1 fault |
| `group_posts` | do posts follow their group? (`ScopeFollowsGroup`, `OnlyAuthorsOpen`, `SavesKeepScope`) | 1 post, 1 request, 1 editor, 5 operations, 1 fault |
| `rsvp_tier_oversold` | does a full tier waitlist everybody? No | 3 users, 2 tiers |
| `rsvp_refund_lost` | is a payout always retryable? No | 1 user, 2 orders |
| `group_ban_undone` | is a banned user kept out? No | organizer and 1 user |
| `bus_publisher_hangs` | does a publish survive a blip? No | 1 publisher, 1 consumer, 1 failure |

Why the bounds suffice.  A race over a seat needs one user who leaves, one who
waits and one who comes; capacity 2 lets one of them keep a seat meanwhile.  The
money properties relate one payment of one user to a second order of that user,
or to the other user who takes the seat: two orders, and two goroutines so that
a stale list meets a fresh one.  In a group each hazard involves an actor and
one target, and the second user plays the second acceptor of the link.  The
counter's bound `MaxCount` only stops account removal from raising the drift
without end.  On the bus, two failures let a retry meet the second one; a late
confirmation needs one timeout, and the plain publisher is whom it may confuse.

The blog, asset and group-post runs count what users ask for (`MaxOps`) and what
fails (`MaxFaults`).  One blog is enough for the index, as every write, search
hit and message concerns one document; two schedulers race for it while the
author edits, four requests allow schedule, edit, reschedule and delete, and two
faults a lost answer followed by a crash.  Two streams in the pipeline make the
two announcements overlap.  Two checksums let a replacement give up one asset and
take the other while a second client does the reverse; five operations hold two
uploads, a removal, a request and its review.  In `group_posts` five operations
allow publish, close, save, re-open and delete.

Deadlock is checked in the events and groups runs.  It is off elsewhere: on the
bus each publisher has one message, so the process comes to rest, and
`bus_publisher_hangs` runs into the spinning drain itself; the blog, asset and
group-post models come to rest when the operations of the bound are used up and
everything they started is done.

Fairness.  `EventRSVP`, `GroupMembership`, `BlogPipeline`, `AssetRefs` and
`GroupPosts` state safety only, as nothing in the code forces a client, a gateway
or an organizer to act.  `MessageBus` assumes weak fairness of every goroutine
(the Go scheduler runs what is runnable, and the mutexes are handed on), of the
broker on an open connection, and of dialling (the code dials in an endless loop;
a dial that never succeeds is not of interest).  Nothing forces a failure or a
timeout.  `PublishReturns` fails under that fairness, not for the lack of it.
`BlogIndex` assumes weak fairness of the refresh of the index (OpenSearch
refreshes on a timer) and of each scheduler (its loop polls on a ticker); that a
due order is decided in the end rests on these two and on faults being finite.

## 5. What disagrees with the comments of the code

Shown by a run:

1. `promoteFromWaitlist` ignores the capacity of the tier it promotes into
   (`TierNotOversold`).
2. An attendee who cancels and responds again before the refund goroutine has
   listed the payment loses the claim to it: `payment_id` is cleared
   (`RefundStaysPayable`).
3. Approving a request that was pending when its author was banned undoes the
   ban (`BannedStaysOut`); `BanIsFinal` states what does hold.
4. A retry of `PublishReliable` on a closed connection drains a closed channel
   for ever, holding the publish mutex (`PublishReturns`).

Met while modelling, and kept in the models as the code does it:

5. `UpdateTicketTier` counts the bookings of a tier and writes its capacity with
   no lock in between: after an RSVP that commits meanwhile the capacity is below
   what is taken, although `tickets_coupons.go:116` says it may not be.
6. `SetEventStatus` writes over a cancellation that committed after its read: the
   event is published again and its guests stay released, although
   `events.go:651` says a cancelled event cannot change status; `UpdateEvent`
   changes the capacity of an event that ended after its read.  `EndedIsFinal`
   states what does hold: only a write in flight can do either.
7. A blog that is deleted and written again by an editor may be left as a document
   without a row, with no fault, although `service_v2.go:211` says never: the
   goroutine of the deletion sends after the stream's `BLOG_CREATE` (`raced`), or
   the stream was open across the deletion and announces nothing (`astray`,
   `overrun`).  `StoresAgree` and `EveryDocumentWasAnnounced` say that there is no
   other way.
8. A capture for a reservation that failed or was released is acknowledged and
   recorded nowhere (`attendees.go:322`).
9. `AcceptInvite` updates `member_count` outside the lock and can count twice;
   `CountCoversMembers` states what does hold.
10. Two consumer loops on one manager, as in the storage service, reconnect each
    other for ever after one lost connection; `ConsumptionResumes` holds with one.
11. A `BLOG_UPDATE` about a blog without a row ends the users process and is
    delivered to it again, although its comment says failures are nacked into the
    dead letter queue (`PanicOnMessage`).
12. A stream asks once whether a blog is published; one opened before the
    publication overwrites the published document with a draft and tells nobody,
    although `service_v2.go` says it must be moved back to draft first (`astray`).
13. A blog that used up its failed cycles is never published when scheduled anew,
    because `failed_attempts` is only reset by a publication.
14. A scheduler commits, then announces: a crash between the two leaves the row
    scheduled for good (`astray`).
15. An object is removed after the commit although the same bytes may have been
    uploaded again meanwhile (`overtaken`); two transactions that give up the
    last two references of an asset each see the other's and collect nothing
    (`disturbed`); `ReplaceAssetRef` drops the orphans it finds, and cancelling a
    verification request never collects.
16. The scheduler publishes a public post into a group that closed after it was
    scheduled when the coercion missed it; a deletion's message that overtakes
    the coercion of the same group leaves its posts public; an update by query
    skips what changed under it, and the consumer logs the error (`late`).
17. `DeleteBlogsByOwnerAccountID` searches without a size, so it deletes the ten
    documents OpenSearch returns by default (not modelled).

## 6. Proofs

For every set of users, tiers, capacity, number of orders and goroutines, from
the assumptions named in the modules (finite sets, naturals, absent values
outside their sets), with no hypothesis on the bounds.

`EventRSVP_proofs`:

- `TypeCorrect`, one lemma per group of actions.
- `NeverOversold`, `CancelledHoldsNobody` by `SeatInv`.  `NoOversell` is not
  inductive: a cancellation promotes without counting, on the strength of the
  seat it frees.  `SeatInv` adds that while a cancellation of a seat is open,
  the others leave room for one more: so if `FailPayment` frees that very seat
  first, the promotion still has one.  It also says that no transaction is open
  on a cancelled event.  Most steps seat nobody (`Quiet`), and the few that seat
  one user need room beside that user (`RoomKeepsSeats`).
- `SeatedMoneyIsHeld`, `LedgerNeverLies` by `MoneyInv`: a payment is on its own
  user's row only, an order belongs to whom it was opened for, and what a refund
  goroutine still owes is the payment of a cancelled row or of none.
- `RefundFollows` by `TxnInv`: while a cancellation is open the row it read
  cannot become refundable, because the capture waits for the events row.
- `NoSeatUnreviewed` case by case over the steps that seat anyone; `EndIsFinal`
  case by case over those that write the event or begin to.

`EventCoupon_proofs`, on top of `EventRSVP_proofs`:

- `CouponCorrect`, `CouponStaysWithinLimit`, `CountedUsesAreHeld` by `CouponInv`.
  That each use is backed by a row with the coupon is not inductive: a
  cancellation takes the coupon off its row, and gives back a use only if the
  status it read was one that counts.  `CouponInv` compares the uses with the
  holders, the rows that have the coupon and a status that counts, and adds that a
  cancellation which read a status that does not count commits with that status
  unchanged.  It is an inequality because a promotion from the waitlist makes a
  holder nobody counts.

`MessageBus_proofs`, for any number of publishers, consumers, lost connections,
attempts and timeouts:

- `BusTypes`, `PublishedIsStored`, `WaitersAreAnswered`, `PublishersExclusive`,
  `DiallersExclusive`, all by one invariant `IInv`.  That a success means stored
  rests on which answer a waiter takes, so `IInv` says what is on a connection:
  whoever publishes or waits holds `pubMu` of a connection that is not reused
  while referred to; a confirmation of success is of a stored message; and as
  long as no wait timed out a connection carries nothing, or just the publish,
  or its answer, of the one goroutine that waits on it.  The drain keeps that
  so; with a timeout `OkMeansStored` fails and says so, while
  `WaitersAreAnswered` holds regardless.

`GroupMembership_proofs`:

- `TypeCorrect`; `CounterCovers` (each handler changes the set of active members
  and the counter together, or lets the counter be larger).
- `LinksAreLimited` by `LinkInv`: an acceptance under way holds the row of a link
  that has a use left, and nobody else can use it up until the commit.
- `OrganizerIsSafe`, `GrantsEndWithMembership`, `ApplicantsAreDecidable` by
  `RosterInv`: the organizer is never an applicant and no acceptance goes past
  the read of their membership.
- `BansHold`, an action property, from `TypeCorrect`.

`BlogIndex_proofs`:

- `TypeCorrect`; `AnnouncedBeforeWritten`: a stream reaches a save of a new
  document only past a confirmed `BLOG_CREATE`, and a deletion that comes after
  that one leaves it recorded as overrun (`DeletionKeepsAnnounced`).
- `HitsStayStaleOrDue` with `SearchLags`: a search sees an earlier version or the
  present one, and equal numbers mean equal documents, so a hit whose number
  still matches is a hit whose document did not change.
- `ContractKept`: every step of the index is a step of `ScheduleContract` or
  leaves order and fulfilment alone.  The commit of a scheduler needs
  `HitsAreStaleOrDue`: the number matches, so the order it carries out is the one
  standing, and is due.

`BlogPipeline_proofs`, on top of `BlogIndex_proofs`:

- `PipeTypesCorrect`, with the bound of the bag of unsent messages.
- `OnlyPublishedIsAnnounced`: a `PUBLISH` exists, in a goroutine, in a scheduler
  or in the queue, only for a blog that was published before.
- `StoresAgreeWhenQuiet` by `Agreements`.  Agreement when nothing is on its way
  is a statement about everything that is: the invariant follows the row through
  the queue.  `Course` is the sequence of statuses the row takes message by
  message, a function on positions and no recursion; it ends at the status the
  document had before the one change whose message is still to be sent, and that
  message takes it to the status the document has.  A message
  stored twice or delivered again changes nothing, since it leaves the row where
  it already is (`LeadsSent`, `LeadsAgain`).  A second message about the same blog
  makes `raced` true, a change whose message is lost `astray`, and both end the
  promise for good.
- `ContractKeptWithMail`, the composition: a step of the pipeline is a step of the
  index, or a fault in the mail that leaves the documents alone, so the pipeline
  implements the safety of `ScheduleContract` too.

`AssetRefs_proofs`:

- `TypeCorrect`; `NothingReferencedIsCollected`, by `RowInv`: a collector deletes
  a row nobody points to, and whoever points to it meanwhile waits or fails.
- `KeysStay` from the same: a row in use is never deleted, and a registration
  over an existing row takes its key.
- `ReferencedIsStored` by `ObjectInv`: an upload past its put holds an object
  under the key it registers, and the only object a commit still removes belongs
  to a row that is gone; `Phases` says which phase of a client holds what.
- `LastReferenceIsCollected`, an action property, by `CollectInv`: two open
  transactions have disturbed each other whichever began first (`OpenAlone`), and
  in one that is undisturbed a checksum it gives up is, from the query on, either
  referenced elsewhere, still to collect or collected (`CollectsAll`).

`GroupPosts_proofs`:

- `TypeCorrect`; `SavesKeep`, from the precondition of the save; `AuthorsAloneOpen`.
- `PostsFollow` by `ReachInv`: for a post that does not yet follow its group the
  message waits, or its update is running and has this post still to do, which
  `ReadInv` shows to be unchanged since it was found.

With these every invariant and action property that a passing run checks is a
theorem; the inductive invariants were themselves checked by TLC on the instances
of section 4 before they were proved.

Only model-checked: `ConsumptionResumes` and the liveness in `ImplementsContract`,
which are beyond the prover, as it has no liveness under fairness; the safety of
the contract is `ContractKept` and `ContractKeptWithMail`.  The four runs that
expect a violation are counterexamples and have nothing to prove.  Nothing here
uses a recursive operator.

## 7. Not modelled

- Authorization (accounts, passwords, tokens, OAuth, one-time codes): single rows
  and libraries, but for the counters in Redis, which are planned.
- The users service but for blog messages and verification: profiles, follows,
  co-author invitations; the deletion saga is planned.
- Discussions, event series, settlements, co-hosts, questions, social features,
  calendar and geocoding; group rules, media and search.
- Read paths everywhere: queries, feeds, counts, caches, visibility gates.  They
  change nothing, and with the generated protobuf and gRPC code, the gateway's
  translation of HTTP and the conversion between structures they are by far the
  larger part of the repository; the models cover the part that changes state.
- Notification, activity, cache, stream and AI services: appended rows, read
  models or no shared state.
