# TLA+ models of Road to English

Road to English is a web app for learning English (React, IndexedDB, an optional
account) with a small Go api over Postgres. The app works offline: the device's
IndexedDB is the source of truth, and a signed-in device pushes its whole state
to `POST /sync` and merges the whole state it gets back. Nothing in that
protocol is coordinated: devices, tabs, requests and retention all move on their
own. The models are about that: what a merge may lose, what a late reply may
undo, whose account a request goes to, and whether everybody agrees in the end.

## 1. Inventory

| Component | Source | State it keeps | Operations | Talks to |
|---|---|---|---|---|
| Card merge rule | `web/src/lib/mergeCard.ts`, `syncCardSQL` in `api/internal/storage/storage.go` | none | `mergeCard`, the upsert | used by every replica |
| Device card store, deck hook | `lib/vocabStore.ts`, `hooks/vocab.ts`, `lib/vocab.ts` | cards with a dirty flag; React state | save, review, remove, undo, refresh | the scheduler (through `notifyLocalMutation`), other tabs (through IndexedDB) |
| Card sync protocol, backup import | `lib/backupStore.ts` | dirty flags, stored epoch | `exportAll`, `mergeInto`, `replaceAll` | the api |
| Api sync transaction | `SyncState` in `storage.go`, `api/sync.go` | cards, practice_days, lesson_completion, learn_progress, sync_epochs | one transaction per request | Postgres locks, other requests |
| Sync scheduler | `lib/syncScheduler.ts`, `hooks/useSync.ts`, `lib/syncEvents.ts` | active, running, dirty, refused | trigger, run, stop | store, api, auth hook |
| Auth client | `hooks/auth.ts`, `api/auth.ts` | user, generation | restore, sign in/up/out, expire | api, scheduler |
| Device ownership | `claimOwner` | `meta.owner` | claim | scheduler |
| Request validation | `api/internal/storage/validate.go` | none | validate | sync |
| Auth rate limiter | `api/limiter.go` | three maps of windows | allowIP, allowAccount, clearFailures, release | auth handlers |
| Sessions, auth handlers | `api/session.go`, `storage.go` | sessions table, cookie | signup, login, logout, me, extension | limiter, storage |
| Review deck | `review/ReviewDeck.tsx`, `hooks/useSayIt.ts` | queue, revealed turn, rating under way, speech | reveal, rate, listen, Say it | deck hook, progress |
| Save buttons and Undo | `lesson/WordPanel.tsx`, `SentenceCard.tsx`, `LessonSummary.tsx`, toasts | calls under way | add, remove, undo | deck hook |
| Progress, streak, goal | `lib/progress.ts`, `lib/progressStore.ts`, `hooks/progress.ts`, `useDailyGoal.ts` | practice days, daily counts, goal | recordPractice, markLessonComplete, reload, chooseGoal, `streakState` | lessons, review, sync |
| Learn progress, Shadow Gate | `lib/learnProgress.ts`, `lesson/LessonDetail.tsx`, `ShadowGate.tsx` | passed sentences, skips | pass, skip, start over, reread | sync |
| Lesson visit, completion | `hooks/useLessonProgress.ts` | attempted, missed, save state | practice, miss, complete, retry | progress |
| Quizzes and scores | `lesson/SentenceQuiz.tsx`, `lib/dictation.ts`, `shadowScore.ts` | checked answers | check, try again; pure functions | lesson visit |
| Practice media | `hooks/useRecorder.ts`, `usePracticeMedia.ts`, `lib/recognition.ts`, `speech.ts`, `youtube.ts` | one active stop, one active recognition, one utterance, players | start, stop, cancel, play | browser media |
| User lessons, library, navigation | `hooks/lessons.ts`, `lib/userLessons.ts`, `hooks/useAppNavigation.ts`, `library/*` | route, pending focus, lists, own lessons | open, create, delete, reload | store, api |
| Lesson library api | `api/internal/library` | embedded catalogue | two GET handlers | library |
| App shell | `App.tsx`, header, landing | | composition of the pages | everything |
| Service worker | `web/public/sw.js` | caches | network-first, cache-first | network |
| Preferences, i18n, theme | the rest of `web/src` | preferences | | the hooks |

What is hard in it:

- **Ordering.** A sync reply is computed from an older state than the one it is
  merged into. A `/me` answer may be older than a sign-in.
- **Shared state without a lock.** The tabs of one browser share IndexedDB and
  the session cookie, and each has its own scheduler and its own idea of the user.
- **Deletion.** Tombstones are purged after 180 days and then forgotten, while a
  device may have been offline for longer.
- **Loss.** A request may fail before or after the server committed; the server
  may lose its rows (the sync epoch tells).
- **Concurrency in the database.** Syncs of one user run as READ COMMITTED
  transactions of many statements.
- **Clocks.** The merge compares device clocks, which nothing synchronises. The streak
  and the goal move at local midnight, whoever is rendering.
- **The page and the promise.** React state is a copy that refreshes replace, in whatever
  order they land; a handler awaits two or three calls, while the learner leaves the page.
- **The browser's media.** Microphone, recognition, speech and players answer when they
  like, and are shared by components that do not know of one another.

What makes each part correct is stated as the properties of section 3;
`PROJECT.json` lists the hazards at their lines, those no property covers yet too.

## 2. Modules

| Module | Models | Extends |
|---|---|---|
| `MergeRule` | the card, the two implementations of the merge | |
| `CardSync` | cards of one account on devices, tabs and the server | `MergeRule` |
| `SyncTx` | one account's concurrent `POST /sync` transactions, statement by statement | `MergeRule` |
| `AccountSync` | the tabs of one browser: who is signed in, whose data is sent where | |
| `AuthLimiter` | the api's rate limiter under overlapping logins | |
| `LearnProgress` | Learn mode's progress through one lesson, on the screens, stores and server of one account | |
| `Dictation` | diffs and scores of what was typed or said, as functions | |
| `LessonPage` | the views of an open lesson and the media they use | `Dictation` |
| `PracticeMedia` | what that page promises: one medium at a time (abstract) | |
| `Progress` | practice days, completed lessons, the goal and its announcement, the streak | |
| `LessonVisit` | one visit of a lesson: what was practised, the completion it saves | `Progress` |
| `Quiz` | dictation and blanks, the words they missed | `LessonVisit`, `Dictation` |
| `Review` | the deck's refreshes, the queue, rating, speech of a review | `Progress` |
| `Saves` | the buttons that put cards into the deck, Undo | `Review` |
| `Library` | routes, focus, lists, own lessons | |
| `Learner` | the App: pages over one deck and one progress (composition) | `Quiz`, `Saves`, `Library` |
| `*_proofs` of `CardSync` (with `MergeRule`), `SyncTx`, `AccountSync`, `AuthLimiter`, `LearnProgress`, `LessonPage`, `Quiz`, `Learner` | theorems | |
| `MCCardSync`, `MCSyncTx`, `MCAccountSync`, `MCAuthLimiter`, `MCLearnProgress`, `MCLessonPage`, `MCLearner` | small instances | |

The modules share the merge rule and divide the system by the question asked.
`CardSync` takes a sync transaction as one step; `SyncTx` opens that step and says
what of it holds when two transactions interleave (`CommitIsOneSync` is the
statement of that assumption). `AccountSync` leaves out what the data is and keeps who sends it;
`CardSync` leaves out who is signed in. `LearnProgress` is the other kind of list in the
sync body, the one whose newest record wins whole, together with the screen that edits it.
`Learner` is one tab with everything above the stores: for it a sync, or another tab, is a
card that changes underneath (`ChangeCard`) and a reload. What is practised in a lesson is
`LessonVisit`'s and `Quiz`'s; how it sounds is `LessonPage`'s.

### MergeRule

A card is its update time, whether it is a tombstone, an opaque body and its
FSRS state. `deletedAt` needs no variable of its own: in every tombstone the
client writes it equals `updatedAt`, and the merge moves the two together.
`fsrs.reps > 0` is `last > 0`: ts-fsrs sets `last_review` with each repetition.
`MergeCard` follows `mergeCard.ts`; `UpsertCard` follows the SQL column by
column, its `WHERE` clause included. `Covers` is the order the rule is about: a
copy covers another if replacing that other with it loses no later write, no
deletion of the same instant and no review history.

### CardSync

| Model | Code |
|---|---|
| `local`, `dirty`, `storeEpoch` | the `cards` store and its `dirty` flags, `meta.syncEpoch` |
| `view`, `undo` | `useVocabDeck`'s `cards`; the tombstone a delete returned, for Undo |
| `pc`, `sent`, `sentDirty`, `reply`, `replyEpoch` | one `attempt` of the scheduler: exported body, answer |
| `rows`, `epoch`, `horizon` | the account's rows; its `sync_epochs` row; `now() - TombstoneRetention` |
| `purged` | history, in no guard: per epoch, the latest time of a purged tombstone |
| `SaveCard`, `SaveReview`, `RemoveCard`, `UndoRemove` | the deck's operations down to their IndexedDB transaction |
| `ExportAll`, `SyncState`, `RefuseTooMany`, `LoseRequest`, `MergeInto` | the steps of a sync, split where the code awaits |
| `ImportBackup` | `replaceAll`: every card is replaced, dirty, whatever is under way |
| `AgeTombstones`, `LoseServerCopy` | time; a restored or recreated database |

`Refresh` is a step of its own because the code awaits it after the transaction
of an edit has committed: another tab's edit or a merge can come between.
A later refresh overtakes an earlier one in `useVocabDeck`, so it is enough that
a refresh reads the store at one instant.
`RemoveCard` acts on the card on screen, which may no longer be the one stored.
Every clock reading is any time up to `MaxTime`: devices' clocks are unrelated.

### SyncTx

Each request is a transaction with its own uncommitted rows (`own`). `Visible` is
READ COMMITTED: committed rows, plus one's own. Statements wait for row locks;
`CheckExists` is the `EXISTS (... FOR UPDATE)` of a clean card, `WriteCard` the
`INSERT ... ON CONFLICT DO UPDATE`, `StartPurge` and `PurgeRow` the `DELETE`, whose
rows are locked one by one in an order the planner chooses. `SyncEpoch`
is the insert of the epoch row, which waits for a concurrent insert.
`Deadlocked` looks for a set of transactions that wait only for one another, and
`AbortDeadlock` rolls one back. `Cancel` is a request whose client went away, or
any other failure: the deferred `Rollback`.

### AccountSync

`user`, `me`, `auth` are a tab's `useAuth`: a `/me` out, the answer it carries, an
auth request whose reply has set the cookie and not reached the tab. `run[s]` is
one scheduler object: a stopped scheduler lives on while it awaits, so there are
more objects than tabs. `cookie` and `owner` belong to the browser. `LoseAuth` is a sign-in or
sign-out that the server has carried out and whose reply is lost: the cookie has changed, the tab keeps its user and its
generation, and an older `/me` is still accepted. `unread` remembers such a sign-in until the tab hears from the
server again (history). A request that fails before the server acts changes only the message on screen. The data is
the number of changes made on the device, so "sent" means every change up to a
number. A mismatched epoch in `MergeInto` is a choice counted with the failures:
the epochs themselves are `CardSync`'s.

### AuthLimiter

`ips`, `pairs`, `accounts` are the three maps; every operation takes the one lock, so
each is one action. A request goes `AllowIP`, `AllowAccount`, and then one of
`WrongPassword`, `Release` (a database error) and `ClearFailures`; `AnswerEarly` is
every answer without a password check, a sign-up's included. Between them
other requests run and windows end (`Tick`). The code's reservation is a pointer
to a window, compared with the map's entry when it is returned; here a window lists the
requests that hold a pointer to it (`holders`), and dropping the window drops
the list. `wrong` is history. An IP key is opaque. A clock tick is a fraction of a second
(`Second` ticks make one), because `Retry-After` is rounded.

### LearnProgress

| Model | Code |
|---|---|
| `store`, `server`, `sync`, `lost` | the lesson's `learnProgress` record, its row, a sync under way, the failed ones |
| `open`, `view`, `changed` | the mounted `LessonDetail`, its `learnProgress` state, `changedProgress` |
| `gate`, `check`, `said` | the sentence in the Shadow Gate, the gate's `check`, the progress that `onChecked` closed over when Say it was pressed |
| `queue`, `answers` | requests to IndexedDB not yet carried out, and reads done whose promise has not been taken up |
| `clock`, `legacy` | the last time a device wrote; what an older version left in localStorage |
| `earned` | history: the sentences said or typed well on any device |
| `OpenLesson`, `LeaveLesson`, `EnterGate`, `LeaveGate`, `Step` | mounting the lesson, moving between sentences and modes |
| `SayIt`, `HearPass`, `HearMiss`, `TryAgain`, `TypeIt`, `Skip`, `StartOver` | the gate's buttons and the recognition's outcomes |
| `Perform`, `Migrate`, `Deliver` | `readLearnProgress` and `writeLearnProgress`, split where they await |
| `Export`, `Serve`, `Merge`, `Lose` | the list's part of a sync |

The learner acts on what the screen shows. Every change sends the whole progress as the screen, or the
callback, has it, so the interesting case is a screen that is behind. The requests
of a tab are carried out in the order they were made (IndexedDB's transactions on one
object store are), but what the page does between request and answer is free.
A score is a pass or a miss, and after a miss the gate is as idle as before. A
store without the lesson is the empty record of time 0.
Only the clocks of different devices are assumed to differ at a write (`LearnAssumption`);
a tie of equal times would leave two devices with different records for good.

### LessonPage and PracticeMedia

| Model | Code |
|---|---|
| `view` | open, mode, the sentence shown alone (guided), Learn and check preferences of `LessonDetail` and `LearnView` |
| `media.speech`, `.looping` | the current utterance of `lib/speech.ts`, the sentence whose Loop is pressed |
| `media.rec`, `.orphans`, `.activeStop` | each sentence's `useRecorder`, requests of unmounted ones, the module's `activeStop` |
| `media.active`, `.check` | the active recognition of `lib/recognition.ts`, each sentence's check |
| `media.clips`, `.audios`, `.player`, `.playing` | recordings, the `audio` elements that play, the YouTube player |
| `queue` | play events that are still to be handled |
| `passed` | the sentences the Shadow Gate lets pass |

A press runs to its end with the effects React runs after it: `Unmount` is every clean-up of
the components a new view drops. What the browser does is a step of its own: `Release` is a
microphone answer, and stops a stream nobody waits for any more. `PracticeMedia` knows
none of this: a set of media that are on, and those whose play event is to come. A player
started by its own controls overlaps what is on until its event is handled; nothing else may.
`LessonPage` instantiates it with a refinement mapping (`On`, `Pending`), and the run and a
theorem check the implementation.

### Dictation and Quiz

`DiffWords` fills the suffix table of `diffWords` (`Cost`) and walks it in the code's order of preference, both as recursive
functions of a place in the table.
`ResultIsBestAlignment` compares it, on every result a dictation shows, with the best of *all*
alignments (`LeastWrong`), which knows nothing of tables. `ScoreShadow` and `Passed` decide in `LessonPage`
whether a sentence is passed. `Quiz` is `SentenceQuiz`: check, try again, blank answers, the word that a blank leaves out
(`BlankFor`: the first of the longest *card* words, which a time or a decimal is not), and `Miss`, the list
of missed words that the summary offers to save.

### Progress, LessonVisit

Every call of `useProgress` is a job in a slot: a write, if it has one (`CommitPractice`,
`CommitComplete`, `FailWrite`), then a refresh that reads at one instant (`Read`) and lands
at another (`Land`, `FailRead`). Nothing orders landings. `Render` is what App computes when it
renders: the day, and the announcement of the goal, made by the save whose committed count equals it (`Reached`).
A practice that is not written is told of by the header, which renders the App; a completion that is not written, by its
lesson alone.
`Midnight` moves the day and renders nothing. `StreakState` is `streakState`; its loop over the days is a recursive function.

`visit` is a mounted `LessonDetail` with `useLessonProgress`. `WithSave` is the effect that
saves a completion once; `VisitFollows` is React's key, which makes a new visit and disowns the calls of the old.

### Review, Saves

`cards` is the store with a version for each card, `deck` the hook's state, `fetches` its refreshes:
each installs its result only if it is the latest (`Refreshing`), and answers whoever waits for
it even so (`Continue`). `Queue` is `capNewCards` with the count on screen. `ratings` are the calls of the handler, each at
one of its awaits: the card's transaction, the refresh, the recording. `isRating` lets a page have one of them; the call of
a page that was left goes on, and a page opened anew knows nothing of it (`mounted`). `overlapped` is history: a New card was rated
while the rating of another was under way. `voice` is Listen first, the
utterance and the Say it attempt; `AfterRender` is the effects that a new turn runs.
`Saves` is the buttons of `SaveToReview` under a word panel, a sentence and the summary, and the Undo of their toast.

### Library, Learner

`nav` is the route shown, the URL's hash (which may differ until the event), the pending
return focus and the last lesson; `lists` the loads of the library and of the open lesson;
`own` and `calls` the learner's own lessons and the unguarded calls on them. `Rendered` is what follows any change: the
redirection from a lesson that does not exist, the mounts, the focus.

`Learner` composes them. Each of its actions is an action of a part with what the
other parts make of it: a page that follows the route starts and ends visits,
reviews and buttons (`PagesFollow`), a landed refresh runs the visit's effect and answers a rating.

## 3. Runs

Every passing run gives all its properties one mutant each: a plausible bug in the
mapped code that makes TLC find the property violated.

| Run | Instance | Question |
|---|---|---|
| `CardSync_devices` | 2 devices, 1 tab each, 2 cards, cap 1, 3 edits, 1 lost request | Does a late, lost or refused reply lose an edit, delete a card, or bring one back? |
| `CardSync_live` | 2 devices, 2 edits (one may be the import of a backup), 2 epochs | Does a server loss delete anything, and does everybody agree in the end? |
| `CardSync_tabs_loss` | 2 tabs of one device, 1 edit, 2 epochs | *violated*: see section 6 |
| `SyncTx_syncs` | 2 transactions, 2 keys, a deletion and a later save, cap 1, 1 step of the horizon | Is a sync transaction what `CardSync` takes it for, and does every request end? |
| `SyncTx_deadlock` | 2 transactions, 2 keys | *violated* |
| `AccountSync_tab` | 1 tab, 2 accounts, 2 schedulers, 1 change, 1 failure, which may be a lost reply to a sign-in | One live scheduler, no request under an account that the tab has not been told of, no change forgotten |
| `AccountSync_accounts` | 2 tabs, 2 accounts | *violated* |
| `AuthLimiter_logins` | 3 requests, 2 emails, 2 IP keys, 1 entry per map, 2 ticks a second, 4 ticks | Do slots, limits and map sizes survive overlapping logins, and is `Retry-After` right? |
| `LearnProgress_devices` | 2 devices, 2 sentences, 1 skip, 1 write each (clocks in the reverse order), legacy progress on one, 1 lost sync | Do rereads, merges and writes from an old screen ever open more than was earned, and do all agree in the end? |
| `LearnProgress_restart` | 1 device, 3 writes | *violated* |
| `LessonPage_media` | 2 sentences of 1 and 2 words, 3 answers, a video | Does what is on belong to a control on screen, and is it one medium at a time? |
| `Learner_app` | 10 scenes, below | Does the screen tell the truth about what was stored, however calls overlap, fail or outlive their page? |

What the properties say:

- `CleanIsCovered`: a card without the dirty flag, under the server's epoch, is
  on the server in a version that covers it, or was purged there. This is what
  entitles `mergeInto` to delete or overwrite clean cards.
- `OnlyPurgedVanish`: a merge deletes a card only if the server of that epoch
  purged a tombstone at least as new.
- `CleanStaysClean`: syncing alone never makes a card dirty again, so two devices cannot
  push the same card back and forth.
- `PurgeHolds`: once purged everywhere and pushed by nobody, a card stays gone.
- `EventuallyConverged`: without new edits, all replicas come to hold the same
  versions, clean, for good.
- `CommitIsOneSync`, `ReplyIsCommitted`, `PurgeNotUndone`: what interleaved
  transactions keep of atomicity.
- `EverySyncEnds`: no transaction waits for ever.
- `OneScheduler`: the only live scheduler of a tab is the one for the user it shows.
- `SendsAsOwner`: a request goes out under another account than the owner's only
  while that tab has not heard of a sign-in of its own: its reply is under way, or was lost and nothing has been
  heard of the session since. Both happen (section 6, 3).
- `ChangesFollowUp`: a change made during a run is sent by it or by a follow-up, after a refused body too, unless the run
  fails or has only that body again.
- `SlotsAddUp`: a failure count is the wrong guesses of its window plus the logins
  still being checked, so no slot is returned twice or to a newer window.
- `GuessesBounded`: those guesses stay within the limit, however many are in parallel.
- `MapsBounded`: a map keeps to `limiterMaxEntries`.
- `RetryIsLongEnough`: what refused a client is over when it comes back after `Retry-After`.
- `SkipsBounded`: no copy counts more skips than `SKIPS_PER_LESSON`; the gate tests
  `skipsLeft === 0`, so a negative count would be skips without end.
- `UnlocksAreEarned`: but for its skips, a copy opens only what was said or typed well somewhere.
- `EventuallyAgree`: when the writes end, the newest record is everywhere for good.
- `MediaBelongToView`: whatever records, listens, speaks, loops or plays belongs to a component on screen that shows it and can stop it.
- `OneMediumAtATime`: the page implements `PracticeMedia`.
- `AnnouncedIffMet`: with no call under way, the goal has been announced just when the day's
  practice on screen meets it, unless a practice or a refresh failed, an older refresh landed last, or a goal was compared with a count that is not
  the present one (`lapsed`; section 6 tells of the last).
- `CompletionNotForgotten`: a lesson whose sentences were all attempted is complete, being
  saved, or shown as failed.
- `StreakMoves`: a day's first practice adds a day and takes no freeze; a day that passes costs
  nothing, a freeze, or the streak.
- `CapHolds`: no day introduces more new cards than the limit, though the queue is cut by a count that lags, unless a call of the
  progress lapsed or two New cards were rated at once, from a review page and one that was left (`overlapped`). Without the last
  exception it is false (section 6).
- `VoiceFollowsTurn`: only the card on screen is spoken, or listened for while its answer is hidden.
- `RatingIsAnswered`: each rating, of the page on screen or of one left, waits for a call that is under way and that no other
  rating waits for; a superseded refresh answers its own.
- `DeckShowsOwnWrites`: once refreshes are over, what this App wrote is on screen as stored.
- `MissedIsListed`: the missed words are each listed once, under a practised sentence that has them, and every card word that a
  result on screen, of a dictation or of a blank, marks as missed in what was typed is listed.
- `ResultIsBestAlignment`: a dictation's result shows all words in order, and no alignment marks fewer as wrong.
- `FocusTaken`: a return focus waits only in the library, for a list that loads.
- `LessonStaysOpen`: an own lesson that is open and stored is not closed by a reload, unless
  that failed, was overtaken, or ends the creation of another.

The ten scenes of `Learner_app` are the same App with a part of it in use, chosen in the
initial state: *Practising* (a lesson, failures and reloads over a midnight), *Streaks* (three
days after zero, six or twenty days of practice), *Quizzing* (two lessons, both quizzes, four answers), *Saving*,
*Selecting* and *Keeping* (cards from the summary, from a word, from a sentence, with Undo),
*Reviewing* (two cards that change underneath, refreshes, failures), *Reopening* (the same two without further refreshes, where a page is left
and opened anew during a rating), *Speaking* (one card, with speech and
recognition) and *Browsing* (library and own lessons that load, fail, are created and deleted).
All of it at once is out of reach; each scene holds every pair of actors that one of the properties needs to be violated.

**Bounds.** In `CardSync` `MaxEdits`, `MaxTime`, `MaxEpoch`, `MaxLost`; in `SyncTx` `MaxHorizon` and `Pushable`; in
`AccountSync` `MaxChanges` and `MaxFailures`; in `AuthLimiter` `MaxTime`; in `LearnProgress` `Stamps`, `MaxQueue` and
`MaxLost`; in `LessonPage` `Answers`; in `Learner` `Slots`, `MaxActions`, `LastDay`, `Pasts`, `Fetches`, `MaxVersion`,
`Raters`, `Savers`, `OwnCalls`, `Answers` and `Scenes`. Two times give earlier, later and
equal; two edits of different devices give every conflict of a pair, a third
lets a save be deleted and restored, and a conflict of three is one of two pairs
because the merge is a least upper bound (`MergeLeast`). The invariant of `CardSync` is proved without any bound.
Two transactions are enough for every cycle of two locks. Two scheduler objects
let a stopped run overlap with its successor; a third would need two sign-outs
during one request. In `AuthLimiter` one entry per map makes full maps and evictions
common, and four ticks let a window of two ticks end twice and one of three once. In
`LearnProgress` the times in `Stamps` are the writes a device can still make: one each, in
either order of their clocks, is a conflict, and a migration competes with a pass. A learner whose device has no time left rests
(only Try again is left), and a lesson is opened again only while fewer than
`MaxQueue` reads and writes are under way; the theorems hold without these bounds. In `LessonPage` two sentences are a speaker and another;
the second is the last, which never locks. In `Learner` two `Slots`, `Fetches`, `Savers` and `OwnCalls` let one call overtake
another; the visit waits for a free slot, so a third call at once is cut. `MaxActions` of two reaches
the goals of one and two and passes the first; six and twenty past days are one short of earning the first freeze and of
a third, which the cap of two refuses. Two `Raters` are a page on screen and one that was left; only *Reopening* rates from both
at once, since a third page adds nothing that two do not. The proofs hold for any number. Cards are saved from a lesson
once its practice is recorded, and only those in a scene's `offers`. Outside *Browsing* lists load at once.

**Symmetry.** `CardSync_devices` uses that of the devices (each with
its tab) and of the cards; `AuthLimiter_logins` that of requests, IP keys and emails. No run with a liveness property uses symmetry.

**One tab per device.** `CleanStaysClean` and `PurgeHolds` are checked with one
tab per device only: with two, the second reply to be merged may find a card
that the first changed, leave it dirty and push it once more. That is wasteful and
harmless, except after a server loss (section 6). `SendsAsOwner` is about one
tab: with two a tab sends under a cookie that it never asked for, which is `AccountSync_accounts`.

**Fairness.** `CardSync_live`: tabs stay in use, so each tab's sync goes on
(`useSync` triggers on focus, on visibility and on `online`), its replies are merged, its screen
refreshed. Edits, losses and the passing of retention are not fair. `SyncTx_syncs`:
strong fairness of a transaction's statements stands for Postgres' queue of lock
waiters, weak fairness of `AbortDeadlock` for its deadlock detector. `AccountSync`:
the browser and the server finish what was started, weakly fair; the user, the
window events and the failures, lost replies among them, are not. `LearnProgress`: each browser carries out what was asked of it
and each device in use syncs again and again, both weakly fair; the learner and the losses are not.
`LessonPage` and `Learner` state no fairness: that a rating does not hang is stated as a safety property (`RatingIsAnswered`).

Deadlock is checked in every run.

## 4. Proofs

Of the merge rule, in `CardSync_proofs`: `RulesAgree` (the SQL upsert equals `mergeCard` on all pairs of
cards), `MergeCovers` and `MergeLeast` (the merge is a least upper bound in the order
`Covers`), and that `Covers` is reflexive and transitive.

`CardSync_proofs`, for every set of cards, devices and tabs, every assignment of tabs
to devices but where one tab is assumed, every bound:

- `TypeCorrect`: `Spec => []TypeOK`.
- `CleanCovered`: `Spec => []CleanIsCovered`. `CleanIsCovered` is not inductive: a
  merge makes a card clean because of a reply that was computed earlier. `IInv` adds
  what is known of requests in flight: no epoch is ahead of the server's
  (`EpochsPast`), everything in a reply of this epoch is known to the server
  (`ReplyKnown`), and everything a tab sent with such a reply is covered by the reply or purged
  (`ReplyCoversSent`). The server's rows only move up in `Covers` (`MergeCovers`) or are
  purged, which `purged` remembers, so what was known stays known
  (`CoversTransitive`); `RulesAgree` lets the same lemmas serve both ends.

- `OnlyPurgedVanishes`: `Spec => OnlyPurgedVanish` where every device has one tab, for any number of epochs, and for any
  number of tabs while the server keeps its copy (`Steady`: `OneTab` or `MaxEpoch = 1`). A merge deletes a card that the reply lacks,
  so `KInv` adds to `IInv` what is known of such a card before the
  reply arrives: a store that never synced is all dirty, what was sent is dirty or known to the server whose epoch the device has
  (`SentKnown`), and what a reply lacks was purged, by the server that answered, at least as new (`MissingPurged`). With a
  second tab and a second epoch it is false (section 6): the other tab changes the epoch that the reply is compared with.

- `CleanAlwaysStays`: `Spec => CleanStaysClean`, and `PurgesAlwaysHold`: `Spec => PurgeHolds`, with one tab per device
  (`OneTab`), for any number of epochs and lost requests. `QInv` says that the clean cards of a device are the ones its request
  took, since no one else changes them (`CleanIsSent`), and that a device that never had an answer has none
  (`NewStoreDirty`). Both are action properties, and the second follows from the first step by step. Without `OneTab` they are
  false (section 3, *One tab per device*).

`SyncTx_proofs`, for any number of cards, transactions and requests and any cap: `TypeCorrect`, `CommitsAreSyncs`,
`RepliesAreCommitted` and `PurgesNotUndone`. The inductive invariant says of each transaction that a row it has written is
locked by it and is what its request makes of the *committed* row (`Written`, `Effect`), and where its next statement
stands (`Placed`). The lock is the argument: no other commit moves the row under the guess (`CommitStep`), and a step of one
transaction is a frame for the others (`Same`, `SameKeeps`).

`AccountSync_proofs`, for any number of tabs, accounts and scheduler objects: `TypeCorrect` and `OneSchedulerPerTab`; and
`OneTabSendsAsOwner` for a browser with one tab. `Paired` says that a tab's scheduler is live and the tab's alone; `Owns` that
a live one past `claimOwner` is the owner's; `Cookies`, of one tab, what the cookie, the pending sign-in and an
accepted `/me` answer have to do with one another, where no sign-in is left unread. The generation counter of `useAuth` is what
keeps its third part: but for a sign-in that the tab has not heard of, an answer that is still accepted names the cookie's account.

`AuthLimiter_proofs`, for any number of requests (finite), keys, entries, limits, window
lengths and ticks: `TypeCorrect`, `SlotsAlwaysAddUp`, `GuessesAlwaysBounded`,
`MapsAlwaysBounded` and, as an action property, `RetryAlwaysLongEnough`. The inductive invariant says
of each map that its counts are within the limit and its size within the bound
(`Sound`), that the counts add up, and that the reservations in it are those of requests being
checked, under the key they came with (`PairsHeld`, `AccountsHeld`): without the
last, nothing would stop a request from returning a slot twice. One lemma per operator
on maps (`WithoutSound`, `AdmitSound`, `LiveSound`, `CountSound`, ...) says what it
preserves; the lemmas of the actions cite those. `GuessesBounded` follows from the limit on
the count and what the count adds up to. `RetryAlwaysLongEnough` also needs that no window
begins ahead of the clock (`IpsPast`) and that rounding up covers the ticks (`RetryAfterCovers`).

`LearnProgress_proofs`, for any devices, lesson length, number of skips, clocks and legacy progress:
`TypeCorrect`, `SkipsAlwaysBounded` and `UnlocksAlwaysEarned`. The type invariant needs that the reads of a lesson that was left
are heard by nobody (`TInv`): this is what keeps a closed lesson's screen empty. The two safety properties are proved as one
(`Honest`): a copy's skips are within the limit and pay for what it opens unearned. That is inductive
for *every* copy, those in requests, answers, replies and callbacks included, because no code
makes a record from two others: a skip or pass is applied to one whole copy (`HonestSkip`, `HonestPass`), a merge takes one of two
(`HonestCopies`), and what was earned stays earned (`OldStaysHonest`).

`LessonPage_proofs`, for every lesson text, set of answers and word similarity: `TypeCorrect`, `MediaBelong`, and
`Implements`, the refinement to `PracticeMedia`; and `AtMostOneMedium`, what `PracticeMedia` promises, which the refinement
carries over. The invariant `PInv` is that the media belong to the view (`Sound`) and that a pressed loop is alone but for
players whose play event is to come (`LoopAlone`): without it the speech a loop starts by
itself, with no `stopMedia` before it, could overlap another medium. Lemmas say what stopping, starting and handling an event do to `On`;
each action's lemma gives the invariant again and a step of `PracticeMedia`.

`Learner_proofs`, for every catalogue, deck, goal, limit, text and number of days, past days, slots, refreshes, saves
and overlapping calls: every property that `Learner_app` checks.

- *Library.* `FocusAlwaysTaken`, `OpenLessonStays`. `LibraryInv` is inductive by itself: a pending focus waits for a list
  that loads (in `LibraryTyped`), and (`Ordered`) of the reads of the own lessons that were not overtaken a later one has what is stored of an
  earlier one, and none has seen a lesson that is still to be stored.
- *The rest of the App.* `RatingAlwaysAnswered`, `VoiceAlwaysFollows`, `DeckAlwaysShows`, `CompletionNeverForgotten`,
  `CapAlwaysHolds`, `GoalAnnounced`, `TypesHold`. None of them is inductive in its own module: `AppInv` joins ten parts,
  since the pages share one deck, one progress and its slots.
  `TypeHyp`, `DeckHyp` and `PageInv` are the types, what a visit's calls belong to, and that the page is the route's.
  `RatingHyp` says which refresh or which job each rating waits for, and that no two wait for the same. `VoiceHyp` is the
  property, with what speech may hold. `CompletionInv` follows a completion that was started through its job to the store.
  `DeckInv`: one refresh is the latest, and what it read still agrees with the store, because every write starts
  another. `CountInv`: what any call has read is of a store that was, so two reads of one day are ordered. `GoalInv`: each
  practice of a day is on screen or its save is still to answer, so the save that reached the goal is still to announce it.
  `CapInv`: a new card under way has its place in the limit of *every* day it may be recorded on, since midnight may pass
  meanwhile. Until two New cards overlap there is at most one such card (`OneNewInv`), so that a New card is
  rated only while the count on screen lacks none.
  The proof goes through abstract steps, in which the App's pages no longer appear (`StepIs` of progress, `VisitStep`,
  `CardsStep`, `CapStep`, `QuizStep`): each action of `Next` is shown once to be one of them, and they keep the invariants.
- *The streak.* `StreakAlwaysMoves`, from `DaysInv` (nothing read is of a day to come) and lemmas on
  `StreakState`: one day more, after the last practised day or at a gap, changes the walk as its last step says.
- *The quizzes.* `MissedAlwaysListed`, from `QuizInv`, and `ResultAlwaysBest`. Both need what recursive functions and folds compute for every
  input. The library's induction theorems take an operator, which no installed prover can instantiate, so `Quiz_proofs` states them
  over sets: `Induction` and `HeightInduction` say that a set holding each element whose lower ones it holds is everything,
  and `RecursionExists` that a recursion which asks only for what is lower has a function. With it the
  table, the walk and the folds satisfy their equations (`CostIs`, `DiffIs`, `EntriesFold`, `MissFold`), and the rest is
  induction. An entry of the table is the least number of wrong words of *any* alignment of what is left: an
  alignment leaves out the first word of one text or keeps both first words together (`PairsSplit`, `BestStep`). The walk shows what is left
  of both texts and as many wrong words as the table says (`WritesShow`).

The assumptions, named in the modules and evaluated by the runs: `SyncAssumption` (`NoCard` is not a card, every tab runs on a
device, backups are replicas, the bounds are natural numbers), `TxAssumption` (the markers differ from what they stand
beside, a request's cards are cards), `AccountAssumption` (no account is `NoUser`, no scheduler `NoScheduler`), `LimiterAssumption` (`NoWindow` is not a window,
requests are finite, a second has a tick, the rest are natural numbers), `LearnAssumption` (clocks that differ, legacy progress
within the skips, natural bounds), `LessonAssumption` (a lesson has a sentence, and there is something to type),
`SimilarityAssumption` (a similarity is a percentage, a length a number), `ProgressAssumption` (a goal is at least one; past
days are finitely many, and past; slots are finitely many numbers), `VisitAssumption` (a lesson has a sentence), `ReviewAssumption`
(cards and refreshes are finitely many positive numbers, a limit is a number), `SavesAssumption` (finitely many buttons),
`QuizAssumption` (texts and answers are sequences of words), `LibraryAssumption` (own lessons are none of the
catalogue's, which is listed without repetition) and `LearnerAssumption` (scenes are made of the constants, and their lessons
are the library's).

Model-checked only: liveness, which the provers do not reach: `EventuallyConverged`, `EverySyncEnds`, `ChangesFollowUp` and
`EventuallyAgree`. Every other property of a passing run is a theorem, under a restriction only where
the code needs it: one tab, or one per device, where section 3 says so. `ScoreShadow` has no property of
its own, so nothing is proved of it but what `LessonPage` needs.

## 5. Not modelled

- FSRS intervals: the library's. A review's due date is an opaque value, and the order of due cards is fixed.
- Card text beyond identity, request validation, JSON: the models send only
  bodies a device can build.
- `practiceDays` and `lessonCompletion` in the sync body (sets that only grow). Of a backup the other lists,
  the parsing of its file, and the reloads after an import.
- A second tab with the same lesson open, a failed write and a failed read of Learn progress.
- Sessions: rolling extension, the lifetime cap, and the `Set-Cookie` that an extension puts on a late reply: `AccountSync`
  changes the cookie only at sign-in, sign-out and a refused session.
- `ipKey`'s masking of IPv6 addresses.
- The calendar: days are numbers, so `previousDay` at month ends and time zones is left out.
- Of words their letters: splitting a text into tokens, numbers spelled out, `similarity`, sound classes,
  stress, the bank of words offered for a blank.
- Of the review page the recap's counts, its end and the timer for the next due card (a refresh like others);
  of the lesson page hidden text, the dictionary and the waveform; of the library the level filter, splitting an imported text,
  the confirmation of a delete, and the summary's own load of the list.
- A refresh of progress reads several stores; here it reads them at one instant.
- Landing page, account forms, preferences, i18n, theme: single-threaded lookups and layout.
- The service worker, whose effect is an outdated offline copy; the api's library handlers, routing and middleware, in which
  each request is independent of the others.

## 6. Findings

1. **A second tab deletes cards the server lost** (`CardSync_tabs_loss`). Two tabs export
   the same clean card; the server has lost it and answers both under a new epoch. The
   first tab to merge stores the new epoch and marks the card dirty. The second compares the
   reply with the epoch just stored, sees no mismatch, and finds the card to be the
   version it sent (`sameVersion` does not look at the flag), so it deletes the last copy.
2. **The sync transaction can deadlock** (`SyncTx_deadlock`): the purge locks rows outside
   the key order. Postgres ends it by failing a request, which the next sync repeats.
3. **The owner check and the cookie may differ** (`AccountSync_accounts`): after another
   tab signs in to a second account, this tab's next run sends the owner's data there. One tab is enough where it has not heard of
   its own sign-in: `/me` for the owner's account is out, or accepted, when a sign-in to a second account has set
   the cookie and its reply is under way or lost. `SendsAsOwner` names both; with a lost reply nothing ends it until the tab
   hears of the session again (a reload, an answered `/me`, a sign-in or a sign-out).
4. **A pass undoes a Start over** (`LearnProgress_restart`). Say it hands the recognition a
   callback that closes over the progress of its render. Start over, confirmed while the
   recognition listens, does not stop it; the pass then stores the former
   sentences and skips again, under a newer time, so that they also win on the other devices.

More behaviours that the models have and no run singles out:

- Leaving the review page and coming back passes the daily limit of new cards. `isRatingRef` belongs to a mounted
  page (`ReviewDeck.tsx:248`). A rating has saved its New card and refreshed the deck; its practice is not recorded yet, or not yet
  counted on screen. The page is left and opened anew, its queue is cut by the old count, and it lets the learner
  rate one more New card: the day has introduced more than the limit, and nothing has failed. The scene *Reopening* reaches this in 14
  steps, if `CapHolds` is checked without `~overlapped`.
- Concurrent syncs exceed the card cap together (`storage.go:358`), after which each sync of the account is
  refused as too large, although `MaxCards` is said to cap an account's cards.
- A change made during a failing run waits for the next user event (`syncScheduler.ts:105`), although the app says that sync
  will try again soon.
- A reread that a sync asked for can overwrite a newer pass on the screen, so that the next write drops it (`LessonDetail.tsx:218`).
- An imported card that the server has purged, while a request with the same version of it is out, is deleted by the late reply: it is the
  version that was sent. `backupStore.ts:50` says that every imported card is pushed by the next sync, even one the server
  purged. (`OnlyPurgedVanish` allows it: a purge did happen.)
- `chooseGoal` compares with the count of the last render (`useDailyGoal.ts:40`): after a midnight that nothing rendered, choosing a goal
  announces, or keeps, yesterday's. The same comparison announces a goal a second time when it is chosen between a save's commit and its
  answer. `AnnouncedIffMet` exempts both as lapses.
- A reload of the own lessons that is overtaken by a later one and lands after it can close an open lesson (`lessons.ts:110`); a
  lesson that has been created is opened wherever the learner has gone meanwhile (`ImportTextForm.tsx`). `LessonStaysOpen` names both.
- Two save buttons of one card, or one that was unmounted and mounted again, may be in flight at once:
  `isSavingRef` is per mounted button. `removeCard` then writes the tombstone of the card as rendered.
- A freeze that is shown as spent on the day after a missed one comes back when that day passes unpractised as well: the streak is lost instead.

## 7. Plan

Done: the modules, runs and theorems above.

Next, in this order:

1. `Sessions`: rolling extension, cap and logout, with the cookie a late reply sets, composed with `AccountSync`.
2. The other lists of the sync body (practice days, completion) in `SyncTx` and `CardSync`; the reloads after an import.
3. Learn progress under a failed read or write and a second tab.
4. A register whose newest write wins, as the abstract specification that `LearnProgress` implements.
5. The service worker's caches.

Theorems to come: the refinement of 4, and the invariants of the modules above.
