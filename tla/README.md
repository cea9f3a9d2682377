# privacyIDEA in TLA+

Models of the token, authentication and challenge code of the privacyIDEA
server and of the login, session and dashboard code of its web UI, the TLC
configurations that check them, and TLAPS proofs about them.
Paths are relative to the repository; `lib/` means `src/privacyidea/lib/` and
so on, and `app/` means `src/privacyidea/static_new/src/app/`.

## 1. The system

privacyIDEA is a Flask application. A request (`/validate/check`,
`/validate/triggerchallenge`, `/token/...`) is handled by one worker process
from start to end; several processes, on several nodes, share one SQL database
and, if configured, one Redis server. No process talks to another one. All
state is in rows that are read through an ORM session and written back with
`save()`, without row locks and without version numbers. One exception,
`lib/usersetting.py`, takes a lock.

| Component | State it keeps | Operations | Hard parts | Correct means |
|---|---|---|---|---|
| Token row, `TokenClass` (`models/token.py`, `lib/tokenclass.py`) | secret, counter, fail counter, maximum, active, revoked/locked, rollout state; tokeninfo keys | `inc_failcount`, `reset`, `check_reset_failcount`, `check_all`, `inc_count_auth*`, `save` | several commits per request, stale copies, timestamps in a second table | a locked token has a timestamp; limits hold; an administrator's change stays |
| HOTP token (`lib/tokens/hotptoken.py`) | counter; `otp1c`, `dueDate` | `check_otp`, `_autosync`, `resync`, `check_otp_exist`, `update` | six ways to accept a value, each moving the counter its own way | a value is accepted once; the counter never goes back |
| Authentication (`lib/token/auth.py`) | none of its own | `check_token_list`, `create_challenges_from_tokens`, `check_otp` | the order of the branches, checks made twice, tokens of one user that affect each other | only usable tokens log in; every wrong value of a login counts |
| Challenges (`lib/challenge.py`, `models/challenge.py`) | one row per token and transaction, with expiry | create, find, answer, cancel, clean up | one transaction shared by several tokens | an answered transaction is closed |
| Redis cache (`lib/cache/redis.py`) | hash per transaction, set per serial, a cooldown per process | cache, update, evict by challenge / transaction / serial, look up | two stores, partial failure, key expiry, write-back of removed objects | no challenge lost, unreachable or revived |
| TOTP token (`lib/tokens/totptoken.py`) | last accepted time step, drift, `otp1c` | `check_otp`, `_autosync`, `resync` | clock drift against the replay check | a time step is accepted once |
| Push token (`lib/tokens/pushtoken.py`) | challenge with the phone's answer | push, poll, confirm / decline, `push_wait` | phone, client and time-out act on one challenge | one outcome per challenge; a waiting request ends |
| Containers (`lib/container*.py`) | registration state, keys, challenges | register, synchronise, roll over, unregister | partial failure of a rollover | one device owns the container |
| Offline application (`lib/applications/offline.py`) | values handed out, refill token | attach, `get_refill` | the counter goes back while it searches | values handed out are not valid online |
| PIN reset, multi-round challenges (`lib/challengeresponsedecorators.py`, `foureyestoken.py`) | a challenge per round | | the next round is created before the last one is closed | rounds are not skipped |
| Authentication cache (`lib/authcache.py`) | hash of the password, count, dates | verify, update, delete | checked before it is incremented | `max_auths` holds |
| Remembered devices (`lib/remembered_device.py`) | rotating cookie counter | issue, verify, revoke | two requests with one cookie | a stolen cookie is noticed |
| Event counters, periodic tasks | a row per node | increase, decrease; run due tasks | read-modify-write; crash before the last run is noted | no event lost; a task runs once |
| Password recovery | a code | create, redeem | read, then delete | a code works once |
| User cache | a row | | | |
| User settings (`lib/usersetting.py`, `app/services/user-settings/`) | a document per user | read, write one key | answers and writes come late | a document changes only by its owner |
| Web UI: login page (`app/components/login/`, `app/services/validate/`) | prompt, transaction, polling, per instance of the page | submit, answer, start over, poll | answers at a page that was left, answers out of order, two ways to finish one challenge | a prompt knows its challenge; a push is one login; polling ends |
| Web UI: session (`app/services/session-timer/`, `app/services/auth/`, `app/app.component.ts`) | token and its data, also in the browser's storage; timers | sign in, log out, activity, reload, time-out | timers of several sessions in one tab, a clock read once a second | a session ends, on time and not before |
| Web UI: dashboard (`app/services/dashboard/`, `app/components/dashboard/`) | layout, edit snapshot, load and write under way | open, edit, save, give up, load, store | answers that arrive after edits, several administrators on one page, failures that are swallowed | nothing is put over another widget; a stored layout changes only by saving |
| Policies, event handlers | configuration | matching | | their results are inputs of the models |
| Configuration | the system switches | set, read | a copy per process | |
| Resolvers, crypto, audit, CA, SMS, SMTP, RADIUS, queue, the rest of the Web UI | | input and output | | not modelled |

Who calls whom: `api/validate.py` finds the tokens of a user or a serial and
calls `check_token_list`; that calls the methods of each token
(`check_reset_failcount`, `check_all`, `is_challenge_response`, `authenticate`,
...), which change rows and challenges and commit; policy decorators
(`reset_all_user_tokens`, `generic_challenge_response_resync`) wrap it and
change rows and challenges once more before the reply leaves. Challenges go
through `lib/challenge.py`, which asks the Redis cache first and the table
second. A push challenge is answered by the phone at `/ttype/push`
(`_handle_auth_response`), while the application polls
`/validate/polltransaction` and finishes with a second login, or waits in the
first one (`push_wait`). The web UI is such an application: the login page sends
`/auth`, polls, and sends `/auth` again; the answer starts the session of the
tab and its timers; the dashboard then loads its layout from the user settings.
In a tab there is one thread, so a handler is atomic; what interleaves is the
order of answers, timers, events of the user and page loads.

`PROJECT.json` lists every component with its files, and every hazard with its
line and the properties that cover it.

## 2. Modules

| Module | Models | Lines of thought |
|---|---|---|
| `HotpToken` | one token row and the methods of `TokenClass` / `HotpTokenClass` as functions from row to row | no variables; every other token module extends it |
| `TokenCheck` | `check_token_list` and every other call that changes those rows or challenges, one request per step | what the protocol promises when requests do not overlap |
| `OtpLedger` | the promise: a place in a sequence that only moves on, and a ledger of values taken | abstract specification, implemented by `TokenCheck` |
| `TokenWorkers` | one login path split into its SQL transactions, two worker processes, crashes, an administrator | what is left of the promise when requests overlap and die |
| `ChallengeStore` | Redis and the challenge table, one pipeline or transaction per step, failing calls | whether a challenge is found and stays removed |
| `PushChallenge` | the challenges of a push token between phone, application and waiting request, one transaction per step | whether overlapping answers, expiry and crashes let anybody in unasked, and whether waiting ends |
| `PushOutcome` | the promise: a challenge is confirmed or refused, granted or gone, once | abstract specification, implemented by `PushChallenge` |
| `SessionTimer` | the session of a browser tab and its timers | whether a session ends, on time and only then |
| `WebLogin` | the login page, its requests and polling, composed with `SessionTimer` and the challenges at the server | what late and reordered answers do |
| `DashboardLayout` | the layout service, the dashboard and the stored documents | whose layout is written, and when |
| `MCTokenCheck`, `MCTokenWorkers`, `MCChallengeStore`, `MCPushChallenge`, `MCWebLogin`, `MCDashboardLayout` | values of the constants for TLC | |
| `HotpTokenProofs` | what each method of a row does to it | lemmas for the next two |
| `TokenCheckProofs`, `TokenWorkersProofs`, `ChallengeStoreProofs`, `PushChallengeProofs`, `SessionTimerProofs`, `WebLoginProofs`, `DashboardLayoutProofs` | theorems about those modules | |

### HotpToken and TokenCheck

`tokens[t]` is the row of token `t` with the tokeninfo keys an authentication
uses; a key that is not set is `Absent`. `key` numbers the secrets a serial has
had. An OTP value is the record (token, secret, counter) that generates it, so
values never collide. `challenges` is the set of rows of the challenge table;
which store holds them does not matter here. `lastTxn` numbers transactions.
`settings` are the system switches and policies one request reads.

A step of `CheckTokenList` is a whole request. `Request` has the three forms a
password can take: a PIN, a PIN with an OTP value, an answer to a transaction.
`Unlocked`, `Seen`, `Usable`, `Responding`, `Requesting`, `Tried`, `Valid`,
`PinMatching` and `Invalid` are the lists the first loop of `check_token_list`
builds, `Classified` the rows it leaves behind: trying a value changes a row
even when it fails (`_autosync`), and a fail counter whose time-out has passed
is cleared. The branches are the actions `Login`, `AnswerOk`, `AnswerWrong`,
`TriggerByPin`, `PinOnly`, `NoMatch`; the guards make them exclusive in the
order of the `if` chain. A request form decides most of the order by itself:
only an answer can respond to a challenge and only a bare PIN can ask for one.
For an answer, the database gives the responding tokens in an order of its own,
so `AnswerOk` lets any set of them be tried before the one that matches. The
decorators are part of the action (`AfterGrant`, `ResyncAsked`).

The other actions are one call each: `CheckOtpOnly` (`otponly`), `Resync`,
`GetSerialByOtp`, `InitToken` / `FinalizeTwoStep` / `VerifyEnrollment` (the
three ways of enrolling), `TriggerChallenge`, and the administrative setters.
Those that `check_token_locked` decorates refuse a revoked token.

The variables `uses`, `misses`, `logins` and `answered` are history: no action
reads them. `misses` are the wrong values of login attempts, the two ways
`check_token_list` has: with a PIN (`CheckAll` fails or no value matches) and as
the answer to a challenge (`AnswerWrong`, where `Charged` adds one for every token
that was asked). `CheckOtpOnly`, `VerifyEnrollment`, `Resync` and `GetSerialByOtp`
take values too, and neither the code nor the history counts the wrong ones:
`otponly`, for one, can be asked without end (`lib/token/auth.py:121`).

### TokenWorkers

`row` is the row in the database, `view[w]` the copy a worker holds.  `Flush`
is what SQLAlchemy's unit of work sends: the columns whose value changed in the
session, and the tokeninfo keys a method sets or deletes. One action is one
commit, or one read whose result is used later; `pc` names the step. After a
commit the session reads the row again, so `Reread` stands where the code
touches an attribute after a commit. `Crash` ends a request between any two
commits. The administrator's calls write constants and are one step.

Assumed: a statement sees what is committed when it runs (READ COMMITTED); the
PIN is right; the secret is not replaced while requests are under way.

### ChallengeStore

`redis.hash` holds the fields of all hashes, `redis.index` the members of all
sets per serial; `hashTtl` and `indexTtl` are the expiries of the keys.
`link[p]` is false during the cooldown of process `p`. `Pipeline` is one
MULTI/EXEC: carried out, failed with or without having been carried out (which
starts the cooldown), or skipped because of the cooldown. `job[p]` is the
request a process works on: creating a transaction (`CreateChallenge`,
`SaveChallenge`, `Announce`), answering (`FindChallenge`, `DeleteChallenge`,
`RecordAnswer`), cancelling (`LookUp`, `EvictTransaction`, `Purge`), deleting a
token (`Members`, `EvictSerial`, `DropToken`).

Assumed: a request is shorter than the cooldown; a call that timed out took
effect at once or never; a process works on one request at a time; Redis loses
no data but by expiry. The first two are simplifications: a command executed
late (`lib/cache/redis.py:672`), or a request during which the cooldown ends
(line 246), is outside the model. Times are whole seconds, so that
`int(total_seconds())` (lines 531, 831) rounds nothing; what it takes off in the
code is less than a second, of keys that have 30 seconds (`Buffer`) to spare.

### PushChallenge

`rows[i]` is the row of challenge `i`. `phone[p]` is a call of the smartphone
that has read the row and holds the copy it decided on: `PhoneReads` is the
first half of `_handle_auth_response`, `PhoneStores` its `save()`, an UPDATE of
the changed columns that fails if the row is gone. `extend_finalize_window`
computes the new expiration from the copy. `Redeem`, `RedeemFails` and `Finish`
are `check_challenge_response` and the end of `check_token_list`.
`TriggerAndWait`, `WaiterScans` and `WaiterReplies` are `push_wait`: only a scan
that ends the loop is a step, the others change nothing. The outcome of a
waiting request is decided by its last scan, so `granted` is recorded there.
Declined and cancelled are one state, `refused`: the code treats them alike but
for the message. A failed presence answer is `mistake`.

Assumed: the table keeps the challenges (the cache is `ChallengeStore`'s
subject); signatures are right; the message reaches the phone or it does not,
which is a phone that never reads.

### SessionTimer and WebLogin

Time is counted in half seconds, since the code's times are 500 ms, 1 s and
1.5 s. `timers` are the session timeouts that are set and `timer` the one the
service remembers, likewise `intervals` and `intervalId`; a timer whose handle
was lost stays set, as in the browser. `currentTime` is the clock of the
service, advanced by an interval once a second: the time left of a token is
computed with it. `notices` are the logouts 1.5 s after a notice, which nothing
cancels. `Reload` is a new page: all timers are gone and `restoreSession` brings
back the stored session while its token is valid.

`WebLogin` has the session's variables and those of the page. An instance of
`LoginComponent` is made each time the login route is navigated to; `pages[p]`
is what instance `p` holds. A request remembers the instance that sent it, and
its answer reaches that instance even if another one is shown by then, since
nothing unsubscribes it. `Granted`, `Challenged` and `Fail` are
`evaluateResponse` and `handleError`. Polling is its end (`until`) and the
transaction of the poll under way (`poll`): the transaction is read anew for
each poll, and again for the login after a success, which is why the two are
kept apart. `MayGrant` is the server's decision as `api/auth.py` makes it: a
request with a credential (`ByKey`) is for the owner of the token, whatever
realm it names, needs the challenge of its own transaction if it is a `webauthn` one,
is not granted by a confirmed push and asks no further challenge; the others are
for a user in a realm. A challenge may also reach the page with no list of what is
asked (`ChallengeUnlisted`, `ChallengedUnlisted`): `evaluateResponse` has a
branch for that, and `login.component.spec.ts:286` a test, though this server's
`/auth` lists them always. The page then keeps the transaction it knew, or none, and
shows the OTP field. `unnamed` is history: the instances whose last challenge was of
that kind.

Assumed: the clocks of server and browser agree; one tab (the stored session is
shared between tabs in the code); timers run when they are due.

### DashboardLayout

`widgets` is the layout the service holds, a set of widgets; `snapshot` the
layout an edit began with, and edit mode is that there is one. `loading` is the
GET under way, `posts` the writes, `stored` the documents. The service is made by
the first session of a page (`SignIn`) and lives until the page is loaded anew,
whoever signs in later; the dashboard is opened and closed any number of times
(`OpenDashboard` is its constructor with `pruneForbiddenWidgets`,
`CloseDashboard` its `ngOnDestroy`). No type is pinned in the registry as it is,
so `reconcilePinned` only drops the types the registry does not know;
`resetLayout` is called by no component. `MaxPost` bounds the writes under way as
a guard of every action that writes.

A widget has an id, which no other one gets (`Fresh`, `AddWidget`). A stored
document is a set of widgets with numbers, whichever: they may overlap, leave the
grid or have types nobody knows, as `readWidgets` lets them (`Document`, `Kept`).
Only their ids are assumed to differ, which `track widget.id` of the template
relies on.

A drag is its beginning and its end (`DragStart`, `DragEnd`); the end takes its
widget to the nearest place of the grid and looks for collisions then. It does not
ask for edit mode: where that was left in between, the new layout is written at
once. A resize is `ResizeStart`, any number of `ResizeMove` and `ResizeEnd`: a move
computes the size and whether it is valid (`resizePreview`), the end applies what
was last computed. Between them the layout may be replaced by the answer or by
giving up; a preview that nobody applied, as after a `pointercancel`, stays for the
next resize and for any release of the pointer over a handle. A drag ends with the
element of its widget (`PageFollows`), both end with the dashboard (`GesturesEnd`).
The size of a preview follows `constraintsFor`: between minimum and maximum, but
never beyond the right edge, and with the handle "s" the width as it was.

`touched`, `measured` and `misjudged` are history. `touched` are the administrators
on whose page a layout was saved or a drag ended outside of edit mode, or who shared
a page; the properties about stored documents speak of the others. `measured` says
that the preview was computed for the layout there is, from where the widget stands;
`misjudged` that one of which this is not so was applied.

## 3. What the runs show

Runs that must pass:

| Run | Instance | Properties |
|---|---|---|
| `users` | two interchangeable tokens with one PIN, requests by user and by serial, four switches, no challenges | `OtpUsedOnce` |
| `challenges` | two tokens sharing two transactions, with expiry, locking, clear time-out, revocation | `AnsweredIsClosed`, `ChallengesDistinct`, `EveryMissCounted`, `OnlyUsableLogsIn` |
| `resync` | one token, four counters, a sync window beyond the count window, automatic resync over challenges | `SpentIsBehind`, `ImplementsLedger` |
| `lifecycle` | one token, three secrets, all rollout states, clear time-out, one permitted login, no challenges | `TypeOK`, `OtpUsedOnce`, `LockIsStamped`, `SuccessBudget` |
| `workers` | two workers, three requests, three values, an administrator, crashes, time | `TypeOK`, `AdministratorPrevails`, `LockIsStamped`, `SerialOtpOnce`, `SerialMissesCounted`, `SerialBudget`, `SerialDueDate` |
| `store` | two processes, two serials with validity 1 and 2, a failing Redis call, a crash anywhere | `TypeOK`, `KeysOutliveChallenges`, `IndexCoversHash`, `OwedIsFound`, `ClosedIsGone` |
| `push` | two challenges of either mode, two overlapping calls of the phone, an application, a waiting request, crashes anywhere | `TypeOK`, `GrantedIsAgreed`, `ClosedIsGone`, `ExpiryOnlyGrows`, `CodeStays`, `ImplementsOutcome`, `WaitEnds` |
| `web` | one tab, two logins of the user's and those the polling begins, two transactions and challenges without one, with and without an idle time, log-outs and reloads | `TypeOK`, `EndsWithItsToken`, `PromptsHaveChallenge`, `OneLoginPerPush`, `ToldWhenDue`, `SessionsEnd`, `PollingEnds` |
| `dashboard` | an administrator with all rights and a stored layout with an overlap or none, one without the right to a default widget, two widget types and an unknown one, a grid of two columns | `TypeOK`, `WellPlaced`, `OnlySavesChange` |

In words:

* However requests, administration and enrolment are mixed, an OTP value is
  accepted at most once (`OtpUsedOnce`), because it ends up behind the counter
  or with a secret that is gone (`SpentIsBehind`), and no call moves a counter
  back. All of it together: `TokenCheck` implements `OtpLedger`.
  (`CounterMonotone` follows from that and is proved; no run repeats it.)
* Wrong values of a login are never forgotten (`EveryMissCounted`): those offered
  as answers to a challenge, with a PIN, or to several tokens at once are all in
  the fail counter since it was last reset. Together with the check of
  `failcount < maxfail` this bounds the guesses of those who log in; it says nothing
  of `otponly`, enrolment checks, resynchronisation and search, which count none.
* A token its own failures locked has a timestamp (`LockIsStamped`), so the
  clear time-out can free it. This holds without overlap and, in
  `TokenWorkers`, with any overlap; there an increment may be lost, but the
  counter and the timestamp never come apart. In `lifecycle` the administrator's
  setters lock no token: they may, and then nothing stamps it (section 4).
* No more logins are granted than `count_auth_success_max` (`SuccessBudget`). The
  run has direct logins only; that a challenge response keeps the budget too is the
  theorem's part.
* An old challenge does not log in a token that was disabled, revoked or locked
  since (`OnlyUsableLogsIn`), unless its clear time-out is over, and a transaction that ended in a login is closed
  for all its tokens (`AnsweredIsClosed`).
* A worker that is late does not undo a revocation (`AdministratorPrevails`),
  because only changed columns are written.
* When requests do not overlap, a crash at any commit costs at most a valid
  value: never a second use of one, a forgotten failure, a login beyond the
  maximum or a date that belongs to another value (`Serial...`).
* Through failures, cooldowns, expiry and crashes a challenge is found by every
  process that reaches Redis (`OwedIsFound`, for transactions that are not
  split), can be found by its serial when the token is deleted
  (`IndexCoversHash`), and does not come back after a cancellation that was
  reported complete (`ClosedIsGone`, but for the write-back below).

* A push challenge has one outcome (`ImplementsOutcome`): it is refused, or it
  grants, or it goes away, and a refusal is final although an answer may be on
  its way. Nobody is let in on a challenge its user did not agree to within the
  validity (`GrantedIsAgreed`), in spite of the finalize window that moves the
  expiration. A row a phone still holds is not written back after it was deleted
  (`ClosedIsGone`), its expiration never moves back (`ExpiryOnlyGrows`), and a
  code on display is not replaced by a late repetition (`CodeStays`). A waiting
  request ends (`WaitEnds`).
* A session of the web UI ends (`SessionsEnd`), not later than its token and the
  notice (`EndsWithItsToken`), and the user is told so only when it is due
  (`ToldWhenDue`), whatever timers earlier sessions of the tab have left.
* A login page that offers a key or polls knows what for, and one that asks for an
  OTP too, unless the last challenge it heard of came without a transaction
  (`PromptsHaveChallenge`); then the OTP is sent as a first factor. Further,
  polling ends on pages that were left too (`PollingEnds`), and no two logins are
  begun for one push (`OneLoginPerPush`).
* The dashboard puts no widget over another, off the grid or there twice
  (`WellPlaced`), in steps that others come between; what overlaps did so in a
  stored document and was not touched since. The exception is the resize applied from a preview that is out of
  date (below), which the property names. The stored layout of an administrator who
  may see every widget stays as it is until she saves or drops a widget
  (`OnlySavesChange`), whatever she gives up, and however late or wrong the answers
  come. Of administrators who lack a right it says nothing: see the run `layout`.

Runs that show a statement of the repository's comments, tests or documentation
to be wrong for the code:

| Run | Statement | What happens |
|---|---|---|
| `overlap` | "the OTP value that was used for this authentication is invalidated!" | a late write of an older counter makes a granted value acceptable again |
| `realm` | the second call of `/auth` carries "the same fields plus `transaction_id`"; the test "should stop polling and log in on successful poll" | the login after a confirmed push names no realm (`app/components/login/login.component.ts:278`), so a user of another realm than the default one is not found |
| `layout` | "Writing the default layout before the stored one arrived would overwrite it" | opening the dashboard prunes the default layout while the stored one is on its way, for an administrator without the right to a default widget; this counts as a change by the user, and the default layout is written over the stored one |

Met on the way, and followed by no run:

* `inc_count_auth` "counts authentications", but with n tokens of one PIN a wrong
  value adds n to each (`lib/token/auth.py:553`, a loop in a loop).
* `doc/configuration/system_config.rst:55`: "When the failcounter reaches the
  maximum, the token gets a timestamp": not when the maximum is lowered to the
  counter (`lib/tokenclass.py:1031`); time never clears such a token.
* `otp1c` and `dueDate` survive `set_otpkey` (`models/token.py:187`), so the first
  value of a resync pair may be of the secret before a re-enrolment.
* `lib/challenge.py:89`: the cache is not authoritative for "what it claims is
  absent"; it is, for a transaction of which it holds another serial's challenge
  (`lib/cache/redis.py:747`).
* A wrong answer recorded while its transaction is cancelled writes the challenge
  back into Redis (`lib/cache/redis.py:840`).
* The comment on the PIN-reset challenge speaks of a challenge still to be
  answered, but nothing asks whether it is valid.
* `set_failcounter(0)` computed on a stale copy removes the timestamp of a token
  locked meanwhile.
* A process that dies between the removal of an answered challenge and the
  cancellation of its transaction leaves the challenges of the other tokens open.
* A challenge that is both confirmed and refused (two overlapping calls of the
  phone) is reported as accepted by `/validate/polltransaction` and refused by
  the scan (`lib/challenge_types.py` calls itself the "Single source of truth").
* `_handle_auth_response` goes on to the next challenge after it has saved one
  that did match; a row deleted meanwhile then raises when it is read
  (`lib/tokens/pushtoken.py:841`), which only the failure of the save guards.
* A request under `push_wait` that times out adds to the fail counter.
* A wrong OTP value on the login page ends the polling for the push of the same
  transaction; polls slower than 500 ms are cancelled by the next one.
* The login after a poll names the transaction the page holds by then, which may
  be a newer one than the poll asked for (`login.component.ts:279`).
* A log-out by hand leaves the session timer armed: the logout 1.5 s after a
  notice can hit a session that was just begun. An answer of `/auth` that arrives
  after a log-out signs the user in again.
* The layout service outlives a log-out: the next administrator on the page sees
  the layout of the one before and, without a right she had, stores it pruned as
  her own. Edits made while the layout loads are lost when it arrives, and giving
  up then restores the default layout, which the next save stores.
* A resize is judged when the pointer moves and done when it is released
  (`dashboard.component.ts:232`, `:262`). Where the layout changed in between, or
  a preview was left by a `pointercancel`, it puts one widget over another, and saving
  stores that. A drag that ends after edit mode was left writes at once
  (`dashboard.component.ts:169`).

### Bounds

* Tokens: two, so that one request can treat two tokens differently, or alike.
  Where two tokens add nothing (resync, enrolment) there is one.
* Counters: with a count window of 1, a sync window of 3 and counters 0 to 3, a
  value can be behind, expected, in the sync window as first or second of a
  pair, and beyond it.
* `maxfail` 1 or 2: reaching the maximum by the last and by an earlier failure.
* Time: two steps. A validity and a time-out of 1 then have a moment before, at
  and after expiry.
* Secrets: three in `lifecycle`, so that a two-step enrolment (two secrets)
  follows or precedes another one.
* Transactions: two in `challenges` and `resync`, since the resync decorator
  draws a second one within one request; one in `store`, where two serials and
  two processes already give every overlap of creation, answer and removal.
* `MaxCountAuth` bounds a counter nothing but `count_auth_max` reads. It is a
  guard of every action that increments it.
* `workers`: three requests, since a third one after two overlapping ones is
  what a lost update shows itself to. `store`: one failing call; a second one
  by the other process only puts that process on the table too.

* `push`: two calls of the phone, so that two answers overlap on a row; two
  challenges, so that an old one is there when a new one is created; validity 2,
  grace 1 and three moments, so that an answer comes before, at and after the end
  and the window outlasts or falls short of the validity; `maxfail` 1.
* `web`: the user sends two requests and each transaction may add one by its
  push, so that answers overlap and a login follows a login; a token of two
  seconds and an idle time of one and a half, so that either may end a session;
  nothing is begun after the third half second (`LastStart`), and time goes on
  until every timer has run out (an assumption of the module ties `MaxTime` to
  it).
* `dashboard`: two changes, drags or resizes begun (`MaxEdit`), so that one can
  follow another one's effect or fall into it, with any number of moves and all
  three handles; two sessions or reloads within one (`MaxVisit`); rows 0 and 1
  (`MaxRow`); twelve ids, enough that no page wants for one; one write under way at a
  time (`MaxPost`).

Symmetry is used for tokens with equal PINs, workers and processes; no run with
symmetry checks a liveness property. `workers` and `overlap` switch deadlock
checking off: with the requests used up and the token revoked nothing is left
to do. The other systems never stop.

### Fairness

The server's handlers but `push_wait` are finite sequences of steps that end in a
reply and wait for nobody: for them no fairness is assumed and no liveness
property stated.

`PushChallenge!FairSpec`: weak fairness of a waiting request's scan and reply
(the loop sleeps at most `POLL_INTERVAL` and goes on by itself) and of time.
Nothing is assumed of the phone, the application or the clean-up, so `WaitEnds`
is shown for a phone that never answers as well. A waiting request may also end
by the death of its process.

`WebLogin!FairSpec`: weak fairness of the timeouts that are due, which the
browser runs, and strong fairness of time (`Pass`). Strong, because each new
page sets its timer again, and where it is due at once `Pass` is disabled for that
moment; time goes on nevertheless for a user who loads the page over and over. The
user, the server and the phone may do nothing for ever.

`DashboardLayout` states no liveness: answers may never come.

## 4. What is proved

Proved for every set of tokens, processes and serials, all windows, time-outs,
policies and bounds:

| Module | Theorem | States |
|---|---|---|
| `TokenCheckProofs` | `TypeCorrect` | `Spec => []TypeOK` |
| | `OtpValuesAreSpentOnce` | `Spec => []OtpUsedOnce` |
| | `SpentValuesAreBehind` | `Spec => []SpentIsBehind` |
| | `CountersNeverFallBack` | `Spec => CounterMonotone` |
| | `CheckImplementsLedger` | `Spec => ImplementsLedger` |
| | `TransactionsAreDistinct` | `Spec => []ChallengesDistinct` |
| | `AnsweredTransactionsStayClosed` | `Spec => []AnsweredIsClosed` |
| | `EveryMissIsCounted` | `Spec => []EveryMissCounted` |
| | `SuccessStaysInBudget` | `Spec /\ [](~settings.noAuthCounter) => []SuccessBudget` |
| | `LocksAreStamped` | `Spec /\ [][Adjusts => LockIsStamped']_vars => []LockIsStamped`, if `MaxFail0 # 0` and `0 \notin MaxFails` |
| | `LoginsNeedUsableTokens` | `Spec => OnlyUsableLogsIn` |
| `TokenWorkersProofs` | `TypeCorrect` | `Spec => []TypeOK` |
| | `AdministratorIsNotOverwritten` | `Spec => []AdministratorPrevails` |
| | `LocksAreStamped` | `Spec => []LockIsStamped`, if `MaxFail0 # 0` |
| | `SerialRequestsSpendOnce` | `Spec => []SerialOtpOnce` |
| | `SerialRequestsCountMisses` | `Spec => []SerialMissesCounted` |
| | `SerialRequestsAreBooked` | `Spec => []SerialBudget` |
| | `SerialPairsKeepTheirDate` | `Spec => []SerialDueDate` |
| `ChallengeStoreProofs` | `TypeCorrect` | `Spec => []TypeOK` |
| | `KeysExpireLast` | `Spec => []KeysOutliveChallenges` |
| | `LiveChallengesAreIndexed` | `Spec => []IndexCoversHash` |
| | `OwedChallengesAreFound` | `Spec => []OwedIsFound` |
| | `ClosedStaysGone` | `Spec => []ClosedIsGone` |
| `PushChallengeProofs` | `TypeCorrect` | `Spec => []TypeOK` |
| | `GrantsAreAgreed` | `Spec => []GrantedIsAgreed` |
| | `ClosedChallengesAreGone` | `Spec => []ClosedIsGone` |
| | `ExpirationsGrow` | `Spec => ExpiryOnlyGrows` |
| | `CodesStay` | `Spec => CodeStays` |
| | `PushImplementsOutcome` | `Spec => ImplementsOutcome` |
| `SessionTimerProofs` | `EndsInTime`, `ToldInTime` | `TimerSpec => []EndsWithItsToken`, `TimerSpec => ToldWhenDue` |
| `WebLoginProofs` | `LoginTypeCorrect` | `Spec => []TypeOK` |
| | `PromptsKnow` | `Spec => []PromptsHaveChallenge` |
| | `PushesOnce` | `Spec => []OneLoginPerPush` |
| | `TabEndsInTime`, `TabToldInTime` | `Spec => []EndsWithItsToken`, `Spec => ToldWhenDue` |
| `DashboardLayoutProofs` | `TypeCorrect` | `Spec => []TypeOK` |
| | `LayoutsWellPlaced` | `Spec => []WellPlaced` |
| | `OnlySavesWrite` | `Spec => []OnlySavesChange` |

The assumptions are `RowConstants`, `CheckConstants`, `WorkerConstants`,
`StoreConstants`, `PushConstants`, `TimerConstants`, `LoginConstants` and
`DashboardConstants`: the numbers are natural numbers, the sets are what their names
say, `Token`, `Process` and `Serial` are finite, `Token` and `Worker` not empty.
TLC evaluates them in the runs of the module that declares them.

Three theorems have a hypothesis more, each because the property is false of the
code without it. `MaxFail0 # 0` (both `LocksAreStamped`), and no maximum set to
0 later: a token that may never fail is locked from the start, and nothing stamped
it. `LocksAreStamped` of `TokenCheck` also has one on the administrator's setters
(`Adjusts`): `set_max_fail` and `set_failcounter` write one column and no timestamp,
so either can lock a token without one; the theorem says that as long as they do
not, no other call does. `SuccessStaysInBudget` is about the time while
`no_auth_counter` is off: with it on, logins are not counted and
`count_auth_success_max` limits nothing. The run `lifecycle`, which checks the two
properties, satisfies the hypotheses: its settings count, and its administrator
sets the counter to 0, never to the maximum, and no maximum.

`TokenCheck`. `OtpUsedOnce` alone is not inductive: in a state where a value
was used once and the counter stands before it, it could be used again. The
invariant that is, is `TypeOK /\ OtpUsedOnce /\ SpentIsBehind`. Row by row, the
lemmas `CountersKeepSecret`, `CheckOtpAdvances`, `IncOtpCounterAdvances` and
`NewKeyRow` say what each method does to the secret and the counter: nothing,
move it behind an accepted value that was at or ahead of it, or start a new
secret. One lemma per action lifts this to `Progress` (no row falls back) and
`Spends` (a use that is recorded lies at or ahead of the old counter and behind
the new one); `NextStep` collects them for `Next`. From `Progress` and `Spends`
together, a spent value stays behind and is not accepted again
(`SpentOnceStep`). `Progress` is also `CounterMonotone`, and `Progress` with
`Spends` is a step of `OtpLedger` (`LedgerStep`), with `tokens[t].key` and
`tokens[t].count` as the refinement mapping.

For the challenges every step is one that `Issues`: what it adds carries numbers
drawn in this step, one challenge for a token, and a transaction it answers was
open before and leaves nothing behind. `AnsweredIsClosed` is not inductive,
since a number that is drawn later could be that of an answered transaction; the
invariant is `TransactionsInOrder`: it, `ChallengesDistinct`, and that no answered
transaction is from the future.

For the counters, every step but the two setters `set_max_fail` and
`set_failcounter` (`Adjusts`) keeps the books of every token (`Settles`): the wrong
values it adds are in the fail counter, the maximum stays, a row that was stamped
when locked still is, and a login was granted by a token that passed
`CheckAll` and is in `count_auth_success`. A request changes a row several
times (challenge loop, classification, resync, reset, counting), so the lemmas say
of each of these parts that the row is still `Balanced`. From `Settles` follow
`EveryMissCounted`, which is inductive with the types; `SuccessBudget`, from
`logins <= count_auth_success <= max` (`BudgetCounted`), since a login is only
granted below the maximum; `LockIsStamped`, from `LocksStamped`; and
`OnlyUsableLogsIn`.

`TokenWorkers`. A copy may be of any age, so nothing can be said of the row from
what a worker read. What can be said is what a step writes: `FlushRow` shows that
a column the worker did not change stays as it is in the database, and the lemma
of each step that it changes neither switch nor maximum, and the fail counter
only together with its timestamp (`Writes`). One fact about copies is needed and
part of the invariant: a worker that is about to clear the fail counter has seen
it at the maximum, so its copy of the counter is not already 0; otherwise the
counter would stay and only the timestamp would go.

While no two requests overlap, a copy is as good as the row in what the request
decides by. The invariant for this (`InSeries`) says that one worker at a time has
a request (`OneAtATime`); what the row keeps between requests (`Books`): spent
values are behind the counter, misses and logins are in theirs, a date belongs to
the remembered value; and what a worker knows at each step (`Knows`): before the
commit of the counter its value is still ahead of it, afterwards spent and not yet
answered, and from the commit of the success on there is one success more
than logins. A crash ends the request wherever it is and leaves `Books`, which is
all the next one starts from: this is what the order of the commits is for.

`ChallengeStore`. The invariant is that the cache is sound (`Sound`): typed, no
key expires before a challenge in it, every live challenge is indexed unless its
token is being deleted. Every pipeline preserves it, and a pipeline that fails
leaves either the old or the new cache. `IndexCoversHash` needs the other half:
what keeps the expiry of a serial's set from removing a live entry is
`KeysOutliveChallenges`. Of the requests under way this half only needs that
one which empties the cache of a serial works on a token whose deletion has begun
(`JobOK`).

Where a challenge is kept depends on who works on its transaction. The invariant
(`Traced`) says that transactions are told apart by their numbers and challenges
by serial and transaction (`Numbered`); that until a transaction is announced one
process alone works on it, holding what is not stored yet, and afterwards nobody
adds to it (`Fits`); and that what is owed after the announcement is in the cache
or the table (`Stored`). For `ClosedIsGone` one fact is about the cancellation
while it runs: after it emptied the cache and before it empties the table, only a
wrong answer has put something back. Steps that neither create nor announce are
treated alike (`Ordinary`); creating, saving and announcing have a lemma
each. `OwedIsFound` then needs that `get_challenges` looks into the table where the
cache has no hash of the transaction, and that where it has one, what is only in
the table makes the transaction a split one.

`PushChallenge`. The proof follows one row: whatever happens to it is nothing,
its creation, an answer stored by a call of the phone, or its removal
(`Change`). What a call stores depends on a copy of any age, so the invariant
says of the copy what made it answerable: not yet answered, and with the
expiration the row was created with (`CallOK`). Of the row it says that nothing
but an agreement answers it (`RowOK`); with that, `GrantedIsAgreed`,
`ExpiryOnlyGrows` and `CodeStays` follow from `Change`. For the refinement each
kind of change is a move of `PushOutcome`'s stage or a stutter; a grant is one
because a scan that finds an answer finds the row confirmed and not refused.

`SessionTimer`. A signed-in tab has a timer that fires before the token expires,
or a logout under way not later than expiry and notice (`EndIsSet`); nothing that
is due lies in the past (`NothingMissed`); and the clock is never more than a
tick behind (`ClockRuns`), which is why a timer set by it is late by no more than
the half second it was set early. For `ToldWhenDue`: only the timer set last is
left (`OneTimer`), and it was set for the session that is on
(`TimerSpeaksForSession`).

`WebLogin`. The session in it is that of `SessionTimer` (lemma
`TabImplementsSession`: every step of the tab is a step of the session or leaves
it alone), so its theorems carry over. `OneLoginPerPush` needs to know where a
transaction can be: its challenge is in one answer under way or on one instance
of the page (`OnePlace`), and once a request was sent for its push nothing polls
for it any more (`SpentIsOver`). `TypeOK` bounds the numbers of requests and of
instances of the page, which takes counting (`Counted`): the requests sent and
the transactions whose push may still be sent (`Unpushed`) are together no more
than the user's requests and the transactions, and the instances of the page with
what can still make one (`Claims`: a session, a request, an answer) no more than
the requests sent and one.

`DashboardLayout`. `WellPlaced` needs to know of a preview that it is right where it
is measured (`Judged`): a valid one then overlaps nothing in the layout there is, so
that applying it keeps the layout well built, and with that and the types it is
inductive. A widget that leaves the grid in a stored document is followed by its
id, since a resize of its height changes it and leaves it there.
`OnlySavesChange` needs to know why nothing is written: a change made while the layout
was asked for is remembered only where someone of the page saved or lacks a right,
and two on one page are both counted as having met another (`OwnPage`).

Every safety property, action property and refinement that a passing run checks is
stated by one of these theorems. Only model-checked are the liveness properties
`WaitEnds` of `PushChallenge` and `SessionsEnd` and `PollingEnds` of `WebLogin`,
since liveness under fairness is out of the prover's reach, as are `ENABLED`,
induction over data and `RECURSIVE` operators; the modules use none of the last
three. The three runs that end in a violation are counterexamples and have
nothing to prove.

## 5. Not modelled

* The validity period of a token, realms, owners and token groups: further
  conditions on which tokens reach the list.
* How a PIN is stored and how a password is split into PIN and OTP.
* Collisions of OTP values; encoding and encryption of anything.
* Of push: enrolment, sending the message, the challenges in Redis.
* Of the web UI: remote login, the user name, messages, two tabs that share the
  stored session, clocks that differ, other keys of the user settings and their
  cache, two writes of a layout at the same time.
* The other token types, containers, the offline application and the remaining
  components of section 1: `PROJECT.json` says of each why.
* Look-ups of challenges by serial alone, pagination and the payload of a
  challenge.

Most lines of JavaScript and TypeScript in the repository have no behaviour of
their own to model: the old UI under `static/` is for the larger part vendored
libraries (AngularJS, jQuery, Bootstrap and others under `static/contrib/`), and
what is left of both UIs is forms, tables and services that send one request and
show its answer. The modules follow what decides whether somebody is logged in
and what is written for whom, which is mostly the Python server. The share of all
lines they cover is small for that reason, and it is not raised by mapping
definitions to lines they do not translate.

## 6. What could follow

1. `Container`: registration, synchronisation, rollover and unregistration by two
   devices and an administrator, with partial failure of a rollover. Abstract
   specification: one device owns the container.
2. `TotpToken`: time steps, drift and resynchronisation, implementing `OtpLedger`
   with the time step as place.
3. `MultiRound`: PIN reset, multi-round and four-eyes challenges on top of
   `TokenCheck`'s branches.
4. `OfflineRefill`: values handed out, the counter that goes back during the
   search, a crash or a login in between.
5. `Leases`: authentication cache (`max_auths` is read before it is incremented),
   remembered devices (two requests with one cookie), event counters, periodic
   tasks (the last run is noted after it finished), recovery codes (read, then
   deleted): each a read-modify-write without a lock.
6. A composition of `TokenWorkers` and `ChallengeStore`: overlapping answers to
   one challenge.

A theorem to add: `OtpLedger` as what `TokenWorkers` implements for requests that
do not overlap.
