# Plots: a verification development in TLA+

Plots is a web application for drawing floor plans in a three-dimensional editor. The backend
(`src/backend`) is FastAPI over PostgreSQL and Redis; the frontend (`src/frontend`) is Next.js
with a three.js editor. The modules here model the parts whose correctness depends on the order
in which things happen. TLC checks them on small instances and TLAPS proves the main invariants
for every instance.

## 1. The system

| Part | State it keeps | Operations | Talks to |
|---|---|---|---|
| Plot scene (`_use-plot-scene.ts`) | arrays of drawn objects, info maps, the three.js scene, undo and redo stacks of closures, selection, current tool, the stroke and overlays that are open; the colours of materials | one per tool, undo, redo, fill, clear, commit and cancel of the overlays, load | sheet persistence (what it serialises, what it loads) |
| Editor's panel (same hook, `side-panel.tsx`, `sheet-config.tsx`) | sheet size and grid step, lock of the camera, view mode, block size and ghost, preview, copies of counts | toggles, sliders, the size dialog, presets | the scene's handlers, which set the same state |
| Sheet persistence (same hook, `sheet-switcher.tsx`, `plot-sheets.ts`; backend `plot/`) | `sheetIdRef`, the debounce timer, `isSaving`, the URL; the sheets table | autosave, Save, load, switch, reload; create, get, update, delete | HTTP, one async continuation per request |
| Chat prompt (`prompt-input.tsx`) | files attached and their object URLs, the text, submissions under way | attach, remove, screenshot, type, submit | `onSubmit` of the page |
| Password sessions (`auth_service.py`) | rows of `sessions`, `users`, `password_reset_tokens` | register, login, refresh, logout, request and confirm a reset, change the password | PostgreSQL transactions, one per request; SendGrid |
| Password forms (`forgot-password-form.tsx`, `reset-password-form.tsx`, profile page) | what each form shows, the token of its URL | submit, hear the answer, leave | the same backend |
| Session middleware | a Redis key per access token | one check per request | sessions table, Redis |
| Permission checks (`dependencies.py`) | none | wildcards of codes | roles |
| Roles, permissions, users (`role_service.py`, `permission_service.py`, `admin_service.py`) | their tables | create, update, delete, assign, deactivate | each other's rows |
| Administration console (`users-table.tsx`, `roles-manager.tsx`, `permissions-manager.tsx`) | rows as rendered, the sheet, the delete dialog, their spinners | edit, create, delete, close | server actions, which the client runs one at a time |
| Browser session (`auth-context.tsx`, `proxy.ts`, login, profile page) | cookies of the browser, `user` of the tab, the profile's fields | sign in, sign out, save the profile, reload | backend; other tabs of the browser |
| OAuth login (`google_auth_service.py`, `azure_auth_service.py`, routers) | columns of `users` | callback, unlink | external identity providers |
| Rate limit | a counter per client in Redis | one check per request | Redis |
| Uploads | blobs, rows | upload, delete | blob storage |
| Audit, notifications, worker, payments, health, configuration | little or none | | |

What is hard about it:

- **Protocol sequences in the editor.** Removal is `splice(indexOf(o), 1)`. When the object is
  missing, this takes the *last* element out. Undo closures, the overlays and the stroke all
  hold references to objects that clear, load, undo and erase may have removed meanwhile, so
  the arrays a save writes, what is on display, and what the stacks say agree only if every
  sequence of events keeps them in step. The panel keeps copies of the scene's state that as many
  handlers must remember to set.
- **Async continuations in the client.** `performSave` reads `sheetIdRef` before its `await` and
  writes it after; `loadScene` replaces the drawing when its answer comes. A submission of the
  chat clears what is there when it ends. The console's `handleSave` closes whatever sheet is open
  when its answer comes. `getMe`, a sign-in and a sign-out answer in any order.
- **Transactions in the backend.** Every request is one READ COMMITTED transaction that reads,
  decides in Python, and writes later. Requests overlap; the commit comes after the answer was
  sent.
- **Partial failures.** A blob and its row, an e-mail and its token, INCR and EXPIRE, a provider's
  columns and the session: two writes without a transaction around both.
- **Caches and copies.** A verdict about a session is reused for up to 60 seconds; a page shows
  rows that were read before; a tab shows the user it signed in.

`PROJECT.json` lists each hazard at its line with the properties that cover it.
Where the code itself goes wrong and a property excepts just that case, the hazard names no property,
or only those that cover the rest of it, and its note says what is excepted.

## 2. Modules

| Module | Models | Kind |
|---|---|---|
| `PlotScene` | the editor's arrays, info maps, scene, stacks, overlays and stroke | component |
| `EditHistory` | a document with undo and redo as snapshots | abstract specification |
| `PlotSceneHistory` | the refinement mapping from `PlotScene` to `EditHistory` | refinement |
| `PlotSceneProofs` | five theorems about `PlotScene`, one of them the refinement of `EditHistory` | proofs |
| `PlotColour` | colours of materials, highlights and fills on top of every step of `PlotScene` | component, extends `PlotSceneHistory` |
| `PlotColourProofs` | two theorems about `PlotColour` | proofs |
| `PlotView` | the editor's panel on top of every step of `PlotScene` | component, extends `PlotScene` |
| `PlotSave` | the editor's timer, save, load and switcher against the sheets table | component, client and server |
| `PlotSaveProofs` | four theorems about `PlotSave` | proofs |
| `ChatPrompt` | the chat's input: files, text, submissions | component |
| `PasswordReset` | reset links, new passwords and their forms against the backend | component, client and server |
| `Pages` | `PlotView`, `ChatPrompt` and `PasswordReset`, one page at a time | composition |
| `PagesProofs` | seven theorems about `Pages`, one of them that the editor's page implements `PlotScene` | proofs |
| `AuthSessions` | overlapping requests of one user over `sessions` and `users` | component |
| `AuthSessionsProofs` | six theorems about `AuthSessions` | proofs |
| `SessionCache` | the session middleware for one token: cache, row, handler | component |
| `RateLimit` | the rate limiter for one client address | component |
| `RateLimitProofs` | three theorems about `RateLimit` | proofs |
| `Accounts` | the requests that administer users, roles and permissions, and who may send them | component |
| `OAuthLogin` | callbacks of the providers, unlinking | component, extends `Accounts` |
| `Uploads` | upload and deletion over storage and database | component, extends `Accounts` |
| `Backend` | `Accounts`, `OAuthLogin` and `Uploads` in the same slots | composition |
| `BackendProofs` | six theorems about `Backend` | proofs |
| `AdminConsole` | an administration page and its queue of server actions | component |
| `BrowserSession` | cookies, redirects, sign-in, sign-out and the profile page of one tab | component |
| `Dashboard` | `AdminConsole` inside `BrowserSession`: the actions carry the tab's cookie | composition |
| `SignedInProofs` | four theorems about `SessionCache`, six about `Dashboard` | proofs |
| `MC...` | small instances for TLC | instances |

`PROJECT.json` maps every definition that stands for code to its lines.

### PlotScene

State: `array[k]` is `blockMeshes`, `wallMeshes`, `divPanels`, `textSprites` and `penLines`;
`info` the keys of the four info maps; `scene` the children of the three.js scene; `undoStack`
and `redoStack` hold commands, records in place of the closures. `tool`, `anchor`, `penLine`,
`activeDiv`, `textPending`, `selected` are the refs of the same names; `loading` is the await in
`loadScene`.

Actions: one per event handler and outcome (`PlaceBlock`, `FirstClick`, `SecondClick`,
`SecondClickTooSmall`, `TextClick`, `SelectClick`, `EraseAt`, `PencilDown`, `PencilUp`,
`PencilUpErasing`, `PencilLeave`, `CommitText`, `CancelText`, `CommitDiv`, `CancelDiv`, `DoTool`,
`Undo`, `Redo`, `DoFill`, `DoClear`, `Escape`, `LoadScene`, `LoadFails`). `Splice` models
`splice(indexOf(o), 1)` as JavaScript executes it: with an object that is not there, the *last*
entry goes.

Abstracted: geometry (a ray hits one of the objects it could hit), the line, circle, ellipse and
vertical tools as one `shape` tool; colours and cameras are in `PlotColour` and `PlotView`.
`Interrupts` says whether a late load or a second finger may strike while a stroke or the div
overlay is open; with a mouse and a loaded sheet they cannot.

### EditHistory and PlotSceneHistory

`EditHistory` is what a user expects of undo: a document, the documents before it and those that
were undone. The mapping computes from each stack which objects would be present once its
commands have been played down to a position. `ImplementsHistory` says that the closures amount
to snapshots; `PlotSceneProofs` proves it. Panels and lines are outside the mapping: a cancelled panel and a stroke in
progress change the arrays without a command.

### PlotSave

State of the client: the drawing as the set of edits in it, `sheetIdRef`, the URL, the timer,
`isSaving`. Requests in flight are slots, each "sent", "handled" or "failed"; the timer, the button
and a reload send another whatever is in flight, the server takes them in any order, and `Answer` is
the continuation after the `await` of whoever sent it, unless the page has gone or gave up. Server: `stored`, `created`, `live`, changed by `HandleCreate`,
`HandleUpdate`, `Delete` (`SheetService`).

`Edit` is what `record` does (it arms the timer); `EditQuietly` is a change that a save would send
and that arms no timer: undo, redo, clear, the text of a panel, name, size and grid.

`Faults` lets requests and answers get lost, connections break under requests that the server still
handles (`GiveUp`), and sheets be deleted elsewhere. There is no bound on how long an answer takes, as
there is none in the code. What overlaps do wrong is recorded in history variables and fields, which
the properties name: `spare` (sheets of creations sent while the page awaited its sheet, or taken for
failed), `stale` (an update that one sent no earlier has overtaken; a load that read its sheet under an
update; a creation whose drawing a load took away), `astray` (a page told its sheet by such a load or
creation). `at` says how many edits had been made when a request was sent.

### AuthSessions

State: `status[t]` is the committed row of `sessions` whose tokens were built in second `t` (the
token holds nothing finer than the second, and its hash is unique); `tx[p]` is the transaction of
request `p`, with what it has read (`seen`), the row it has updated and locked (`revoked`), the
`users` row it holds, the second of its new tokens (`minted`). A step is one statement:
`SelectSession`, `RevokeSession`, `UpdateUser`, `BuildTokens`, `CreateSession`, `Commit`,
`Rollback`, `Abort`, in the order `After` gives each operation. `Blockers` models what PostgreSQL
makes a statement wait for: the holder of a row lock, or the transaction that decides whether an
INSERT violates the partial unique index or the unique index of the hash. `EndDeadlock` is the
victim of deadlock detection.

### SessionCache

One token; keys of different tokens do not meet. `activeAt` and `revokedAt` date the row,
`cache` is the Redis key, `check[p]` a request on its way through `dispatch`: `LookUp` the cache,
`Query` the row, `Store` the verdict, call the handler. The commit of the row is an action of its
own because FastAPI runs the code after `yield` of `get_db` once the answer is sent. `Delay`
bounds the time from reading the row to storing the verdict; the code has no such bound, and the
properties say how it enters. `Outages` names what may fail.

### RateLimit

`counter` and `ttl` are the two keys in Redis, `request[r]` the command that a request sends
next, `granted[k][a]` how many requests key `k` let pass in the last `a` seconds and the current one (a
history variable). Time is relative, so the
state space is finite without a bound on the clock. Counter values above the limit are one value:
the code compares with 1 and with the limit only. `leaked` is a history variable: the keys whose EXPIRE a
failure prevented.

### PlotColour

Every action is one of `PlotScene` conjoined with what it does to the colours: `colour[o]` is
`material.color`, `origColor[o]` a line's `userData.origColor`. `fills` and `unfills` hold what the
closures of the fills on the two stacks remember, in the order of the stacks. `Highlight` is
`addSel` and `removeSel`, `Paint` the closure of a fill: a mesh is painted, a line only while it
is not highlighted, else the colour waits in `userData`. `born` and `touched` are history variables:
the colour an object was made with, and which objects were ever selected. `Restored` has the
fallback to white that every line falls back to, as nothing sets `origColor` when a line is made.
Colours are few values: those of the input, white, and the highlight's gold.

### PlotView

`sheet` is what a save reads, `shown` and `draft` what the panel and its dialog show, `drawn` the
grid in the scene. What a load may bring (`Stored`) is in range because the editor, which clamps, is
the only writer of sheets here: the backend asks for `gt=0` only, and `loadScene` does not clamp. `noRotate` belongs to the camera's controls; `ToggleRotation`, `ViewMode` and
`DoTool` each compute it from what the others set. `buttons` are the panel's copies `canUndo`,
`canRedo` and `selCount`, set by `SyncUI` (in `record`), `CountSelection` and by hand in undo, redo,
clear and load. Steps of the grid are counted in tenths; `ParsedSide` is the clamp of `applySheet`,
with NaN and 0 both turned into 20. The camera's position and the border sliders are left out.

### ChatPrompt

`files` is the list of attachments: they are numbered as they come (`Attached` is how many came), so that
the list is a set in ascending order. They are kept with or without a `PromptInputProvider` (`provider`, chosen at
the start); `url[f]` its object URL. A submission is "converting" (the blobs are read), "awaiting"
(the promise of `onSubmit`), "done" or "failed". `Submit` empties the text without a provider
(`form.reset()` comes before `onSubmit`), `ClearAll` clears what is there when a submission
*succeeds*. `capture` is the number of files that the screenshot's handler saw when it was asked
for. Leaving the page stops the user and not what is awaited: submissions run to their end, and a
screenshot that comes then (`CapturedLate`) may be given an object URL that no cleanup will find, as
React may or may not run a state updater of an unmounted component. `removed`, `delivered`,
`midway`, `overlap`, `late`, `seen`, `replaced` and `outdated` are history variables.

### PasswordReset

`ask[l]` is how far the request for link `l` has come, `token[l]` its committed row, `mailbox` what
was delivered. The e-mail goes out before its token is committed, and the answer before the commit:
`uv.lock` pins FastAPI 0.135.3, which runs the code after `yield` of `get_db` once the answer is
sent. `request[r]` is a new password on its way: "sent", "read", "answered", "done", or
"refused" and "undone". `Update` waits while another request holds the users row. `pane[f]` is
what form `f` shows. Passwords are named by the request that brings them. `told`, `after` and `over`
of a request are history: its form heard a success; the requests of which that was true when it was
submitted; those committed when it read. What a new password does
to sessions is left to `AuthSessions`, as `AuthSessions` leaves tokens to this module.

### Accounts, OAuthLogin, Uploads

A request of `Accounts` is a record in a slot and takes two steps. The first checks the caller's
rights (`May`: the wildcards of `dependencies.py`) and reads the rows it decides upon; it is one
operator per operation of the services (`CreateRole`, `DeletePermission`, `SoftDeleteUser`, ...). The
deletion of a role takes one step more: `DeleteRole` reads the role with its users (`loaded`),
`CheckUnused` asks which live users have it, and `RemoveRole` sets the role of those loaded to NULL by
their ids, whatever role they have by then. The last step flushes and commits: it writes the columns that differ from what was read
(`Changed`, `Column`), as SQLAlchemy does, and fails on a violated foreign key or unique index.
Between the two, other requests commit. `Uses` and `Takes` say which rows a request relies on and
which it takes from others; `crossed` collects the rows where two requests under way met so, and
`weakened` whether a request that removes nobody took a manager's rights. The invariants hold but
for these, and name them.

`OAuthLogin` adds callbacks and unlinking in the same slots. An account at a provider has the address
of one user, so users are named by it. `WriteReturning` is the callback of a user whose row is
found, as the code runs it: see section 4. `Uploads` has a file's blob and row, written by
`Storage` and `WriteFile`; `Drop` is a failure anywhere, after which storage may or may not have
done its part. `Backend` lets all of them run at once, one request per slot.

### AdminConsole, BrowserSession, Dashboard

`AdminConsole` is a page with `rows` as last rendered, a sheet (`form`, `saving`), a dialog
(`dialog`, `deleting`, `deleteError`) and `queue`, the server actions of the client, which Next.js
runs one at a time; one that succeeds calls `revalidatePath`, so `Render` reads the backend and the
answer carries the rows. The permissions' page stays when its rows cannot be fetched
(`fetchPermissions` catches the error): `RenderEmpty` and `Mount` with an error show no rows and
`fetchError`. `Reject` is an action whose call fails: nothing of the handler after it
runs. `OtherAdmin` changes the backend meanwhile.

`BrowserSession` is a tab: `cookie` is whose access token the browser holds, `alive` whether the
session behind it is unrevoked, `user` what `AuthProvider` says, `me` the `getMe` requests under
way, as whom each was sent. `proxy` is the redirect of `proxy.ts`, `Load` a full load, which
discards the tab's state with the requests it waits for. `Expire`, `Revoke` and `OtherTab` change
the cookie or the session under it. `crossed` says that the cookie changed under the tab.

In `Dashboard` an action of the console runs with the cookie of the tab at that time: it is carried
out if `Signed`, else refused. To leave the page takes the page's state along (`Mount`);
`RenderFails` is an action that was carried out on a page of users or roles that cannot be fetched
any more, for whatever reason: an error page takes its place.

### Composition

`PlotSceneHistory` composes `PlotScene` with `EditHistory`; `PlotColour` and `PlotView` extend
`PlotScene` step by step, and `PagesProofs` proves that `PlotView` in `Pages` implements it.
`Backend` composes what shares users, roles and permissions; `Dashboard` what shares the cookie;
`PlotSave` and `PasswordReset` each compose a client with its server. `Pages` has three pages that
share no state and is there for one run and one set of proofs: a step is a step of one of the three,
and a behaviour stays on the page it begins on. Nothing is claimed of going from one to the other, which
unmounts the one (`Leave`, `Abandon`) and mounts the other afresh. `PlotScene` and `PlotSave` meet in two places: `LoadScene` takes any
sheet of `Sheets` as `PlotSave`'s answer to a get, and `PlotSave` takes an edit as any change of
the arrays. `SessionCache` takes the commit and the revocation that `AuthSessions` models in detail
as two actions.

## 3. What TLC checks

| Run | Instance | Question | Distinct states |
|---|---|---|---|
| `scene_undo` | two blocks, one line, a sheet with both, one fill | can the stacks always be played (`HistoryReplayable`), is what is on display what a save writes (`ShownIsSaved`), are undo and redo snapshots (`ImplementsHistory`)? | 195,500 |
| `scene_overlays` | two panels, a label, a line; interruptions | is what a save would write listed once and on display (`SavedIsShown`)? | 1,157,005 |
| `scene_colours` | a block, a line, one fill, two colours | is each object saved in its colour (`ColoursSaved`), does a highlight end (`HighlightFollows`)? | 820,722 |
| `pages` | `/plot`: a wall, the tools around it, three changes in the panel; `/chat`: three files, two texts, two submissions; reset: two links, two new passwords, one tab | does the camera's lock follow (`RotationFollows`), the panel tell the truth (`ViewTells`)? are attachments in order (`FilesInOrder`), does what was entered go out once (`GoesOutOnce`)? is a link good for one reset and until then (`LinksAreGood`), does a later password stand against one that was reported before (`LaterStands`)? | 4,251,214 |
| `save_faults` | two edits, two requests in flight, one of: reload, loss, broken connection, deletion | one drawing, one sheet (`OneSheetPerDrawing`); attached to it (`AttachedToItsSheet`); no edit lost (`NoLostEdit`), but for the overlaps named; `isSaving` ends | 571,193 |
| `save_slow` | two edits, two requests in flight, a reload; no faults | does an edit get stored (`EditsReachServer`)? | 450,115 |
| `sessions_all` | three requests, any operation, one abort | one active session, kept until a logout, and not back once revoked; a refresh replaces; who deadlocks; does every request end? | 80,164 |
| `cache_outages` | two connections, TTL 2, Delay 1, five seconds, both services failing | are revocations caught, does a valid session pass, who is refused after the handler ran (`RefusedAfterItRan`)? | 3,017,049 |
| `rate_shared` | three requests, limits 2 and 1, windows 2 and 3, Redis failing | is the rate bounded, does every counter expire, is nobody turned away for ever? | 240,257 |
| `backend` | three users, three roles, two permissions, two providers, one file; three requests, two at once | does what one decided upon hold when it writes (`HeldPermissionLive`, `ManagerRemains`, `SourceLinked`, `BlobsMatchRows`, `RoleTakenOpenly`)? | 456,706 |
| `oauth_returning` | the same, one request | does a returning user get a session (`ReturningSignsIn`)? **No** | |
| `dashboard` | two accounts, one an administrator; one item, two values, one change elsewhere; users' and permissions' page | do calls and forms stay apart (`CallsApart`), is the list true (`ListIsTrue`), is the user the cookie's (`UserIsCookies`, `SavesOwnNames`, `LoginForSignedOut`), do spinners end? | 1,199,526 |

A property joins what is one question of the code: `ViewTells`, `GoesOutOnce`, `BlobsMatchRows` and
others are conjunctions whose parts are named and commented in the module. Type correctness is
proved (section 5) and not run.

Every property of a passing run is accompanied by a mutant, a definition beside the one it would
replace, which makes a plausible mistake (a forgotten reset, a dropped index, an EXPIRE left out)
and under which TLC finds the property violated. `PROJECT.json` lists which goes with which.

### The bounds and why they are enough

- *Drawings of two objects of a kind* (`scene_undo`: two blocks; `scene_overlays`: two panels). `splice`
  with a missing object damages the neighbour, so two of a kind show it; a third adds no new
  neighbour. `ShownIsSaved`, which is not about panels, is therefore checked with the blocks. Commands
  about different objects commute but for that. The stacks need no bound: each object is drawn once
  (`Fresh`), and only fills, bounded by `MaxFills`, could pile up.
- *One block, one line, one fill* (`scene_colours`). Colours belong to one object; a fill of
  several is the same fill of each. A fill, its undo, a selection and the next fill are there in
  every order.
- *Pages by themselves*. They share no state, so `Pages` adds their states instead of multiplying
  them, and every page keeps the bounds it needs: three changes of the panel (one per handler that
  sets `noRotate`), three files and two submissions (one overtaken by another, one file that came
  meanwhile), two links and two new passwords (one link used twice, or two used once).
- *Two requests in flight* (`save_faults`, `save_slow`). Every race is between a save and the one before
  it, or between a save and a load: two slots have each of them, in either order, with a reload or a
  failure amid. The proofs are for any number of slots.
- *Three requests of a user* (`sessions_all`). Two overlap; the third may commit between them.
  `DeadlockNeedsLogin` quantifies over circles of any of the three. Seconds up to 2: two tokens of
  the same second and two of different ones.
- *Two connections, TTL 2, five seconds* (`cache_outages`). One fills the cache that the other
  reads. Five seconds hold a commit, a revocation, a stale verdict stored, and its expiry.
- *Three requests, limits 2 and 1* (`rate_shared`). One to set the expiry, one within the limit and
  one above it, each of them at any command. `RateBound` is tight: with one less TLC refutes it.
- *Three requests, two at once* (`backend`). Every crossing is between two; the third makes what
  they cross about, or shows what is left. One manager, one member and one without an account
  are the three kinds of user; a third manager is made by an assignment.
- *One item, one change elsewhere* (`dashboard`). Calls are about one item each and run one at a
  time; two accounts are one that may use the page and one that may not.

Symmetry is used where no property and no CHOOSE tells the values apart: objects of a kind and
colours, slots and providers, submissions and links. The runs with liveness (`save_faults`,
`save_slow`, `sessions_all`, `rate_shared`, `dashboard`) use none. The proofs of section 5 cover every
bound, for the properties that they prove.

### Fairness

- `PlotSave`: the browser runs an armed timer and the continuation of an answered request, the
  server handles what it receives and answers it. A failed request is answered, too
  (`clientFetch` rejects). There is no fairness on the user, on reloads, on losses.
- `AuthSessions`: the event loop resumes each request whose statement can proceed, and PostgreSQL
  ends a deadlock (`deadlock_timeout`). Weak fairness is enough: a statement that becomes
  possible stays so until the request itself moves.
- `RateLimit`: time passes, and the event loop resumes a request whose command Redis has answered.
- `Dashboard`: requests are answered, one way or another: server actions on the page
  (`ServedOnPage`, `RenderFails`) and the tab's own (`Answered`). There is none on the user, nor on
  which answer it is.
- `CHECK_DEADLOCK FALSE` is set where the model stops at a bound (all edits made, all requests
  done, all objects drawn, the page left). `SessionCache` and `RateLimit` are checked for deadlock: a
  new request can always begin.

## 4. What does not hold

A run in which TLC finds the violation, and the finding of `PROJECT.json`:

- **A user who returns through a provider cannot sign in** (`oauth_returning`). `_flush` awaits
  itself instead of `self.db.flush()` (`google_auth_service.py:50`, and its Azure twin), so every
  callback of a user whose row is found ends in a RecursionError before a session is made. The
  router's `except Exception` (`google_router.py:52`) answers with a redirect, so `get_db` sees no
  exception and commits the columns set so far.

The models contain the following as the code does it. A property that would deny one names the
exception instead, by a history variable where it says which rows or calls are meant; the
hazards list them at their lines.

*Editor.*

- `cancelDiv` removes the panel but not its command (`_use-plot-scene.ts:484`). Undo then removes it
  again, which takes another panel's entry out of `divPanels`; redo brings back the panel that
  "Esc → cancel" (`_constants.ts:97`) had cancelled. This is why `Paired` excludes panels from
  `ShownIsSaved` and `HistoryReplayable`.
- "New Sheet" (`sheet-switcher.tsx:38`) changes the URL and nothing else: the editor loads on mount
  only, stays attached to the old sheet, and saves to it.
- Requests of one page overlap, and nothing in `performSave` or `loadScene` waits for an earlier one. Two
  updates in flight may be applied in the other order (`stale`); a save while the first creation, or the
  load, is under way creates a second sheet, as does one after a creation whose answer was lost
  (`spare`); a load that read its sheet under an update, or a creation answered after a load, tells
  the page a sheet that its drawing does not belong to (`astray`).
- Undo, redo, clear and the text of a panel do not arm the autosave.
- `origColor` of a line is never set when it is made: a line that was selected is white when it is
  deselected, and golden in a save while it is selected. `MeshesKeepColour` is about blocks and
  walls for this reason, `UntouchedKeepColour` about what was never selected. An object erased
  while selected stays selected, is counted, and can be filled.
- `loadScene` builds the grid before it takes over the stored step (`stepLoaded`).
- `apiListSheets` (`plot-sheets.ts:89`) expects an array; the list route answers with a page object.

*Chat.* Without a provider, as on the chat page, the form is reset before `onSubmit` (`:817`), so the
text is lost on an error although the code says "Don't clear on error" (`prompt-input.tsx:844`,
`:853`). A screenshot that comes after the page was left may be given an object URL that nothing
revokes (`:437`, `:587`). The end of a submission
clears the files, and in a provider the text, that came meanwhile. A screenshot is counted against
the files there were when it was asked for. Enter submits again while a submission is under way.
The chat page drops the files it is handed.

*Sessions.*

- A logout may be undone by a refresh that has read the session before and inserts a new one
  after (`RefreshReplaces` holds until a logout or a password change has ended).
- A handler may run twice: `call_next` stands inside the `try` meant for Redis
  (`session_middleware.py:74`). Without the database the middleware lets every token pass, revoked
  ones included (:112, "graceful degradation"); `RevocationCaught` leaves those out.
- One failure between INCR and EXPIRE leaves a counter without expiry, and a client that is turned
  away for ever (`leaked`).
- Two overlapping confirmations of one reset token both set their password
  (`auth_service.py:295`). A link is e-mailed before its token is committed; a timeout of SendGrid
  may leave a delivered link without a token. A success may be shown although the commit then
  fails: that password is never set. A new request or a change of password invalidates no earlier token. Without a SendGrid key
  nothing is sent and the form says "Check your email" (`email.py:13`).
- The frontend never calls `/auth/refresh`. A sign-out that is refused keeps the cookie, and the full
  load of `/login` is sent on to `/dashboard`, which the comment at `auth-context.tsx:73` says it is
  there to prevent. A `getMe` that fails counts as nobody. The profile's fields are filled once, so
  that a save before the answer blanks the names. Tabs share the cookie and not `user`.
- `test_refresh_success` (`src/backend/tests/test_auth/test_token_refresh.py:8-19`) expects 200 for
  a refresh token that has no row in `sessions`; the code answers 401. `src/backend/app/main.py:99`
  calls its middlewares "outermost first"; Starlette makes the last one added the outermost.

*Administration.*

- Deletion of a role meets an assignment of it: the foreign key sets the user's role to NULL. A user
  loaded with the role (`role_service.py:114`) and moved to another before `:116` asks for live users
  loses the new role with the old one.
  Deletion of a permission meets an assignment: a role holds a deleted permission, which is still
  honoured and cannot be unassigned. Two managers may remove each other. An unlink meets a callback:
  `auth_source` names a provider that is not linked. `crossed` holds these.
- `role_route.py:103` says "Soft-deletes a role"; `role_service.py:125` deletes the row. Short names
  are not unique: two roles "member" break the sign-in of every new OAuth user
  (`google_auth_service.py:135`). The code of a deleted permission is offered and then refused
  (`permission_service.py:72`, `:85`).
- In the console an answer that comes late closes, or shows its error in, a sheet or a dialog opened
  under its spinner. `handleSave` has no `try`: if the call itself fails, the spinner lasts until
  the page is left. Permissions that cannot be fetched are shown as an empty list, with the error above
  it, that can be used. The users' form always sends role and activity, so it overwrites another
  administrator's change (`users-table.tsx:117-118`).

## 5. What TLAPS proves

The theorems hold for every value of the constants that the named assumptions of each module
admit: any sets of objects, requests and connections, any bounds, TTL, limits and windows.

**PlotSceneProofs.** `TypeCorrect`, `ShownObjectsAreSaved`, `HistoryStaysReplayable`,
`SavedObjectsAreShown`, `HistoryRefined`. `ShownIsSaved` is not inductive: `Undo` removes the object of
a command, and if it were not there `Splice` would take out a neighbour. That it is there is what the
stacks say, hence `HistoryReplayable`; a stroke in progress is drawn before its command exists, hence
`StrokeApart`; and a removal must take out the only entry of its object, hence `Tidy`. `IInv` is their
conjunction. `SavedIsShown` is about panels and lines, too, whose commands lose their pairing: a
cancelled panel leaves its command behind, and a redo brings it back. `LInv` adds what is true of all
commands all the same: those about one object alternate on each stack, the next to be played never
adds what is there, and the next undo of an object differs from its next redo (`Playable`); the stroke
in progress is on neither stack (`StrokeUnknown`).

`HistoryRefined` is the refinement, `Spec => ImplementsHistory`. Under the mapping every snapshot is
what the arrays would hold after the closures down to it (`After`, `Snaps`). `record` is an edit; to
play a closure and push it on the other stack leaves every other snapshot alone, because the object
it adds or removes is the one the command names (`Toggles`); the handlers that change panels, lines
and the UI stutter; clear and load reset the history. Each step of `PlotScene` maps to a step of
`EditHistory` or to a stutter.

**PlotColourProofs.** `ColoursAreSaved`, `HighlightIsSelection`. An undo paints the colours that its
fill remembers, whatever happened since. What makes that right is a fact about all fills of both
stacks at once. In the order in which they were made (`Timeline`) each remembers what those before it
say of an object, and the object has the colour that those done so far say (`Linked`); an undo or a
redo moves along the timeline and leaves it as it is. `PlotScene` has as many fills on its stacks as
`PlotColour` remembers (`Counted`, by the cardinality of the positions), only what was selected is on
the timeline (`Reached`), and no fill remembers the highlight as a line's colour (`Changes`).

**PlotSaveProofs.** `TypeCorrect`, `StaysAttached`, `EditsAreKept` and `OneSheet`, for any number of
requests in flight, with and without faults. None of the three is inductive, as a request
carries what the editor had when it was sent. `Follows` relates every request to the editor and the
sheets of now: only the page's own creation knows the sheet it has made (`Untold`); while the page
awaits its sheet it has none, or a spare one (`Awaiting`); what is not stale is still what the editor
or the sheet has (`Current`), and an update brings at least what its sheet has and what older ones
under way bring (`Ahead`), so that only one that was overtaken takes anything out. `Apart` is about
whose the edits are: two sheets that are not spare share none (`Separate`), those on display are in
no such sheet but the editor's own or the one it is about to be told of (`Owned`), and a creation under
way brings none that is anybody's (`Unshared`).

**AuthSessionsProofs.** `TypeCorrect`, `AtMostOneSession`, `RefreshRotates`, `SessionStays`,
`DeadlocksNeedALogin`, `RevocationLasts`. `OneActiveSession` is decided at a commit, long after the
index let the INSERT pass. In between the transaction holds the lock of the row it revoked, so `IInv`
says what a transaction holds at each step (`Shape`), that locks are exclusive (`Locks`), that rows
read exist (`ReadRows`), and that a row inserted and not committed excludes an active one that the
same transaction does not revoke (`Inserting`). `Rotating` adds what is true until a logout or a
password change ends (`EndedStays`: what has ended stays so). For deadlocks each wait is shown to go
up in the order of the locks unless a login is involved.

**RateLimitProofs.** `TypeCorrect`, `KeysAlwaysExpire`, `RateIsBounded`. `ExpiryPending` makes the
first two inductive: the key of a request before its EXPIRE exists, has no expiry, so that it stays,
and no other request will set one. `RateBound` takes `Rated`, which tells the grants of the code's own
window from those left of the one before. Of the older one at most `Limit[k] - 1` are still in sight,
because its expiry began when the request that opened it passed; to these the counter adds those it
admitted, all but the request that is before its EXPIRE. A tick that drops the key drops the
opener from sight with it. As `granted` is cumulative, no sum over a window is involved.

**BackendProofs.** `BackendTypes`, `PermissionsHeldLive`, `AManagerRemains`, `SourcesLinked`,
`FilesStored`, `RolesTakenOpenly`. A request writes what it decided upon earlier, so the invariant has
to say what is still true of it. `Sound` says so per request: the permission it assigns is live, the
caller of a removal still manages, the account it unlinks is still linked, unless the row is in
`crossed`. Another request can only falsify it by taking what this one uses, and then `Met` (whatever
two requests under way take from each other is in `crossed`) applies. The deletion of a role begins
to rely on its users when it has asked for them (`CheckUnusedKeeps`); `RolesTakenOpenly` excepts a
user who was loaded before and has another role since. `FilesInv` says
the same of jobs (`JobSound`): an upload has the name of its file to itself, and its blob once storage
answered; after a deletion has passed storage the blob is gone, whoever deletes beside it.

**PagesProofs.** `EditorDraws`: `PagesSpec` implements `PlotScene`'s `Spec`, so that what is proved of
the drawing holds with the panel around it. `CameraFollows`, `ViewAlwaysTells`, by the invariant
`Panel` (the parts of `ViewTells` and `RotationFollows` with the ranges of what the panel holds) with
`PlotScene`'s `TypeOK`. `LinksAlwaysGood` and `LaterAlwaysStands` by `ResetInv`: whoever has read a token
and not committed found it unused, and no committed reset of its link is older than that
(`ReadUnspent`); rows say what was committed (`RowsTell`); what a form was told is on its way or done
(`ToldWritten`). A reported password that is not committed still holds the users row, so one submitted
later is written after it (`InTurn`). `FilesStayInOrder` and `EntriesGoOutOnce`, of the chat, by `PromptInv`. The end of a
submission clears away everything there is; that nothing is lost by it takes `ClearsItsOwn` (while it
is under way there is nothing but what it took along and what came meanwhile), that nothing goes out
twice takes `TakeTurns` (of two submissions that do not overlap one ended, and what it delivered the
other never had). `TextsKept` says where each text is, `LateApart` that what comes after the page was
left is on no list and in no submission. `FilesLimited` needs that a list grows by what is new only (`LongerBy`).

**SignedInProofs.** Of the cache: `VerdictTypes`, `RevocationIsCaught`, `ValidSessionIsServed`,
`RefusedForRevocation`. A verdict is served long after it was read: the invariants date it.
`Recent` says that what is stored was read at most `Delay` ago, `NoLateAcceptance` and
`NoLateRejection` that a verdict which is no longer true was read before the row changed, is
stored `Delay` later at the latest and lives for `TTL`. `NoFalseWord` follows a request whose
handler ran on a cached verdict: the row had been committed by then, so that a query which rejects
it has seen a revocation.

Of the dashboard: `DashboardTypes`, `CallsStayApart`, `ListStaysTrue`, `UserStaysCookies`,
`NamesStayOwn`, `LoginStaysForSignedOut`. `TabInv`: while nothing crossed, each `getMe` under way was
sent as the cookie's account and the fields were filled from it (`AskedAsCookie`,
`FilledAsCookie`), and a sign-in is under way on `/login` only. `PageInv`: only the head of the queue
has run (`OnlyHeadRuns`), there is one call of a kind (`OneOfAKind`), and its spinner shows while
it is there (`SpinnersTell`); an answer that carries rows differs from the backend only in what
another administrator changed since (`HeadDone`).

### Only model-checked

- Liveness (`EditsReachServer`, both `SavingEnds`, `RequestsEnd`, `LimitIsTemporary`): the prover has
  no rule for fairness and ENABLED here.

All safety and action properties of the passing runs are stated by a theorem. `ReturningSignsIn`, of
`oauth_returning`, does not hold.

## 6. What is not modelled

- *Audit, notifications, worker, payments, health; assembly, configuration, logging*: thin I/O,
  placeholders and wiring, without state of their own.
- *Dashboard shell, settings, lists of sheets, charts, UI elements*: presentation, with an open flag,
  a local preference or demo data. Read and left there: the order of effects in `theme-provider.tsx`,
  the search parameters that a page change in the sheets' grid captures, the updater of the streamed
  text in `chat/page.tsx`.
- *In the modelled parts*: geometry of the editor; several editors of one sheet; password hashes;
  expiry of tokens and rows that lies days away; searching and paging of the lists; the provider's
  side of OAuth; the names and descriptions of roles. `PlotSave` takes the answer and the commit of a
  request as one step.
- *Assumed of Next.js*: a client runs its server actions one at a time; an action that revalidates
  a path or a tag has the current page rendered again, and on these dynamic pages it is not
  served from a cache.
- *Assumed of the seed* (`Accounts`): a super administrator's role with `*:*` and a member's role with
  any other permissions exist; permissions of the same code do not.

## 7. Plan

Done, in this order: `PlotScene`, `EditHistory`, `PlotSceneHistory`, `PlotSave`, `AuthSessions`,
`SessionCache`, `RateLimit` with their proofs; then `Accounts`, `OAuthLogin`, `Uploads`, `Backend` with
theirs; `PlotColour`; `PlotView`, `ChatPrompt`, `PasswordReset`, `Pages`; `AdminConsole`,
`BrowserSession`, `Dashboard`, with theirs; then the proofs of the refinement of `EditHistory`, of
`SavedIsShown`, the colours, the chat and `RateBound`. Next:

1. `AuthSessions` composed with `SessionCache` and with `PasswordReset`.
2. Two editors of one sheet in `PlotSave`, and the commit after the answer there.
3. `PermissionCheck`: the wildcard match over strings as a function, against a reference definition.
