# A formal model of the BotsChat plugin for Hermes

This directory models the platform plugin in `src/` (a Hermes gateway adapter
that connects to the BotsChat cloud over one WebSocket) in TLA+, checks the
model with TLC, and proves its most important results with TLAPS.  File and
line numbers are those of `src/` at the commit this directory belongs to.

## 1. The system

A Hermes gateway process hosts one `BotsChatAdapter` per profile.  The adapter
owns a `BotsChatCloudClient` (one outbound WebSocket to the `ConnectionDO` of the
account) and a `TaskBridge` (background tasks of the UI as Hermes cron jobs).
Everything of the client, the adapter and the bridge runs on the gateway's
asyncio event loop and interleaves only at an `await`; the stream, tool and
session hooks run on worker threads of Hermes and post their frames to that loop.

| Component | State | Operations | What makes it hard | What makes it correct |
|---|---|---|---|---|
| Cloud client, `ws_client.py` | `_ws`, `_intentional_close`, `connected`, `_backoff_ms`, `e2e_key`, three tasks | `start`, `_run_loop`, `_connect_once`, `_handle_raw`, `_sleep_backoff`, `stop`, `send` | `stop()` against every await of the run task; closes behind buffered frames; handlers that raise; a reset task that outlives its connection; jitter and Retry-After | one socket; no dial after stop, auth.fail or 4009; stop is final and leaves no socket; key before messages; it recovers and it hangs up |
| Agents of an account (`ConnectionDO`, external) | one agent socket per account | accept, close the older ones with 4009 | agents that replace each other while connections drop | the newest survives; no endless war |
| Outbound replies, `adapter.py` 299-346, 581-625 | `_pending_model_changes`, the client's key and flag | `send`, `_send_media`, `/model` | concurrent replies; the key appears during an upload; sockets that die; a call that outlives its client | flags tell the truth; no way back to plaintext; `/model` announced once and the latest last |
| Stream hooks, `adapter.py` 675-751 | `_stream_runs` | `_on_stream_start`, `_delta`, `_end` | a worker thread per hook; dropped events | start, chunk*, end of the right run |
| Task bridge, `tasks.py` 85-189, `adapter.py` 274-289, 393-399 | none of its own: Hermes' job store and the server's rows | `schedule`, `delete`, `scan` | lost acks, edits before the ack, unreadable store, tools that fail in their return value | one job per task, mirrored; the right job is hit; no old settings come back |
| Job runs, `tasks.py` 195-270 | a poll per request | `run`, `_poll_run` | scheduled and overlapping runs in one record; runs that do not start; polls that expire | a row shows its own run, and is closed |
| Profiles and adapter life cycle, `adapter.py` 102-121, 197-272, 421-435, 813-868, 935-970 | `BOTSCHAT_*` variables, `pairing_token`, `_lock_key`, `_client`, `_default_model` | `_apply_yaml_config`, `validate_config`, `connect`, `disconnect`, `_apply_default_model` | one environment for several profiles; edits under a running gateway; an awaited stop before the release; crashes; CLI commands that outlive their handler | one binding per token; no lock left behind; own settings; the told model is Hermes's |
| Inbound dispatch and tool hooks, `adapter.py` 353-556, 754-789 | `_known_sessions`, `_last_session`, `_session_users` | decrypt, download, `_dispatch`; tool start and end | slow and failing downloads, failed keys, handlers that raise, commands without a user; hooks on a worker thread | in order, once, in clear, from the right sender; tools shown in their own session |
| Cron session-end hook, `adapter.py` 870-932 | none | posts a `job.update` of its own | a record that lags behind the hook | what it tells is at most one execution old |
| Settings, registration, `adapter.py` 406-420, 973-1002 | `notify_preview`, callbacks | `models.list`, `notifyPreview`, `register` | | mostly not modelled |
| Protocol, E2E, media, `protocol.py`, `e2e.py`, `media.py` | none | codec, cipher, HTTP | | data and I/O, abstracted |

They interact as follows.  The gateway calls `connect`, `disconnect`, `send` and
`send_image`/`send_document`; the adapter starts and stops the client; the client
awaits the adapter's `_on_cloud` inside its receive loop, so inbound messages are
handled one at a time, and everything outbound is concurrent with them; the
bridge is called from `_on_cloud` and calls the `cronjob` tool synchronously.
The hooks find "the active adapter" in a module-level list and marshal onto its
client's loop.

`PROJECT.json` lists every component, the lines each definition models, and
under "hazards" each place where something may go wrong that a test would
hardly reach, with the properties that cover it.

## 2. Modules

`X.tla` is a component with its properties, `MCX.tla` its instance for TLC,
`XProofs.tla` its proofs.  Most modules carry the mutants of their operations
(an operator in front of the definition it varies, marked "Mutant of"): each
checked property fails when the definition is replaced by its mutant.

* **AgentLink** - the abstract promise of an agent: down, greeting, serving, and
  never dialled again once retired.  `CloudClient` implements it with
  `line <- Line, retired <- Retired`; `AccountSlot` composes one per agent.
* **CloudClient** - the client and its sockets.  `runPc` is the await the run task
  is parked at: `connecting` (199), `backoff` (306), `recv` (222), `deriving` (241),
  `refusing` (250), `handling` (264), or `cancelled` while the cancellation by
  `stop()` unwinds it.  `stopPc` is the same for `stop()`: `closing` (121),
  `cancelling` (127, with its 5 s), `stopped`.  `left` are the sockets whose handler
  raised: the loop went on without closing them.  An action is the code between two
  awaits.  `AfterAttempt` is the code after the `try` of `_run_loop`, shared by the
  actions that get there.  A socket has a link state, a close code, the state of its
  auth frame and an inbox of frames that reached the client; a close is seen only
  after the inbox is read, because `async for raw in ws` hands out what is buffered
  first.  Times are in units, jitter in percent.
* **AccountSlot** - several agents on one account; each is the promise of
  `AgentLink` plus the close it has not read (`cut`).  It is where the client's
  promise is composed with the cloud and with other clients.
* **Replies** - `send` and `_send_media` as calls parked at their awaits, against
  a client reduced to its key, its flag and its socket.  `Renew` is the new client
  of a later `connect()`; a call goes on with the one it found (`client`, 306 and
  586), whose key stays what it was and whose frames go nowhere once it is stopped.
* **Inbound** - the receive loop with the handler it awaits (`fetching`: 523,
  `handing`: 530), and the tool hooks beside it.  A text or a file is plain,
  opened, failed (the `[Decryption Failed]` of 446, or a file that is garbled), or
  still sealed, as a sealed message without a `messageId` stays (442).  `Noted` is
  `_session_users` (439), `SenderOf` what 370, 381, 389 and 477 make of it: the
  user, the one a `user.media` or `user.action` frame names, or somebody called
  "command" or "action", whom Hermes does not know.  `Shapes` are the frames
  users may send.
* **StreamHooks** - one queue and one worker per callback
  (`research/hermes-plugin-system.md` 294); a hook is a look-up and a post.  The
  look-up of a start may raise, as `_known_sessions` grows while it is iterated.
* **TaskBridge** - server rows, frames both ways, job store.  `schedule` and
  `delete` never wait, so each is one step; what goes wrong in it (the store
  unreadable, the first or the second dispatch failing, the answer of a create
  without a job id, `CreateUnheard`) is chosen per frame.
* **JobRuns** - requests, executions and polls of one job, and the hook each
  execution's session ends with (`SessionEnds`), before or after the record has it.
  `_find_job` finds nothing both when the job was deleted and when the store
  cannot be read (90-108): the request is refused, or the poll ends (`FindGone`).
  A hook whose `get_job` raises says `ok` (907).
* **Profiles** - a machine: profiles spread over gateway processes, each process
  with one environment, each token with one lock file.  An adapter is `out`, its
  configuration is `loaded` (bridged into the environment), it is `ready` (made),
  `running`, `stopping` (in the `await` at 257) or `fatal`.  `SetModel` starts the
  CLI thread of `_apply_default_model`, `WriterEnds` is its end, with or without
  somebody who still awaits it.  `Hub` is the profile the CLI of a process is
  pointed at (`_PROFILE_NAME`, 969).  The multiplexer is a layout with two profiles
  in a gateway, and `Solo` says of a profile that it has a gateway of its own.

## 3. What is checked

Some variables only record the past so that a property can say when it holds:
`raised` (AccountSlot), `overtaken`, `endLost` (StreamHooks), `trouble` (TaskBridge),
`overlap`, `blind`, `order` (JobRuns), `asked`, `left` (CloudClient), `said`,
`notices`, `latest` (Replies), `edited`, `torn` (Profiles).  They
guard no action.

| Run | Module | Bounds | Shows |
|---|---|---|---|
| `cloud_client` | MCCloudClient | 3 sockets, backoff 1..3, Retry-After 0 or 2 (4 for a bare 503), jitter 75 or 125 %, 2 buffered frames; handler returns | types and the bounds of the backoff; under fairness stop returns, the client unwinds and recovers |
| `cloud_client_raise` | MCCloudClient | 3 sockets, backoff 1..2, Retry-After 0 or 1 (3 for a bare 503), jitter 75 %, 2 buffered frames; handler may raise | one socket, stop is final and leaves none, a retired client stays down, a rejected one stays away, key before messages, the refinement of AgentLink; with what a raising handler takes away named in each |
| `account_slot` | MCAccountSlot | 3 agents, 3 failures | the newest survives, no replacement loop, each agent keeps its promise, the fight ends |
| `replies` | MCReplies | 2 sessions, 2 calls, 2 models, 2 requests a session, 2 clients | honest flags, no way back to plaintext for a client, announcements |
| `inbound` | MCInbound | 2 sessions and a foreign one, 3 frames of 7 shapes | messages reach Hermes in order, once, opened once there is a key, and from their sender; tools show up in their own session |
| `stream_hooks` | MCStreamHooks | 1 session, 2 turns, 2 deltas a turn | frames in order unless workers overtake each other, no run ended twice whatever happens, no stale run |
| `task_bridge` | MCTaskBridge | 2 tasks, 3 edits in all, 3 jobs | tasks and jobs 1:1, mirrored, nothing hit by mistake, nothing regresses |
| `job_runs` | MCJobRuns | 2 requests, 1 scheduled execution | a row shows its own run, never one from before its request, and is closed; the hook lags by one at most |
| `profiles` | MCProfiles | 3 profiles in 3 gateways, or 2 in one and 1 in another; 2 tokens, one of which is the text `None`; 1 crash; 1 change of the default model among 2 | the inductive invariant of section 5, one binding, no lock left behind, own settings, the told model |

**Why the bounds are enough.**  Three sockets let the socket `stop()` closes,
the one whose `auth.ok` scheduled the reset, and the one being opened all differ.
Two buffered frames let a close, or a second frame, hide behind a frame.  A
Retry-After below the cap and one above it, with a minimum below both, meet
every branch of the clamp.  Three frames are
two behind a download.  Two turns are what a late end of one and an early
start of the next need; three agents are two replacements in a row.  Three edits
are a create and two updates that might swap, or two tasks of which one is
updated; three jobs suffice if each edit creates one, and so a lost ack's
duplicate fits.  Two requests and a scheduled execution
overlap in every way the poll and the hook can confuse, and the record has a
run before the last.  Two clients of an adapter are an old one some call
still holds and a new one without a key.  The three profiles meet a token set by
hand, one from the YAML, none, and a blank one; one crash leaves one lock, and one
change of the model is enough for a thread that outlives its handler and
meets the next `connect()`.  What a second crash or a second change might do
is covered by the proofs, which have no bound.

**Deadlock** is not checked: a stopped client, a finished call and a used-up
bound are proper ends, and in every module the environment may come to rest.
What must not hang is stated as liveness (`StopReturns`, `Unwinds`,
`Recovers`, `Settles`, `RowsClose`).

**Symmetry** is used only in runs without liveness properties.

**Fairness.**  Weak fairness of the tasks on the event loop, which runs whatever can
run: connecting ends because of `open_timeout=30` (201), closing because of
`close_timeout=5` (202), sleeping and deriving by themselves.  That a handler
returns is an assumption of `cloud_client`: nothing in the code bounds it, but a
client whose handler never returns promises nothing; a handler that is cancelled
passes the `CancelledError` on, as none of the adapter's catches it.  Whether
`stop()` is called, whether the server accepts, and when the network drops is not
fair.  `Recovers` alone assumes `NetworkRecovers`: a server that is dialled again
and again is reached, and accepts, in the end.  In `JobRuns` the expiry of a poll
and an unreadable store are unfair; a poll expires only after a read that brought no
news (245-268), and `RowsClose` excepts one whose read found no job.

**What the modules assume of the outside** (marked external in the map): the
websockets library hands out buffered frames before it reports a close; the
DO closes with 4009 only sockets it has authenticated, and the accepted one stays;
Hermes runs one worker per callback; the scoped lock belongs to a process and
is free when that process is dead, its owner may take it again, and it can be
released by any adapter of that process; a gateway loads the configuration of a
profile before it makes its adapter; the server learns a job id from the ack.

## 4. What the code does not do

Three runs check a sentence of the documentation that the code does not keep; TLC
finds each violated.

| Run | Sentence | What happens |
|---|---|---|
| `raise_hides_replaced` | `ws_client.py` 9-10: 4009 does not reconnect | a handler that raises (for example `adapter.py` 364 on blank `/model` arguments, or 451 on a message that is only `/model `) leaves the 4009 unread |
| `plaintext_window` | `README.md` 183: with E2E on, the server stores ciphertext only | replies between `auth.ok` and the derived key, or after a failed derivation, leave in plaintext |
| `ack_unapplied` | `docs/spec.md` 84: the ack comes after the schedule was applied | a task is created as paused, the pause is refused (`tasks.py` 168-173) and nobody reads the answer: the ack says ok and the job runs; an update or a resume that is refused ends in the same way (152-157) |

Other things seen while modelling, which the conditional properties make precise:

* The jitter (`ws_client.py` 303) is applied to a Retry-After too, so a rejected
  client may be back up to a quarter earlier than asked; `StaysAway` states what
  remains of "Retry-After honored" (11).
* `connected` stays true during an outage (195); `send` then reports success for
  a frame that was dropped (`adapter.py` 330, `ws_client.py` 135).
* The reset task of an `auth.ok` outlives a dropped connection (289); `StaysAway`
  holds in spite of it because a nap in progress is not shortened.
* A raising handler leaves its socket open beside the next one (262, 188):
  `AtMostOneSocket` speaks of the sockets that no handler left.  A `stop()` whose
  `_ws` is such a left socket closes that one and may miss the one the run task is
  opening meanwhile (`StopLeavesNoSocket`), and a retirement that is buffered in a
  left socket is never read (`RetiredStaysDown`, `ImplementsLink`).
* The heartbeat and the reset task that an `auth.ok` starts while `stop()` waits for
  the close outlive `stop()`, which cancelled the earlier ones before (116); no
  property is about them.
* Media read before the key exists is uploaded as it is and announced as plain,
  also after sealed frames (603); `StaysSealed` names this, and says that it is
  all that is left of the window before the key.
* `model.changed` may leave before Hermes has switched (`adapter.py` 343).
* `Ordered` holds only while no worker overtakes another's event (`overtaken`).
  When the end of a turn is lost (`endLost`), its run goes on with the next turn;
  only without that do frames carry the run of their own turn, and does
  `NoStaleRun` hold.  `EndsOnce` has no condition.  A start whose look-up raises
  loses a turn's frames but leaves no stale run.
* The hooks of a process use the first connected adapter (676, 922): in a
  multiplexer the streams, tools and cron reports of one profile may go out on
  another's connection.
* A YAML key without a value is bridged as the text `None` (963), which counts as
  a credential at the gate (813) and, for `e2ePassword`, turns encryption on with
  that password.  `OwnSettings` compares with the setting as it is written and
  excepts such keys (`Blank`), for which it does not hold.
* The environment belongs to the process and wins over the YAML (956, 813): in a
  multiplexer a profile without a configuration passes the gate on the
  credentials of another, although 797-799 and 979-982 want to keep such profiles
  out, and per-profile settings count for the hub only, as `README.md` 302 says.
  `OwnSettings` is about profiles with a gateway of their own.
* Two profiles of one process both get the lock of a token, and the first to
  disconnect releases it under the other (259-267), so a profile elsewhere may
  bind it too.  `OneBinding` holds between profiles with gateways of their own.
* A refused lock is `retryable=False` (216), even if the other adapter is just
  waiting for its client to stop.
* `hermes config set` is killed after 15 s, or its handler is cancelled, and it may
  have written: the reported default model is then behind until the next
  `connect()` (`torn` in `ModelTold`); the adapter of a multiplexed profile other
  than the hub reads and writes the hub's model (820-868).
* A reply that outlives its client may upload plaintext after the newer client has
  a key; its frame is dropped.  `StaysSealed` is about one client.
* A lost ack, an edit before the first ack, or an unreadable store leads to a
  second job for a task, or to an orphan after a delete (`tasks.py` 90, 140), and
  so does a create whose answer has no job id (169); `OwnJob` and `NoRegress` hold
  regardless.
* Overlapping executions of a job let one row report the result of another
  (`tasks.py` 249), though never one from before the request (`ShowsLaterRun`).  One
  read of an unreadable store ends a poll for good, as if the job were deleted
  (245).  A session-end hook whose `get_job` raises reports `ok` (`adapter.py` 907),
  also for a run that failed (`blind`).  A `run` the tool refuses shows as running
  until the poll expires: `_dispatch_cron` never raises, so the branch at `tasks.py`
  218 that a test exercises with a raising stub is not taken in the plugin.

## 5. What is proved

`tlapm` checks the proofs for every value of the constants that meets the named
assumptions of the modules.

**CloudClientProofs.**  `TypeCorrect`: `TypeOK` is inductive; it bounds the backoff
by `MinBackoff..MaxBackoff`.  The socket properties rest on `SocketInv`: only the
socket being served and those that raising handlers left are open, but for one that
was opened while `stop()` closed a left one (`Strayed`); a client with the
intentional flag, or whose socket was replaced, is still serving that socket or
done, unless it had left it; a `stop()` that waits waits for `_ws` or for a left
socket; after it the run task is cancelled or done.  None of the properties is
inductive alone: that there is one socket needs that the run task leaves a socket
only when it is closed or when a handler raised, and that a retired client stays down
needs that its run task cannot be in `backoff` or `connecting`.  From it:
`OneSocket`, `StopCorrect`, `RetiredCorrect`, and, with `TypeOK`, `LinkCorrect`, the
step simulation of `AgentLink` wherever no socket is left.  Nothing is assumed of
the handler: with `HandlerMayRaise = FALSE`, `left` stays empty and the exceptions
are void.
`KeyCorrect` rests on `KeyInv`: until a derivation was tried, the oldest unread
frame of an accepted socket is its `auth.ok`.  `StaysAwayCorrect` is inductive as it
stands, over the type invariant; so is `StopFinalCorrect`, since after `stop()`
no task of the client can run.

**AccountSlotProofs.**  `NewestSurvives` is kept beside `CutInv`: a close waits only for an
agent that still reads its socket, and a 4009 only for one that had been accepted.
`NoReplaceLoop` is a counting argument: `Budget` says that every authentication so
far, and every one still to come (`Pending`), is paid for by an agent's first
attempt or by a failure; being accepted takes an agent out of `Pending`, and only
a failure puts it back.
`PromiseCorrect` is the step simulation of `AgentLink` by each agent until one
of its handlers raises.

**RepliesProofs.**  `AnnouncedCorrect` rests on `ModelInv`: a model that waits is the
one asked for last, none waits once that has been announced, and each
announcement has a request of its own.  `FlagsCorrect` and `StaysSealedCorrect`
need that a frame belongs to a call that has begun to write and so keeps its
client (`CallInv`), and that a sealed frame was sealed with the key of that very
client (`SealInv`), which nothing takes away.

**InboundProofs.**  One order runs through the path: what Hermes has is older than
what is downloaded, and that older than what is unread (`PassedInv`, `QueueInv`);
this makes `InOrder` inductive across downloads, raising handlers and drops.  The
rest is knowledge that is never lost: an opened message means a key (`KeyInv`), a
session that spoke has its user noted (`UserInv`), a session Hermes has turns
of is known (`KnownInv`).

**StreamHooksProofs.**  As long as no worker overtakes another, events and frames of
a session are in one order from the wire over the look-ups to the queues
(`SeenInv`), with one frame between look-up and post (`HeldInv`); the run of a
session goes on with what was looked up (`LastInv`) and is not from after an event
that waits (`RunInv`).  This is the order of `Ordered`, for which it does not matter
what is lost.  If no end is lost either, a turn that has a run, or is about to get
one, has its end still to come (`EndInv`), hence the second half of `Ordered` and
`NoStaleRun`.  Without these parts `Ordered` fails at once: the wire alone does not say
what a slow worker may still add.  `EndsOnceCorrect` needs none of this: the run of
an end frame is no longer in `_stream_runs`, and no start that waits or is to come
brings it back (`SpentInv`).

**TaskBridgeProofs.**  Whatever goes wrong, the server only ever knows or hears of
jobs of the right task (`OwnInv`, hence `OwnJob`) and what is on its way is newer
than what is applied, in the order of the edits (`RevInv`, hence `NoRegress`).  As
long as no ack was lost or outrun and the store could be read, a task without a
row is still at its first edit, whose frame, job or ack is the only one there is
(`Rowless`), and any other has no job but that of its row (`Rowed`); this is
`OneJobPerTask`, whose condition also excludes an answer without a job id.  If
moreover no dispatch failed, the settings asked for last are on
their way or applied, and a deleted task has its delete on its way or no job
(`Mirror`), which at rest is `Mirrored`.

**JobRunsProofs.**  The record is that of the execution recorded last (`RecordInv`).
Unless executions overlapped, one request or execution is under way at a time
(`SoloInv`), so nothing is recorded between an execution's record and its hook
(`HookInv`), nor during a poll but the run polled for (`PollInv`); hence
`HookLagsByOne`, for the hooks that could read the record (all but `blind`), and
`ShowsOwnRun`.  Whatever overlaps, no request has read a record from the future
(`LaterInv`), hence `ShowsLaterRun` (`LaterCorrect`).

**ProfilesProofs.**  `IInv`, which the run `profiles` checks as well, has five parts
beside the types.  `Alive`: an adapter that has left `out` is in a gateway that
runs, and one that was made has a token.  `Owned`: a solo adapter that uses a token,
also while `disconnect()` waits, owns its lock; this is `OneBinding`, and it
is inductive only because a release in another process leaves the lock alone
and a lock is taken over only from a dead process.  `Earned`: a lock of a
running gateway has a user there; this is `NoLeftoverLock`, and it needs that a
crash takes the users with the gateway and that a restart begins with locks
nobody has.  `Bound`: the environment of a solo gateway is what its profile
asks for, and its adapter read that; this is `OwnSettings`.  `ModelTold` is
inductive beside the types: a thread that writes either still has its handler,
or marks the profile as torn.  One lemma per part says how each step keeps it.  No
assumption is made on the layout: multiplexers may run beside solo profiles
and share their tokens.

The bounds of the modules (requests, turns, edits, clients, failures, frames) are
constants in the proofs: what is proved holds for every value of them.  The
conditions inside the properties stay: `left`, `overtaken`, `endLost`, `trouble`,
`overlap`, `blind`, `torn` and the like say when the code keeps its promise, not
what the prover needs.

**Only model-checked**: what speaks of fairness (`StopReturns`, `Unwinds`, `Recovers`,
`Settles`, `RowsClose`), since neither liveness nor ENABLED is within the prover's
reach.  The three sentences of section 4 are refuted by TLC, not proved.  Every
other property of a run is stated by a theorem.

## 6. What is not modelled, and the plan

Not modelled for good: the byte-level codec, the cipher and the HTTP transfers
(data and I/O; their outcomes are), time as such, the registration calls and the
system-prompt section, `models.list` and `task.scan.request`, which only read, the
scripts.  The heartbeat is a flag: its beat changes no state.  Functions on strings
are taken as already applied: the parsers of `agents` and `agentProfiles`,
`match_botschat_session`, thread ids, `_profile_for_session`,
`cron_job_id_from_session`, `normalize_schedule`; a model of them would be their
text again.

Left out although they could matter: an adapter that is connected again without
having been disconnected; a client that retires under a running adapter of
`Profiles` (it keeps its lock); several adapters in `StreamHooks` and `Inbound`; a
later client in `Inbound`; a cipher that fails in `StreamHooks` (697); what other
tasks would do while `connect()` blocks the event loop in the CLI (225).

The type invariants of AccountSlot, Replies, StreamHooks and JobRuns are checked by
no run; they are part of the invariants that `SlotCorrect`, `RepliesCorrect`,
`StreamHooksCorrect` and `JobRunsCorrect` prove.

What is left to prove: what the properties say once their condition is broken, as
how far a stream recovers with the next turn after a dropped event, or a task with
its next edit after a lost ack.

## 7. Running

`tlc -config CloudClient.cfg MCCloudClient` and likewise for the other runs
(`PROJECT.json` names module and configuration of each); `tlapm
CloudClientProofs.tla` and likewise for the other `Proofs` modules.
