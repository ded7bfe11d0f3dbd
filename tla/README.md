# aindrive in TLA+

aindrive shares a folder of somebody's own machine: a small agent (`src/cli`) serves
the folder over an outgoing WebSocket, and a web server (`src/web`) holds accounts,
members, paid links and sessions in SQLite and relays every file operation to the
agent. This directory holds TLA+ models of the protocols in it that are hard to get
right, the TLC runs that check them and TLAPS proofs about them. Paths below are
relative to the repository; `x.ts:10` is line 10.

* [Inventory](#inventory) - the parts of the system and what each has to guarantee
* [Modules](#modules) - how state and actions correspond to the code
* [Runs](#runs) - what is checked, with which bounds and fairness
* [Where code and text disagree](#where-code-and-text-disagree)
* [Proofs](#proofs)
* [Plan](#plan) and [what is not modelled](#not-modelled)

## Inventory

One server process (Node, single threaded, SQLite accessed synchronously): what runs
between two `await`s is atomic, everything else interleaves, and the process can stop
at any await. One agent process per folder, itself single threaded. Browsers, a
payment facilitator, the chain and support staff act on their own.

| part | state | operations | talks to | what is hard | what makes it correct |
| --- | --- | --- | --- | --- | --- |
| account settlements (`x402-account-settlements.js`, `api/s/[token]/route.ts`, `x402-facilitator.ts`, `scripts/x402-settlements.mjs`) | a row per EIP-3009 authorization ever settled (status, tx), receipts, memberships | buy, resend, support `credit` / `release` | facilitator (HTTP), chain, members | answers lost, late, repeated; requests racing; crash after the settle was sent | no second charge, a paid row is never closed as unpaid, credit is all or nothing, a transaction buys one thing |
| credential rotation (`agents.js` `rotateAgentLive`, `cli/src/rotation.js`, `commands/rotate.js`) | token hash and secret of the drive, secrets of the live entry, `rotation_pending`; the agent's config in memory and on disk with `previousCredentials` | live rotation, manual rotation, connect, refuse, fall back | agent channel | lost ok, timeouts, grace periods, restarts mid-write, two ways to rotate | device and server always share a pair, a connected device is reachable, a queued drive is rotated |
| resumable uploads (`upload-sessions.ts`, `fs/upload-sessions/**`) | session row, `inFlight` set, hidden temp file on the agent | PATCH, GET, DELETE, sweep | agent RPC | three copies of "how far are we" (client, row, temp) and failures between them | published files are whole, acknowledged bytes survive, counted once, sessions end |
| agent channel (`agents.js`, `cli/src/agent.js`) | sockets per drive, primary, pending calls | connect, close, heartbeat, RPC, fan-out | everything that touches files | bcrypt before listeners, replacement of sockets, calls of a dead socket | a call is answered once or fails; newest socket is primary |
| device RPC (`cli/src/rpc.js`) | the files | list, read, write, stat, rename, delete, upload-chunk | file system | calls that outlive their caller | path confinement, atomic rename |
| paid access gate (`sale-access.js`) | reads memberships, receipts, shares | check | settlements | stale entitlement across an await | no priced content without role and receipt |
| git over SSH and exec stream (`git-ssh/relay.ts`, `openGitExec` of `agents.js`, `cli/src/git-exec.js`) | two windows, frames on the socket, the process, the SSH channel | open, stdin, stdout, ack, exit, kill | agent channel | flow control, exit versus last bytes, the two ends lose the socket at different times | a client told 0 has every byte, windows do not leak, every session ends |
| change feed (`share-events*.ts/js`) | events, versions, retention floors; cursors at the products | record, prune, poll, reset after a restore | products that poll | pruning under a cursor, a restored database issues numbers again | a product sees every change or is told of a gap; an unread event outranks what was seen |
| path generations (`path-generations.js`) | a generation per path | synchronous transactions | agent `fs-changed` | awaited stats out of order | |
| project deliveries (`git-project-deliveries.ts`, `git-project-hooks.ts`) | queue rows with leases, project hooks | enqueue, claim, attempt, retry, auto-bind, purge | git hooks, ainize (HTTP) | a handler and the worker attempt the same rows, time-outs, crashes, order per repository | each update is handled, in order, by one sender at a time |
| live documents (`dochub.js`) | rooms, roles per socket | join, edit, revalidate, revoke | members, orgs | revocation against open sockets | nobody edits after losing access |
| OAuth and tokens (`oauth*.ts`, `account-tokens.ts`, `mcp-tokens.ts`) | codes, refresh and access tokens | authorize, exchange, refresh, revoke | sessions | code reuse, rotation of refresh tokens | a code is used once, a revoked token stays dead |
| organizations, sharing, invites, OTP, paid lifts, tiers | tables | synchronous statements | members | counts at limits | policy arithmetic |
| willow store and sync (`cli/src/willow-store.js`, `willow-sync.js`, `yjs-*` of `rpc.js`) | rows of updates and snapshots per document and device | save, compact, read; summary, want, give | agent channel | snapshots of a peer above one's own updates, compaction during an exchange | nothing stored is dropped, a save never shrinks what is read, devices converge |
| aFan bridge (`cli/src/afan-bridge.js`) | request and result files, grants, one run per request | notice, claim, resume, grant, call, watch, revoke | the shared folder, an agent (HTTP), the server's handoffs | several hosts read one folder; crashes with a result `running` | one host calls, a final answer stays, each request is answered |
| handoffs, delegation, rate limit, storage usage, paymaster, cloud agent, mail and tracing, UI and apps | see PROJECT.json | | | | |

`PROJECT.json` lists every part with its status, and under `hazards` the places, with
lines, where these difficulties bite and the properties aimed at them.

## Modules

    SaleCharge                 abstract: what a purchase promises an account
      ^ implemented by
    AccountSettlement          purchases of a paid share
      ^ MCAccountSettlement    values for TLC
      ^ AccountSettlementProofs  type correctness, safety, the refinement
    CredentialRotation         both ends of a credential rotation
      ^ MCCredentialRotation, CredentialRotationProofs
    UploadSession              one resumable upload
      ^ MCUploadSession, UploadSessionProofs
    ProjectDelivery            from a push to the bound project's hook
      ^ MCProjectDelivery, ProjectDeliveryProofs
    ChangeFeed                 the event feed, its readers and a restore
      ^ MCChangeFeed, ChangeFeedProofs
    AfanBridge                 hosts that answer requests in a shared folder
      ^ MCAfanBridge, AfanBridgeProofs
    GitExecStream              one git session between SSH and the device
      ^ MCGitExecStream, GitExecStreamProofs
    SharedDocument             abstract: what devices keep of a live document
      ^ implemented by
    WillowSync                 its rows on each device and their exchange
      ^ MCWillowSync, WillowSyncProofs

Definitions named in a `\* Mutant:` comment are variants of the operator below them
with a plausible bug; the runs are known to notice each of them (`PROJECT.json`,
`mutants`). They are no part of the specifications.

### AccountSettlement

A signed-in buyer pays with a signed EIP-3009 authorization. The facilitator verifies
it, then settles it on chain; its answer may be lost, and the authorization can be
mined after that. The server therefore keeps a row per authorization and refuses a
second authorization of the same account for the same sale while one is unresolved.

| model | code |
| --- | --- |
| `row`, `status`, `tx` | table `x402_account_settlements`; a row is keyed by (network, asset, payer, nonce), here `Nonce` |
| `receipt`, `role` | `payment_receipts`, `drive_members` |
| `pc`, `order`, `attempt`, `answer` | a request inside `accountEip3009Purchase` and `verifyAndSettle`, at one of its awaits |
| `settles` | HTTP settle requests at the facilitator; they outlive the request and the server |
| `releasing` | `release` of the support CLI between `authorizationUsed` and the comparison with the clock |
| `moved`, `expired` | the token contract: who used a nonce; `validBefore` |
| `forced`, `dropped` | history only: what excuses a further charge |
| `ArriveNew`, `ArriveResend` | `accountEip3009Purchase` up to `await verifyAndSettle` |
| `RecordBeforeSettle`, `RecordRefused` | `recordBeforeSettle` (one IMMEDIATE transaction) as the `beforeSettle` hook, then the send |
| `Resettle`, `ResettleRefused` | the hook of a resend |
| `SettleRetry`, `SettleUncertain` | timeout or connection failure: one retry, then `noteUncertain` |
| `AnswerSuccess`, `AnswerNotCredited`, `AnswerRefused` | `creditAndGrant`; release on a refusal before broadcast |
| `Credit`, `Release` | `creditSettlement`, `releaseSettlement` |
| `Support*` | `scripts/x402-settlements.mjs` |

Abstractions. A transaction hash is the nonce it used, because a nonce moves money at
most once. `PRE_BROADCAST_REFUSALS` are reasons decided from the payload and static
facts, so an envelope is either `Malformed` or not; other refusals are "failed". An
anonymous purchase shares only the chain and the receipts with this protocol and is
`UsedElsewhere`. Verify has no effect, so only its end is an action. The link stays
priced and active. Support may credit any row with any transaction
(`--force --skip-chain-check`), which is more than one should do.

`ReleaseAfterCheck` says that an operator runs `release` only once `check` has
printed "expired" (the documented procedure); without it see
[below](#where-code-and-text-disagree).

### CredentialRotation

A drive's agent token and drive secret change together, as one numbered pair.

| model | code |
| --- | --- |
| `stored`, `pending` | `drives.agent_token_hash`, `drive_secret`, `rotation_pending` |
| `srv[c]`, `primary` | the socket's life in `onAgentConnect` and its entry in the registry; `secret`, `prev` are `driveSecret`, `prevSecret` of the entry |
| `jobs`, `owed` | calls of `rotateAgentLive`, each at one of its two awaits: the pair made, the entry captured, the entry asked; 2 s timers after a hello |
| `mem`, `disk` | the agent's config, `previousCredentials` included, in memory and in `.aindrive/config.json` |
| `grace`, `applying`, `refused` | `graceSecret`; pairs written but not adopted; `waitForNewKey` |
| `cli` | the pair `rotate-token` has received and not written |
| `toAgent`, `toServer`, `link` | the WebSocket |
| `mishaps` | history: what happened that the code has no answer to, see below |
| `Rotate`, `SendRotate`, `RotateTimesOut`, `Store` | `rotateAgentLive` up to `bcrypt.hash`; `sendRpc`, which looks the primary up again; the 15 s timer; the UPDATE and the captured entry |

States of a socket at the server: `comparing` (the row is read, `bcrypt.compare` is
awaited), `unheard` (it closed meanwhile and nobody listened), `open`, `ghost` (an
accepted `unheard` socket), `rejected`, `closing`, `none`. The registry's close,
timeout and response handlers, the sweeper, the timer, `runAgent`'s loop,
`applyRotation`, `revertRotation`, `adoptConfigOnDisk`, `commitRotation`,
`waitForNewKey` and the rotate route are one action each, or two where an await
separates them.

Abstractions. One device. A comparison is over, and so is the device's own write of its
config, before its next attempt (which comes 1 s later or more). The sweep's period
(5 min) is longer than the heartbeat needs to find a dead socket (40 s), so the sweep
does not find a socket dead twice. The device's grace of 60 s is longer than the 15 s
timeout. `rotate-token` runs one at a time.

Nothing else is assumed of time: an answer may come after its call has ended, an answer
sent on a connection the device has left may still arrive, and a socket may be replaced
while the hash is computed. Four such accidents break what the protocol is for, and the
code has nothing against them; `mishaps` remembers them, and each property names those
it excuses: `late` (a call ended while its request or answer was under way), `crossed` (a
request went to another entry than the one captured), `stray` (an ok was stored though
the device had left that connection), `stacked` (a rotation was applied on top of one the
server had not stored).

### UploadSession

The client sends parts of a file; the server appends each part in chunks to a hidden
temp file on the agent, records `received_bytes`, and after the last part renames the
temp onto the target. On any doubt it asks the agent for the temp's size.

| model | code |
| --- | --- |
| `received` | the row's `received_bytes`; `None` once the row is deleted |
| `lock` | `inFlight` |
| `pc`, `kind`, `snap`, `offset`, `part`, `reply` | a handler at one of its awaits; `snap` is the row it read in `gateSession` |
| `calls` | RPCs sent to the agent and not carried out |
| `temp`, `target` | the files, as sequences of chunk positions |
| `acked` | history: the most a PATCH has confirmed |
| `Arrive`, `TurnAway`, `Start` | `gateSession`, `lockSession` |
| `TempFound`, `NothingWritten`, `TempRenamed`, `Lost`, `Published` | `resolveState` and what follows each of its results |
| `Proceed`, `Appended`, `PartDone`, `Renamed` | PATCH after `resolveState`, `appendPartToAgent`, the rename |
| `Aborted`, `Sweep` | DELETE; `sweepStaleSessions`, which takes no lock |
| `CallFails`, `Crash` | an RPC that times out; the server stops |
| `Orphans`, `crossed` | calls nobody waits for any more, which the agent carries out all the same; history: one of them changed a file it was not meant for (`Crosses`) |
| `Device`, `Write` | `cli/src/rpc.js` |

Abstractions. The upload creates one new file. A chunk is its position in the source,
so content is right exactly when the target is `1..Size`. A part that cannot be taken
is answered at once. A call that times out is not taken back (`sendRpc` only stops
waiting), so it stays in `calls` until the agent gets to it, at any later time. One that
comes while nobody holds the session and leaves the files as a request could have left
them is harmless: an append that still fits, a rename of a whole temp, a delete once
the row is gone. Any other sets `crossed`, which is the only thing the properties of the
files excuse.

### ProjectDelivery

After git has answered a push, its handler stores a row per updated branch and tries to
send it to the project's hook; a worker of the same server retries what is left.

| model | code |
| --- | --- |
| `rows` | `git_project_deliveries` in insertion order; a row's `lease` is its holder, `Lost` after a crash |
| `head`, `made` | the branches of the bare repository; `Update.moved` says whether git made the update |
| `hook` | `git_project_hooks` |
| `answered` | the updates a handler passes to `notifyProjectOfRefUpdates` |
| `at`, `stage`, `todo` | the row a handler or the worker attempts, the await it is at, the rows it attempts next |
| `wire`, `got` | requests under way; history of what the hook accepted |
| `Push` | `git receive-pack` and `parseReceivePackRefs` |
| `Notify` | `notifyProjectOfRefUpdates`: `enqueueProjectDelivery` of each update, then the first attempt |
| `Drain`, `Purge`, `LeaseEnds` | `drainProjectDeliveries`; `LEASE_MS` |
| `Attempt`, `Conclude` | `deliverProjectEvent` up to an await and after it: claim, order per repository, lease, final UPDATE |
| `Bound`, `NotBound` | `autoBindProject` |
| `Answer`, `TimeOut` | `fireProjectHook` and its five seconds; a request that timed out may still arrive |
| `Connect`, `Disconnect`, `Crash` | the `git-connect` route; the server stops |

Abstractions. The backoff is an arbitrary delay (a handler's attempt ignores it). A
commit is a number. An attempt ends before its lease, because each of its calls is
bounded by 5 s and the lease is 60 s; a crash is what leaves a lease behind. A
project that exists without a secret known here is one of the refusals of `NotBound`.
Permission checks come before the model.

### ChangeFeed

A row per event and recipient; at most `Retention` of a recipient are kept; products
poll with a cursor; after a restore of the database `resetShareEventCursors` runs.

| model | code |
| --- | --- |
| `rows`, `lastSeq`, `version`, `floor` | `share_events` with its AUTOINCREMENT, `share_event_versions`, `share_event_floors` |
| `granted` | the grants that events are about |
| `backup`, `Backup`, `Restore` | a copy of the database put back, then `resetShareEventCursors` |
| `cursor`, `view`, `held`, `relist` | a product: cursor, shown grants, version per resource, told gap |
| `Change`, `Edge` | `recordShareEvent` for the recipients of a grant or revocation; `pruneRecipient` |
| `Poll`, `Gap`, `From`, `Events`, `Issued` | `listShareEvents`, `readEventsAfter`, `latestSeq` |
| `List` | `GET /api/me/shared` |
| `anew` | history: resources with no row in the backup a restore put back |
| `peak` | history: the largest number ever issued; the base of a restore is the clock, past it |

Abstractions. The products are outside the repository and do what the contract in
`share-events.ts` asks: apply an event whose version is above the one held, list anew on
gap. The recipients of an event come in any order. A restore may put back a backup that
is older than a resource's first event; such a resource is in `anew` from then on, and
`Outranks` and `NothingMissed` say nothing of it (see
[below](#where-code-and-text-disagree)).

### AfanBridge

A request is a file in the folder. Each host that serves the folder notices it; the one
that creates the result file first (`exclusiveWrite`) calls the agent.

| model | code |
| --- | --- |
| `asked`, `canceled`, `expired` | request files, their `canceled: true` and `expires` |
| `result` | the result file: its status and the device in `executed_by` |
| `todo`, `run` | notices and scans due; `processRequest` of a host at one of its awaits |
| `task`, `grants` | the agent's task per message id; handoff grants at the server |
| `Scan`, `Start`, `Check` | `scan`, `runRequest` and the head of `processRequest`; `verifyAuthor`, `findCompletedTwin`, `resolveAgent` |
| `Claim`, `Finish`, `Answers` | the claim `running`, the answer before a call, the write after it |
| `Grant`, `Send`, `Ended`, `Stop`, `Revoke` | `grantFiles`, `message/send`, the outcome, cancellation or expiry, `revoke` |
| `Crash`, `Restart` | a host stops and comes back; it resumes only what names its device |

Abstractions. The agent answers a repeated message id with the same task, which is what
the bridge relies on. Watches are a notice to every running host. The catalog of agents
is not in the model. The request's author may use the agent; a refusal is a failed
`Check`. A `Grant` that fails may have been made at the server, its answer lost.

### GitExecStream

One session: SSH channel, relay, agent socket, `git`. Bytes are counted in units, the
buffers of `data` events, all of one size, and each unit git writes has a number, so order
and loss are visible. The window is looked at after a buffer is counted
(`git-exec.js:78-81`), so where a unit is a whole buffer at most `Window` units are on
their way; in bytes the code passes `windowBytes` by less than one buffer.

| model | code |
| --- | --- |
| `down`, `up`, `socket` | frames both ways; the ends that still hold the socket for open |
| `git`, `code`, `written`, `read`, `stdin`, `eof` | the child process and its pipes |
| `unacked`, `paused`, `stalled` | `outUnacked` and `stdout.pause()` of `GitExecs`; paused again after git's exit, when node resumes it only once |
| `relay`, `Retries`, `AgentInit` | `relayGitExec` awaiting the open, or `git-init` and the second open of a push to a path without a repository |
| `outcome`, `timedOut`, `inFlight`, `lost` | `onExit`, timer, bytes not acknowledged; history: acks for which there was no handle yet |
| `left`, `held`, `writes`, `got`, `status`, `hungUp` | the SSH channel and its client |
| `Agent*`, `GitReads`, `GitStops` | `cli/src/git-exec.js` |
| `Relay*`, `RpcTimesOut`, `Flush`, `ClientSends`, `HangUp` | `relay.ts` and `openGitExec` |
| `AgentDisconnects`, `ServerDisconnects` | `closeAll`; the socket's close listener; either end may notice first |

Abstractions. stderr, which has no window and is not acknowledged, is left out. When an end closes the socket what was on
it is gone. `Dropped = {FALSE}`: every frame verifies; see below for the case where one
does not.

### WillowSync

One document on two devices. An edit is a number, a document a set of them, merging is
union - which is what Yjs promises of updates applied in any order and number.

| model | code |
| --- | --- |
| `rows` | `yjs_entries` of each device, in seq order: updates and snapshots |
| `doc`, `Type`, `Open`, `Save` | the editor; `yjs-read`, `yjs-write` with the whole document |
| `Written`, `Compacted`, `Listed`, `Given` | `appendUpdate` and `maybeCompact`, `compactToSnapshot`, `listEntries`, `applyGive` |
| `frames`, `Summarise`, `Handle*`, `ToOthers` | the `sync-` frames of `willow-sync.js`, passed on by `agents.js` |
| `up`, `Connect`, `Disconnect` | connections; frames to a lost one are gone |

`SharedDocument` is the promise: a device keeps what is saved on it and what it learns
from another device, for good, and nothing else. `WillowSync` implements it with
`kept[d]` the replay of the device's rows (`SharesDocument`); that what was saved stays
(`SavedStays`) follows.

Abstractions. A payload stands for its digest. The ten-minute age that triggers a
compaction is arbitrary. `MaxDigests` is twice `Threshold`, as in the code (100 and 50);
no device gets as many rows in the run, so no summary is cut there: what a cut does is
[below](#where-code-and-text-disagree).

## Runs

Passing runs (numbers of distinct states are from TLC):

| run | bounds | states | shows |
| --- | --- | --- | --- |
| `AccountSettlement` | 1 account, 1 link, 2 nonces, 3 authorizations (two on one nonce, one of those malformed), 2 requests; at most one forced release or removal, one `release` under way, 2 receipts | 1.05 M | a transaction buys one thing, credit is whole, resolved rows are final; every step is a step of `SaleCharge` or none |
| `AccountSettlementRaces` | 2 accounts, 2 links for the same thing, 3 requests; handlers, crashes and the facilitator only | 137 k | no second charge, one unresolved row, a paid row is not released |
| `CredentialRotation` | 3 live rotations, 1 drop or restart, 2 sockets; answers at any time | 85.0 k | never locked out, connected means reachable; a queued drive is rotated, the device comes back |
| `CredentialRotationManual` | 3 manual rotations, 1 drop (even while comparing) or restart | 23.1 k | never locked out, the device comes back |
| `UploadSession` | 3 chunks, parts of 2, client and one further request at a time, 2 of those, 2 failures; sweeps and calls given up at any time | 839 k | target whole and acknowledged bytes stay unless a call crossed, only what is published is counted, the session ends |
| `ProjectDelivery` | 1 repository, 2 branches, 1 handler beside the worker, 1 commit, 2 pushes, 1 crash | 67.7 k | updates are told in order, by one sender at a time; each is handled |
| `ChangeFeed` | 2 readers, 2 resources, `Retention` 2, pages of 1, 3 changes, 1 backup, also from before a resource's first event, and its restore; readers and resources are interchangeable | 211 k | no change is passed over in silence, unread events outrank seen ones, a cursor is one to go on from |
| `AfanBridge` | 2 hosts, 2 requests with one key (one with files, one that may be answered already), 2 crashes or reconnects, 2 cancellations or expiries | 62.0 k | one host calls, a final answer stays, each request is answered |
| `GitExecStream` | 4 units out, 2 in, windows of 3 and 2, a pipe of 2 | 993 k | a client told 0 has every byte, the window's account is kept, every session ends |
| `WillowSync` | 2 devices, 2 edits, 3 saves, a snapshot at 2 updates, 1 lost connection, 2 frames | 403 k | every step is a step of `SharedDocument` or none, a save never shrinks what is read, the devices converge |

Why the bounds suffice. A second charge needs two authorizations, one account and one
sale; the second account and link let different sales and owners meet, the third
request lets two requests race while a third resends. The malformed authorization on a
shared nonce is the one case where a released nonce is used by another envelope. A
rotation can leave at most two pairs behind that matter (current and previous), so three
rotations overwrite each of them; two sockets are the device's own and one that the
server has not noticed is gone, or that is still being accepted while a hash is computed.
The safety properties also hold with three sockets and two drops (3.3 M states), the
liveness properties with four rotations (477 k), and `ConnectedIsReachable` with two live
and one manual rotation (683 k). Each of the four excuses is needed: without any one of
them TLC finds a violation. Three chunks in parts of two give a first, a middle and a
last chunk, a full and a short part; two failures leave two calls that are carried out
late. The invariants of `UploadSession` also hold with three stray requests (2.4 M
states), and here, too, TLC needs every part of what `Crosses` excuses. Two branches let
one push store two rows, so that an
order exists, and the second push meets the rows of the first while the worker has
them; two handlers with three pushes to one branch hold as well (396 k states, safety).
Two kept rows, three changes and pages of one row make every reader lag, be pruned below
its cursor and read in several polls, before and after the one restore, whichever
resources the backup knew; a jump of 10 is above the changes, as the code's is. Two
restores hold as well. Two hosts are the claim's two contenders, one key
on two requests is the twin; two new requests were checked for safety (2.4 M states up to
swapping the hosts, one outage, one cancellation). Four units against a window of three make
the sender block and go on after acks, with a unit in the pipe and one ack that may be
lost; the client's two units and their window of two block the other direction. Two updates compact, so
three saves compact on either side of an exchange.

Constraints. `FewInterventions` limits how often people intervene;
without it nothing is bounded by them but `forced` and `dropped`, which only excuse
charges. `CHECK_DEADLOCK FALSE` is set where the system may stop: all purchases done,
all rotations used up, the upload or the session over, the requests answered.

Fairness. `AccountSettlement` has none, its properties are safety. In
`CredentialRotation` timers fire, frames that arrived are handled, a device that is not
connected tries again and the sweeper runs - all plain event loop or timer callbacks,
hence weak fairness. Drops, restarts, the ends of grace periods and rotations by hand
are not fair. In `UploadSession` handlers run on, the agent answers, and the client
keeps sending (the retry loop of `uploadChunked` in `drive-shell.tsx`); failures,
aborts and sweeps are not fair. (A late append can make the temp longer than the file;
then no part fits until the session is swept. It sets `crossed`, so `SessionEnds` ends
there.) In `ProjectDelivery` the server goes on running (weak
fairness of the worker, of time-outs and of what follows an await); the hook and the
agent work now and then, hence strong fairness of an accepted answer and of a binding
that comes to a result; pushes and crashes are not fair. In `AfanBridge` a host that
runs goes on, and one that stopped comes back: what it left `running` is nobody else's
to finish. In `GitExecStream` frames are handled, both caps fire, the other end learns
of a lost socket and the channel flushes; nothing is asked of git or of the client. `Ends` leaves out what
the code cannot end: a session whose lost acks fill half the window, and an exec left on
the device (`stalled`) when its open had timed out. In
`WillowSync` a device reconnects, handles what comes, and sends its summary on a timer;
the summary has strong fairness, as other frames may be in its way each time.
`ChangeFeed` has no fairness, its properties are safety.

## Where code and text disagree

Two disagreements have a run in which TLC finds the violation.

* `AccountSettlementEarlyRelease`. `release` reads the chain and compares the clock
  afterwards (`x402-settlements.mjs:263-266`). An authorization mined in between and
  expired by then is released as unpaid, and the account can be charged again.
  `X402_PAYMENT_PENDING.md:123-126` promises that such a row can never pay. Reading
  the chain after the expiry check closes it.
* `ProjectDeliveryRejected`. The updates of a push are parsed from the client's request
  (`git-http.ts:167-169`), and git exits 0 when it rejects one of them inside its
  report: when two pushes race for a branch, the project is told of an update that did
  not take place, against `git-project-hooks.ts:230-232`.

Seen on the way, without a run of their own. Where a property excuses one of them, TLC
finds its violation as soon as the excuse is taken out of the property.

* `CredentialRotation`. If the ok comes after the 15 s timeout (`late`), the device uses
  the new pair and the server the old one on a socket that stays up
  (`ConnectedIsReachable`, `BackOnline`, `Rotates`); `agents.js:442` relies on "its next
  refused handshake". `rotateAgentLive` captures and checks an entry, awaits the hash
  (`agents.js:465`) and lets `sendRpc` look the primary up again: after a reconnect in
  between the new socket is asked and the old entry gets the new secret (`crossed`), so
  the new one signs with a secret the device drops after its grace
  (`ConnectedIsReachable`), against "WITHOUT disconnecting it" (`agents.js:437`). An ok that arrives on
  a connection the device has left is stored although the device has fallen back
  (`stray`), and a second rotation applied before the first is stored overwrites
  `previousCredentials` (`stacked`): either way the pair the server holds may be nowhere
  in the folder (`NeverLockedOut`, `BackOnline`), against `rotation.js`'s "falls back to
  `previousCredentials`, which the server still holds". A socket that closes during
  `bcrypt.compare` is put into the peer set after its only close event
  (`agents.js:194`, a `ghost`): the drive counts as multi-device from then on and is never rotated
  (`Rotates`), against `lib/README.md:45`. With both kinds of rotation (`MaxLive = 1`,
  `MaxManual = 1`) the unconditional UPDATE after a live ok (`agents.js:474`) undoes a
  manual rotation (`NewestPairStays`), against `drives.ts:114`; and the device can be
  locked out without any mishap (`NeverLockedOut` without its first conjunct): the live
  request was on its way when `rotate-token` ran, the CLI has written its pair, and
  `applyRotation`, or `revertRotation` later, replaces it in the config by one that the
  server does not hold.
* `UploadSession`. A chunk the server gave up may still be appended after the retry has
  read the size (`PublishedIsWhole`, `AckedBytesStay`), against `route.ts:26-28`; so may
  a rename or a delete. The sweep does not take the lock, so a session resumed after
  48 h can publish a truncated file (`PublishedIsWhole`), against `route.ts:172`. A late
  append can make the temp longer than the file, and every part is refused until the
  session's TTL (`SessionEnds`). All of these are `crossed`. The
  row is read before the lock: two requests that complete an upload count it twice
  (`Size = 2`, `MaxStray = 1`, `MaxFail = 1`: `CountedOnce`), against `route.ts:85`. A
  GET without the lock can report a published upload as lost.
* `ProjectDelivery`. An update A to B repeated after B to A has the receipt of the first
  one and is swallowed until that is purged. The handlers of two pushes may store their
  rows in the other order than the branch moved. A crash between git's answer and the
  INSERT loses the update. A head that is refused for ever keeps its repository's queue
  waiting.
* `ChangeFeed`. A resource first recorded after the backup has no version row to jump
  (`anew`; without that exception `Outranks` and `NothingMissed` are violated by a backup,
  a change, a poll, the restore and the change again), against
  `share-events-restore.js:21-22`. A reader without an event after its floor is told gap
  at every poll. Recording is best effort: an event that is not stored gives no gap.
* `WillowSync`. A peer's snapshot appended last hides a device's own older updates from a
  read until the next compaction (`ReadsAll`, a 9-state trace), against "Read all
  relevant entries" (`willow-store.js:180`). `SaveIsReadable` says what does hold. A summary names the newest
  100 rows of a document: a device that takes in that many before anyone has heard of
  its own older ones never names those again (`MaxDigests = 2`: `Converge`), against
  "missing entries get pulled by digest" (`willow-sync.js:6`), until something is saved
  through it once more.
* `AfanBridge`. Two hosts with one `os.hostname()` take each other's `running` result
  for their own (`SameName = TRUE`: `OneCaller`, `FinalStays`), against the file's
  header. Where there are no hard links the claim is a look and a rename, as the code
  says. A cancellation that comes during `message/send` leaves the agent's task running;
  a resume that finds the server out of reach writes `failed` over `running` while the
  task goes on; a `running` result of a device that never returns stays.
* `GitExecStream`. A frame that does not verify is dropped and `seq` is not looked at:
  a stdout frame lost next to a live rotation's answer (`Dropped = BOOLEAN`) lets a
  client be told 0 without all bytes (`CleanExit`), and a lost exit frame keeps the
  session until the socket closes (`Ends`). Acks before the handle is set
  (`relay.ts:106`) are lost; half a window of them stalls the stream until a cap fires
  (`Ends` without its last disjunct). When the open times out at the server and the
  device starts git all the same, nobody acks its output, and git's exec stays on the
  device until the socket closes (`stalled`). A client that neither reads
  nor hangs up holds its session past the cap.

## Proofs

`AccountSettlementProofs` proves, for any sets of accounts, links, authorizations and
requests:

| theorem | says |
| --- | --- |
| `TypeCorrect` | `Spec => []TypeOK` |
| `Invariance` | `Spec => []Inv` |
| `NoSecondChargeHolds` | `Spec => []NoSecondCharge`, given `ReleaseAfterCheck` |
| `PaidRowIsNotReleasedHolds` | `Spec => []PaidRowIsNotReleased`, given `ReleaseAfterCheck` |
| `CreditIsWholeHolds` | `Spec => []CreditIsWhole` |
| `OneUnresolvedRowHolds` | `Spec => []OneUnresolvedRow` |
| `OneTxOnePurchaseHolds` | `Spec => []OneTxOnePurchase` |
| `RowIsFinalHolds` | `Spec => RowIsFinal` |
| `KeepsPromiseHolds` | `Spec => KeepsPromise`: every step is a step of `SaleCharge` or none, given `ReleaseAfterCheck` |

The argument for no second charge. The property only speaks of charges that happened,
and is not inductive: an authorization that has not paid yet may pay later. The
invariant therefore says why an old row no longer stands in the way of a new one. Call
a row *dead* when its authorization can never move money again: it is malformed, or it
expired unused. Then (`StoreInv`) a released row is dead or was forced, a credited row
has its membership and receipt unless the owner took them away, and of two rows of an
account for the same thing one is dead or the account is excused. A new row is recorded only when no row is
unresolved and the account does not hold the share, so every older row is dead or
excused. Releases keep this because a refusal counts only as the answer to the single
settle request of the row's own envelope (`HandlerInv`), and a `release` by hand only
after expiry, when the chain read cannot become stale. That last point is
`ReleaseAfterCheck`; without it the invariant fails exactly where
`AccountSettlementEarlyRelease` does.

The refinement follows from the same invariant: a step moves money, records a row,
adds an excuse, or changes nothing that `SaleCharge` can see (`StepPromiseEffect`). A
row that becomes charged, because its authorization moves money or because it is
recorded for one that already did, is not dead, so every charged twin it has means an
excuse, which is what `Pay` asks for.

The assumptions are `SettlementAssumption`: the functions have their types,
and `None` is none of the values. Nothing is assumed about the environment beyond the
actions of the module.

The other modules:

| module, theorem | says | given |
| --- | --- | --- |
| `CredentialRotationProofs`: `TypeCorrect` | `Spec => []TypeOK` | |
| `NeverLockedOutHolds`, `ConnectedIsReachableHolds` | `NeverLockedOut`, `ConnectedIsReachable`, with the mishaps each names | |
| `NewestPairStaysByHand` | `NewestPairStays` | `MaxLive = 0`: no live rotations |
| `UploadSessionProofs`: `TypeCorrect`, `CountedIsPublishedHolds` | `TypeOK`, `CountedIsPublished` | |
| `PublishedIsWholeHolds`, `AckedBytesStayHolds`, `Invariance` | `PublishedIsWhole`, `AckedBytesStay`, and `Inv` until a call has `crossed` | |
| `ProjectDeliveryProofs`: `TypeCorrect`, `InOrderHolds`, `OneSenderHolds`, `Invariance` | the run's invariants | |
| `ChangeFeedProofs`: `TypeCorrect`, `CursorHoldsHolds` | `TypeOK`, `CursorHolds` | |
| `OutranksHolds`, `NothingMissedHolds`, `FeedInvariance` | `Outranks`, `NothingMissed`, of resources not in `anew` | `WithinJump`: `MaxChange <= Jump` |
| `AfanBridgeProofs`: `TypeCorrect` | `Spec => []TypeOK` | |
| `OneCallerCorrect`, `FinalStaysCorrect`, `CalledWithGrantCorrect` | `OneCaller`, `FinalStays`, and that a call under way has its grant | `~SameName` |
| `GitExecStreamProofs`: `TypeCorrect`, `NeverAboveWindow` | `TypeOK`; no end has more than a window under way | |
| `CleanExitHolds`, `WindowKeptHolds`, `StreamInvariance` | `CleanExit`, `WindowKept` | `NoneDropped`: `Dropped = {FALSE}` |
| `WillowSyncProofs`: `TypeCorrect`, `SaveIsReadableHolds` | `TypeOK`, `SaveIsReadable` | |
| `RowsOnlyGrowHolds`, `SavedStaysHolds`, `OriginHolds` | rows never lose an edit, nor one that was saved; nothing is kept or sent that was not typed | |
| `SharesDocumentHolds` | `Spec => SharesDocument`: every step is a step of `SharedDocument` or none | |

Each assumption is about a constant that the run sets the same way (the manual run, for
`MaxLive = 0`). What the properties themselves excuse is part of the theorems, and the
preceding section says what TLC finds without it. Every invariant that a passing run checks is stated by one
of these theorems.

*Rotation.* Where sockets and calls can be is the same for every kind of rotation and
after any mishap (`PlaceInv`). That the pair the server holds is in the folder is not
inductive: it must say what each frame and each stage leads to. For live rotations
(`LiveInv`), as long as nothing is `stray` or `stacked`, the device uses the server's
pair, keeps it as its fallback, or is just writing a successor to it; on its own socket
the server holds the pair in use until the hello has arrived, unless it has refused it;
and an answer that a call waits for is about the pair in use - however many calls, late
answers and other sockets there are beside. By hand alone (`HandInv`) there are no such
stages: the pair is the CLI's or the folder's. `ConnectedIsReachable` needs neither: as
long as nothing is `late` or `crossed` (`ReachInv`), the socket that the server accepted
from the device carries one rotation at a time - a request, a pair being written, or an
answer - a call waits for it there, and until there is an answer both ends use the same
pair. `NewestPairStays` is violated when both kinds meet, so no run has it; by hand alone
it is proved.

*Upload.* Only the lock's holder changes the files, a handler waits for at most one
call, an append or rename of the holder finds the temp as it left it, and a reply tells
what the files were when it was given and still are. A call that nobody waits for keeps
this (`Inv`) as long as it is harmless, and `crossed` says that one was not; so the
theorems are about `crossed \/ Inv`. Only counting needs no such care: it is done by the
handler that saw the target there, and a target is never taken away: `Form` says so,
with the types, for any order of late calls and sweeps.

*Upload.* The temp holds `1..n` for the `n` the lock's holder goes by, there is at most
one call under way, it belongs to the holder, and a reply tells what the files were when
it was given. None of this survives a call that outlives its request or a sweep of
a session in use, but an upload is still counted by the handler that saw the target
there, and a target is never taken away: `Form` says so, with the types, for any order
of late calls and sweeps.

*Deliveries.* A row whose attempt has started has no earlier pending row of its
repository, an attempt holds its row's lease, a request that is waited for is the
attempt's own, and a delivered row was accepted. So a second process cannot claim the
row, nor a later one pass it.

*Feed.* Sequence numbers are issued once per reader; above a reader's floor versions
grow with them and none is ahead of the table; the newest row of a resource tells the
grant; and a reader without an unread row of it shows the grant. A restore raises
every floor above all numbers ever issued, so that nothing of the old rows counts, and
the versions above all that changes since the backup can have reached - of the resources
that have a version in it; the others are in `anew`, and what is said of versions
held and of views leaves them out. The types and
the cursor need none of that (`TableInv`): rows are in the order of their numbers, a
reader keeps at most `Retention` of them because each change prunes what it adds, and a
page ends neither below the floor nor above the numbers issued.

*Bridge.* A host is past the claim only for a request whose result names it, `running`;
the result names one host. A run that may still call or answer is the only one of its
request, hence also the only one that gives its grant back.

*Stream.* The start's answer is the first frame up and the exit the last. While the
session is good every unit read is with the client, in the channel or on the socket; an exit of
0 has been sent only when the pipe was empty, and reaches the client only when socket
and channel are. A window's account is an equation over what is under way: what the
sender counts is what is on the socket, held, in the channel, or on its way back as
acks, summed frame by frame over the queues; a dropped frame can only make the left
side larger, so the windows themselves are never exceeded.

*Shared documents.* A row appended, a compaction and a give never make a replay smaller:
a compaction's snapshot is the merge of what it replaces (`RowsGrow`). A read that
starts at a snapshot returns what it did before a save and what was saved, because the
new row lies above every snapshot, or the snapshot that replaces the rows is made of all
of them (`SaveIsReadableHolds`). For the refinement,
`Origin` says that a give carries only what some other device keeps - its rows have only
grown since it sent them - so taking it in is learning from that device.

The prover's limits. Only model-checked is liveness, which needs fairness: `Rotates`,
`BackOnline`, `SessionEnds`, `EachHandled`, `EachAnswered`, `Ends`, `Converge`.

## Plan

1. done: `SaleCharge`, `AccountSettlement` with its refinement, `CredentialRotation`,
   `UploadSession`, `ProjectDelivery`, `ChangeFeed`, `AfanBridge`, `GitExecStream`,
   `SharedDocument` and `WillowSync` with its refinement - each with its proofs.
2. next: `AgentChannel` with several devices: primary, pending calls, fan-out; composed
   with `CredentialRotation`'s socket states and carrying `GitExecStream`'s frames, so
   that a rotation's dropped frames need no constant.
3. then OAuth codes and tokens; the document hub with members and organizations; path
   generations with the awaited stat of `fs-changed`; the browser's autosave.
4. proofs still worth having: abstract specifications of the delivery queue and of the
   bridge, and their refinement.

## Not modelled

Most lines of the repository have no protocol state: the web UI, the desktop and mobile
apps, the scenario catalogs, scripts, mail, logs and tracing. Of `drive-shell.tsx` only
`uploadChunked` is modelled, as the client of an upload session. The cloud agent and the
agent asks orchestrate calls of external models. Invites, OTP, handoffs, tiers, paid
lifts, delegation and rate limits are single synchronous blocks over a table: nothing
interleaves with them. Signature checks, token formats and path confinement are pure
functions whose interesting inputs are strings. Of the device's RPC handlers the
read-only ones are left out. Several agents on one drive appear only where the sync
frames need them (`WillowSync`) and as the condition that stops live rotations. OAuth,
the document hub, organizations and path generations are planned above.
