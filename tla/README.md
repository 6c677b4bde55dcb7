# AIVF CCS in TLA+

AIVF CCS stands between an agent and its privileged tools: a guard sends every
tool call to a verifier, the verifier decides and writes a signed receipt into
an evidence database, and the tool runs only if the verdict is ALLOW.  The
modules in this directory model the parts of the code that keep state or race,
TLC checks them on small instances, and TLAPS proves the main results for every
size.  Source paths below are relative to the repository; `V/` is
`aivf-ccs-verifier/src/aivf_ccs_verifier/` and `K/` is `aivf-ccs-sdk/src/`.

## 1. The system

| part | code | state | operations |
| --- | --- | --- | --- |
| receipt manager | `V/receipt.py` | signing seed, identity, TTL; counter and set when it has no store | `create_admission`, `finalize`, `mark_unavailable`, `consume`, `validate` |
| evidence database | `V/storage.py` | tables `meta`, `evidence`, `consumed`; one lock per object | `_init`, `next_sequence`, `save_receipt`, `is_consumed`, `mark_consumed`, two reads |
| signing seed | `V/key_manager.py` | one file | `load_or_create_seed` |
| command lines | `V/cli.py`, `V/admin_cli.py` | none | `main`, `public-key`, two read-only commands |
| rules and verdict | `V/verifier.py`, `V/rules.py`, `V/models.py`, `V/canonical.py` | none (configuration) | `verify` |
| verifier server | `V/server.py` | connections | `_handle`, `_health`, `serve` |
| remote guard | `K/remote.js` | a socket and a flag per call | `verify`, `governRemote` |
| in-process guard | `K/guardrail.js`, `K/receipt.js`, `K/rules.js`, `K/dsh.js` | counter and set in memory | `verify`, `govern`, `beforeToolCall` |
| Python client | `V/client.py` | a connection | `verify` |
| public verifier | `public-verifier/app/*.py` | none | `profile_checks`, `verify_receipt` |
| portal | `examples/public-portal/app.py` | a queue of times per client | `allow`, `do_POST`, `proxy` |
| agent demo | `examples/agent-demo/app.py` | none | `do_POST`, `scenario`, `ccs_verify`, `verify_receipt` |
| real agent integration | `examples/real-agent-integration` | a conversation | a bounded loop of governed calls |
| deployment | `docker-compose.yml`, `deploy/`, `scripts/` | files | starts, restarts, exports the public key |

How they meet: the guard opens one connection per call and sends one JSON line
to `_handle`; `_handle` calls `Verifier.verify`, which runs the rules,
aggregates them and calls `ReceiptManager.create_admission`; that draws a nonce
and a number and saves the receipt through `SQLiteStore`.  An executor takes a
receipt back to some manager: `finalize` binds the response, `consume` uses the
authorization up, `mark_unavailable` revokes it.  Several processes open the
same database file and load the same seed: the service before and after each
restart, the admin command, anything an operator starts.  In the public
demonstration a request passes the portal's limiter and `proxy` to the agent
demo, whose `scenario` asks the verifier, runs a simulated tool, and has the
receipt looked at by the public verifier; these are four services that stop and
start independently.  The agent of `real-agent-integration` is a loop: a
language model calls tools, each goes through `governRemote`, and the model is
told what came of it; it shares the verifiers with the demonstration.

What is hard:

- `consume` looks the nonce up in one transaction and marks it in another, and
  saves its receipt in a third; `create_admission` draws its number in one and
  saves in another.  Anything may happen in between, a crash included.
- every row is written with INSERT OR REPLACE, and receipts are values that
  callers copy, so the same receipt may be finalized, invalidated and consumed
  from several copies at once.
- the statements of the database script commit one at a time, every start
  runs them, and two locks (a Python lock, SQLite's) are nested.
- the seed file exists before it has content, and `serve` opens its socket, from
  which it signs, before the health port that may fail.
- a line crosses the network in chunks that need not end where a character
  does, the readers at its ends have different limits, and either end may go
  away in the middle of one.
- the timeouts are nested: the portal waits three seconds for a demo that
  waits two seconds for each of two other services.
- after the agent's tool has run, the tool, the public verifier or the process
  may still fail, and the model must not hear that nothing happened.
- the remote guard's calls overlap at every await; a call that timed out may
  still be verified and persisted.
- the parameters of a call are an object the caller keeps.
- the rate limiter reads the clock before it takes its lock.
- the rules raise on unexpected types, and what cannot be hashed cannot be
  put into a receipt.

The properties that make each part correct: an authorization is used at most
once and only if it was admitted (receipt manager); what a method returned is
in the file, whatever dies (database); one key for ever (seed), and a verifier
that serves with it (command lines); a line is parsed whole or denied, and both
ends finish (connection); the demo reports what happened, and a refusal of the
portal means that nothing did; a language model is told of every call it made,
and the truth (agent); no tool run without a persisted admission of the same call with the same parameters (remote
guard); the verdict is the one the limits call for, and reason, code and
receipt fit it (rules and server); the limit and the promised retry time hold
(portal).  `PROJECT.json` lists the hazards line by line.

## 2. Modules

| module | models | composed with |
| --- | --- | --- |
| `EvidenceStore` | the database as indivisible methods (abstract) | |
| `SQLiteStore` | `V/storage.py`, one SQL statement at a time | implements `EvidenceStore` |
| `AuthorizationLedger` | decisions entered once, authorizations spent once (abstract) | |
| `ReceiptManager` | `V/receipt.py`, one database transaction at a time | built on `EvidenceStore`, implements `AuthorizationLedger` |
| `SeedFile` | `V/key_manager.py`, one system call at a time | |
| `Service` | `V/cli.py`, `serve` of `V/server.py`, `public-key` of `V/admin_cli.py` | extends and implements `SeedFile` |
| `RemoteGuard` | `K/remote.js` and the loop of `V/server.py`, by the message | |
| `Wire` | one connection of `K/remote.js` or `V/client.py` with `_handle`, by the byte | implements `RemoteGuard` |
| `Verifier` | `V/verifier.py`, `V/rules.py`, `V/models.py` | |
| `Guardrail` | the decision of `K/guardrail.js` with `K/rules.js` | reads the commands and results of `Verifier` |
| `LocalGuard` | `govern()` of `K/guardrail.js`, `K/dsh.js`, `K/receipt.js` | |
| `PublicVerifier` | `public-verifier/app/verifier.py` | looks at the receipts of `ReceiptManager` |
| `SlidingWindowLimiter` | `allow()` of `examples/public-portal/app.py` | |
| `Portal` | `do_POST` and `proxy` of the portal, the agent demo, and the services they call | |
| `Agent` | `examples/real-agent-integration`: the loop, the tools, the model's endpoint | extends `Portal`, shares its services |
| `*Proofs` | theorems about the module they are named after (`PortalProofs` has the limiter, `ReceiptManagerProofs` the public verifier, `ServiceProofs` the seed file) | |
| `MC*` | constants, symmetry and state constraints for TLC | |

A definition named `X_Something` is a mutant of `X`: the code with a plausible
mistake, of which `PROJECT.json` says which property notices it.

### ReceiptManager

`pc[p]` is the step of the call that manager `p` serves and `receipt[p]` the
local variable it works on.  `CreateAdmission` reads the clock and draws the
nonce, `TakeSequence` is `_next_sequence`, `Save` is `_sign` with `_persist`,
`Return` hands the receipt over.  `Finalize` and `MarkUnavailable` go straight
to `Save`, as the code does, with any receipt that has been returned or is in
the database.  `Consume` is `validate` up to `is_consumed`, `Lookup` that query
and the check of the verdict, `Mark` is `mark_consumed`.  `Abort` ends a call
anywhere: the process died or the database stayed busy.  The history variables
`issued`, `grants` and `aborted` record what callers got.

Receipts presented are ones a manager signed; forging is left to the
cryptography.  `consume` does not pass `expected_command`, so the binding of a
receipt to a command is a field that no action changes (`DecisionPersisted`).
A manager without a store keeps the counter and the set in its own memory: one
process of the model, without `Abort`.

### PublicVerifier

It keeps no state, so it is a set of operators on the states of
`ReceiptManager`: `ProfileValid`, `Authentic` and `AuthorizingNow` are the
outputs of `verify_receipt`, `Accepts` is `validate` with the checks of
`consume`.  A receipt may be presented intact, with a field altered, added or
left out.  `PublicAgrees` compares the two in every state the managers reach.

### SQLiteStore

One action per statement, the CREATE INDEX of `_init` included, for threads `t`
of processes `StoreOf[t]`.  `lock` is
the `RLock` of each object, `writer` SQLite's write lock on the file.  A
statement that needs the write lock is not enabled while another holds it,
which is how it waits; `Busy` is the five seconds running out.  `Die` kills a
process with all its threads and rolls its transaction back.  `is_consumed`
takes no lock and is one SELECT: reading the committed rows in `SelectConsumed`
and, in `ReceiptManager`, `Store!IsConsumed`.

### SeedFile

`Exists`, `Read`, `Create` (O_EXCL), `Write`, `Sync` are the calls of
`load_or_create_seed`, `Fail` stops a process anywhere, `Exit` is a process that
ends with the key in hand, `Restart` is its supervisor.  The page cache survives
a process; loss of power is not modelled.  It is checked inside `Service`.

### Service

`stage[p]` is where process `p` is in `serve`: `off`, `listening` (the socket is
bound, connections are served, `Sign`), `serving` (the health port is bound as
well).  `Listen` is `serve` before the health port: a Unix path is unlinked and taken over, a TCP
port that another process has is an error.  `Export` is the command
`public-key`, which ends after it.  `Leave` is an exception that leaves `main`,
`Kill` a process that dies.  `signed` and `exported` are sets of seeds: a
receipt verifies under a public key when both come from one seed.

### RemoteGuard

`pc[c]` is where `governed()` is for call `c`, `request[c]` and `answer[c]` what
its connection carries, `verdict[c]` what the promise resolved to.  `heap`
holds the parameter objects: `Connect` serializes the object (JSON.stringify
loses NaN and throws on a cycle; a throw there ends the process), `Resume`
gives the same object to the tool, and `Write` is the agent, or a tool that got
it, changing it.  `Verify` is one turn of `_handle`'s loop, whether or not the
client still waits.  `Timeout` and `Break` resolve to deny if nothing has.
A chunk that does not complete the line changes nothing that matters here;
that messages arrive whole or not at all is what `Wire` shows.

### Wire

One request over one connection.  `up` and `down` are the bytes under way,
`buffer` and `inbox` what the readers have, `evidence` the admission rows,
`reply` the line the verifier wrote.  A line is a head, padding, one character of
two bytes, the end of the JSON value and the newline.  `Data` is the `data`
event of `remote.js`, which decodes every chunk by itself, or `readline` of
`client.py`, which keeps bytes and has a limit; `client` says which of the two
runs.  `Closed`, `Refused`, `Timeout` are the other ways a call ends: `client.py`
has no timeout and lets a refused connection raise.  `ReadLine` is one turn of
`_handle`: a line, a line that is too long, or the end of the stream.  `Break` is
the process or the network going away with part of an answer delivered.

### Verifier

Commands are records of value classes; the operators `Structure` to
`CredentialLeak` give what each rule returns or that it raises; `Aggregate`,
`VerdictOf`, `Reason` and `ErrorCode` follow `verifier.py` and `models.py`;
`Serve` is one line of `_handle`, in one step because there is no await in it.
`config = None` stands for a Verifier with rules of the embedder, whose results
are enumerated instead.  `Acceptable` is the reference the rules are compared
with, in named parts: the command can be hashed (`Canonical`), every field that a
limit in force compares can be compared (`Readable`), the limits are kept
(`WithinLimits`), no pattern finds anything (`Harmless`).  Where one test shadows another the definitions use IF
and ELSE: a CASE whose guards overlap would leave the choice open.

### Guardrail

The same commands, decided by the rules in JavaScript (`GuardStructure` to
`GuardCredentialLeak`), and the same results, aggregated by `guardrail.js`.  The
patterns of the two sides differ, and what only one of them finds in the
parameters is a class of values of its own:

| rule | only the SDK finds | only the verifier finds |
| --- | --- | --- |
| addresses (`rules.js:37-38`, `rules.py:96-113`) | `lookalike`: the beginning of a host, as in `http://10.example.com` | `hidden`: what `ipaddress` calls private or reserved, `0.0.0.0`, a host after user information, `ftp://` |
| commands (`rules.js:44-46`, `rules.py:118-124`) | `shell`: `rm -rf` with any absolute path | `eval`: `eval(`, `exec(`, `nc -e` |
| credentials (`rules.js:51-53`, `rules.py:134-139`) | a sensitive word in the name of the tool (`secret`, `fetch_secret`) | `passwd` |

Neither finds a loopback address of IPv6 in brackets: `rules.py:105` cuts the host
at its first colon.  `GuardrailAgrees` says what the two sides owe each other:
the same verdict from the same results; by their own rules the same verdict on
every typed command, but for those that the table names (`OnlyGuardFinds`,
`OnlyVerifierFinds`), on which they do differ.

### LocalGuard

`pc[c]` is where `governed()` is for call `c`, `receipt[c]` and `output[c]` its
local variables, `result[c]` the receipt returned with the output; `sequence[m]`
and `consumed[m]` are fields of a receipt manager.  `Govern` is everything up to
the tool's start in one step, because nothing awaits in it; `Resume` is
everything after the await.  `BeforeToolCall` is the plugin, whose tool the
framework runs.  `Finalize` and `Consume` are the methods of the manager called
with any receipt that ever left it.

### SlidingWindowLimiter

`ReadClock` is line 25, `Decide` everything under the lock.  Time is in ticks,
`TicksPerSecond` to the second, because `retry_after` is rounded.  `MaxDelay`
bounds the time a thread spends between the two, as an assumption on `Tick`.

### Portal

`status[r]` is what the portal answered to request `r`, `demo[r]` where the
demo's thread for it is, `answer[r]` the line of the CCS verifier, `up` the
services that run.  `Post` is `do_POST` up to the forwarded request, `Relay` and
`GiveUp` the rest of `proxy`: a timeout or a broken connection is an exception
that `proxy` does not catch, so the client sees its connection cut, as it does
after a Content-Length that is no number.  `Ask`,
`CCSFails` and `Answered` are `ccs_verify` and what `scenario` makes of its line,
`Check` is `verify_receipt`, which turns any exception into "unavailable".
`Verify` serves a line whether or not the demo still waits.  `Stop` ends the
threads of a service, `Start` is its supervisor.  A thread whose service died is
`dead`.

### Agent

`turn` is the variable of the loop of `runLLMAgent`, `stage` where it is,
`current` the call it executes and `last` the last one the model has made;
`told` is the set of tool messages, `bodies` the calls whose tool was reached,
`line` and `rows` the verifier's side.  `Think` is `chatCompletion`, `AskTool`
the start of `executeTool`, `GuardEnds` the end of the promise of `verify`,
`RunTool` the tool's body, `CheckReceipt` `verifyPublic` and the message that
follows.  A call may name any tool, with any arguments, so each may also throw.
`VerifyCall` serves a line whether or not the guard still waits.  A `Stop` of
the portal's services loses the agent's lines too: `Losing` is taken with every
step of the portal.

## 3. Runs

| run | instance | shows |
| --- | --- | --- |
| `receipt_replay` | 3 managers, 1 nonce, 1 tick | at most one grant per nonce; refusals use nothing up; the admission behind every copy stays, unchanged; the public verifier and the managers agree |
| `receipt_pair` | 2 managers, 2 nonces | numbers in the order of issue; the ledger is implemented |
| `store` | 2 processes, 3 threads, 4 calls | the statements implement the atomic store; nothing returned is lost; every call ends |
| `service` | 2 verifiers and an admin command, 5 seeds, 2 failures, both transports | every receipt verifies under every exported key; when failures end a verifier serves for good, unless the seed file was left empty |
| `limiter` | 3 threads, limit 2, window 4 ticks, delay 2 | the limit over the window less the delay; `retry_after` is kept; the queue stays within the limit |
| `remote` | 2 calls, 2 objects, 1 write | fail closed; one decision per call; the run is the admitted one; every call is decided |
| `remote_shared` | 1 write | **violated**: see findings |
| `wire` | either client, lines of 4 or 6 bytes and a newline with a limit of 5, 2 verdicts | what is parsed is what was written, up to a split character; the handler ends, the client gets a verdict; `RemoteGuard` is implemented |
| `portal` | 1 request and an agent with 2 turns and 2 calls, 4 services of which one stops once | the demo reports and the model is told what happened; a refusal of the portal means that nothing did; no call stays unanswered; every thread and the conversation end |
| `local` | 2 calls of one guard, 2 managers with one key, 3 ticks | each output gets the evidence of its own call; copies keep the decision; one grant for each manager |
| `local_void` | the same | **violated**: see findings |
| `verdict` | all commands with at most 2 features; pairs of custom results | what is allowed is acceptable, but for a cost of NaN; verdict, reason, code and receipt fit together; the in-process guardrail decides alike where its patterns do |

Why the bounds are enough.  Three managers let two of them race for a nonce
while a third has finished or died.  Two nonces are what it takes to compare
two decisions; the runs about one decision use one nonce and spend the states
on copies of its receipt.  `MaxIssued` (a state constraint) keeps the number of
receipts in circulation at what a run needs, which leaves each race between
them; `MaxHeld` does the same in `local`.  Of the two commands of `receipt_replay` the profile of the
public verifier accepts one.  Two threads of one process and one of another cover contention inside
and across processes; four calls are two writers, a crash and a reopening.  The
limiter needs as many threads as the limit plus one.  Two calls share an object
or do not.  Parameters with two features make two rules speak at once.  Two
verifiers are what it takes to contend for a socket, the admin command creates
the seed when it comes first, and two failures can hit both creators; five
seeds are one for each process and one for each failure, the most that can be
drawn before the file exists.  The
longer line of `wire` is over the limit by one byte, the shorter is under
it, and every way to cut them into chunks is tried.  One stop in `portal` reaches
each service at each stage of the request and of the agent's calls; requests meet
only in the services that stop, and the theorems are for any number of
them.  Two calls are made in one turn or in two.
Deadlock checking is off where the bounded instance really comes to an end.

The bounds of the models (`MaxTime`, `MaxCalls`, `MaxFailures`, `MaxWrites`,
`MaxStops`, `MaxTurns`, `MaxDelay`) stand in the guards and are constants; the theorems hold for every
value of them.

Fairness.  `store`: weak fairness of each thread's next step, which is the
scheduler and SQLite's bounded wait.  No thread is assumed to make a call.
`service`: processes run and are restarted (`Restart=on-failure`, `restart:
unless-stopped`); `MaxFailures` is what ends the failures.  `wire`: the network
delivers or the connection closes, and both processes run; the timer is not
needed, which is why `client.py`, which has none, settles too.  `portal`: the
timeouts of the sockets and the scheduler, and for the agent the timeouts of
its steps (30 s for the model, 2 s for the guard, 5 s for a tool's request, 3 s
for the public verifier).  `remote`: only the socket's timer and the continuation
of a resolved promise, both of which the event loop runs.  The tool may never
end, and the services and the network may be silent or down for ever.  One thing
is assumed of them: the timers of the sockets in `remote.js`, in the portal and in
the demo are timers of inactivity, which every byte starts anew, and the peer
does not send bytes for ever that never complete an answer.  Of a client of the
portal nothing is promised before its request is forwarded: `app.py:243` reads
the body without a timeout.

## 4. Findings

1. **A tool that returns nothing is not finalized** (`local_void`).
   `guardrail.js:57` hashes the output after the tool has run, and undefined
   cannot be hashed: the call is rejected with a TypeError although it took
   place.  `standards/README.md:25` has every executed call finalized.
2. **Parameters can change after admission** (`remote_shared`).  `remote.js`
   serializes the caller's object at line 40 and hands the same object to the
   tool at line 77; `ARCHITECTURE.md:55` says receipts bind the intended
   invocation.  For a call whose object nobody writes to while it waits it is
   so: `ExecutedAsAdmittedUnlessTouched`, proved.

Limits of the code that the properties are stated around:

- Finalizing a receipt twice replaces the row of the first finalization, for
  `save_receipt` is INSERT OR REPLACE keyed by nonce and status
  (`storage.py:66`); what is stable is the admission row
  (`AdmissionRowsStable`).
- `app.py:25` reads the clock before the lock of line 27, so that a window of
  full length may let too many requests through: threads that were late put stale
  times in the queue, which expire early, and up to twice the limit can pass
  within a window.  What holds is `LimitPerShorterWindow`.
- The seed file is created at `key_manager.py:14` and written at line 16; if the
  process dies in between, the file stays empty and every later start fails with
  ValueError until someone removes it: the exception in `ServiceReturns`.
- A second verifier on the same Unix path unlinks the socket of the one that
  runs (`server.py:61`), serves and signs for a moment, and then fails on the
  health port: the first one goes on without its path.  It signs with the same
  key, which is why `ExportedKeyVerifies` holds, and `ServiceReturns` promises
  the socket itself for TCP only.
- A command with NaN or a lone surrogate makes `create_admission` raise outside
  the try of `verify` (`verifier.py:61`): the answer is a deny with `ok: false`
  and no receipt, and nothing was persisted (`NoReceiptNoEntry`).
- A cost of NaN passes any `max_cost`: it is not greater than the limit
  (`rules.py:64`), and the cost is not among the fields that are hashed, which
  is where a timestamp of NaN fails.  Such a command is judged as one without a
  cost (`AllowedIffAcceptableUnlessNaN`).
- The types that `models.py` declares are not checked: a tool that is a number is
  allowed as long as no rule has to read it, and so is an `agent_id` of any kind
  when no agents are listed.  A timestamp in the future has age 0.0
  (`rules.py:51`).
- A failed result of a rule whose dimension is none of the seven has no part in
  the verdict, though its reason is given (`verifier.py:40-57`); every other
  failure denies (`CodeMatchesReason`).
- The rules of the SDK and of the verifier do not find the same addresses,
  commands and words (`GuardrailAgrees`): passing the in-process guardrail is not
  passing the verifier, nor the other way round.
- The in-process receipt manager knows only of what it has itself authorized
  (`receipt.js:28`): another manager with the same key, or the same process
  after a restart, accepts a consumed receipt again.  What holds is
  `OneGrantPerManager`.
- The public verifier has no database, and calls a receipt whose nonce has been
  consumed `authorizing_now` (`verifier.py:152` of `public-verifier`):
  `PublicAgrees` is stated up to that.
- `remote.js:42` decodes every chunk by itself.  A character that two chunks
  share is lost, and the receipt in the line no longer verifies; the verdict is
  not affected (`LineIntactUnlessSplit`).
- `urlopen` turns an OSError of the connection and of the request into the
  URLError that `proxy` catches (`app.py:128` of the portal), but not one of the
  response: when the demo is silent or stops, the client's connection is cut
  without a status.  The demo may have run its tool, and nothing says it
  has not (`RefusalMeansNothing`).
- `agent.mjs` ends with any exception that is not a denial (line 99), also one
  after the tool has run: the model never hears of that call.  What holds is that
  it hears nothing false and is not asked again (`ModelToldTheTruth`,
  `ConversationComplete`).

## 5. Proofs

All proofs are checked by tlapm with Z3, Zenon and LS4, for any sets of
managers, nonces, threads, calls and values, from the named assumptions of each
module (types and distinctness of the constants) and nothing else.

*ReceiptManagerProofs.*  `TypeCorrect` first.  At most one grant does not
follow from the lookup: it is `GrantInv`, which says of every nonce that the
grants returned and the calls that hold it between `Mark` and `Return` add up
to at most one, and are none unless the nonce is in `consumed`.  From it come
`GrantedAtMostOnce` and `NothingBurned`.  The other theorems rest on
`DecisionInv`: whatever is held, in the database or in the middle of a call
carries the fields of an admission row, or is that admission on its way; numbers
taken are at most `sequence` and no two admissions share one.
`LedgerImplemented` maps each step to `Enter`, `Spend` or a stutter.
The same invariants carry over to the public verifier: `PublicVerifierAgrees`
compares its checks with those of `validate` for every copy and every alteration
of a receipt, and `AuthorizingIsAdmitted` says that a verifier with no database
never calls anything authorizing that has no row in it.

*SQLiteStoreProofs.*  The invariant ties the write lock to the steps that need
it: a thread that has read inside its transaction holds `writer`, so what it
read is still what the file says.  From that, `NumbersUnique`, `MarksUnique`,
`NoIntegrityError`; from the order of the script, `SchemaComplete`; and
`StoreImplemented`, in which Commit and InsertOrReplace are the steps of the
atomic store.

*ServiceProofs.*  First the seed by itself: a process writes only after its own
O_EXCL creation, and at most one creation succeeds; hence a seed returned is the
seed in the file.  Then every step of `ServiceNext` is a step of `SeedFile` or leaves
its variables alone, so `ServiceSpec` implies `Spec` and the seed's theorems
hold of the composed system.  `KeyInv` adds that what a process that listens
holds, what has signed and what was exported are in `used`, which has one
element: `KeysAgree`.

*PortalProofs.*  `StageInv` ties the three stages of a request together: a demo's
thread exists only for a request the portal forwarded, and a line of the verifier
only for a thread that asked.  `RowInv` says that a verdict on its way is
persisted and that a tool that has run is past its verdict; with them
`DemoTellsTheTruth` and `RefusedHasNoEffect` are inductive.  The agent never
writes the portal's variables (`PortalBesideAgent`), so all this holds beside it.
Of the agent, `LoopInv` says that the calls before `current` have been
told and those after it have not been touched, and `LineInv` that the verdict a
step acts on came with its row; they give `ConversationIsTrue` and
`NoCallForgotten`, for any number of turns and calls.

The limiter is proved in the same module.  Its queue need not be in order, for
late threads put stale times in it, so `QueueInv` compares it with the history:
the queue is the last of the requests let through, each under a time that is at most
`MaxDelay` old, and those that are gone from it are older than the
window less that delay.  `QueueWithinLimit` and `LimitKept` follow by counting
positions, since whoever was let through in the shorter window is still in
the queue.  `PromiseInv`, that a promise outlasts the head of the queue, gives
`RetryAfterKept`, with the rounding of `retry_after` (`RetryAfterLongEnough`).

*WireProofs.*  `RequestInv` says that what the verifier has received and what is
under way are how the request begins; `AnswerInv` says the same of the client and the
answer, up to the characters that a chunk boundary cut.  A newline is nowhere but at
the end of a line (`TextShape`), so the first newline a reader finds ends the
whole line (`OneLine`) whatever the chunks were: `LineArrivesIntact`.
`RemoteGuardImplemented` maps every step to the step of `RemoteGuard` it is: a
chunk that completes the line delivers, an end of the stream after a whole value
delivers too, a connection that ends while the request is under way breaks, one
that ends after its answer was written is late, and the moves of bytes stutter.
The request is under way as long as any of it can reach `verify`; that a request
that was partly delivered is either served once or lost rests on `RequestInv`.
`VerdictIsPersisted` goes from the bytes to the row: a verdict other than a deny is
the head of an answer whose admission is in the database (`PersistInv`).

*RemoteGuardProofs.*  `GateInv`: the word "allow" in an answer or a verdict is
backed by an admission row.  `OnceInv`: a call is sent, verified and run in
this order.  `BindInv`: as long as nobody wrote to it, the object of a
call that waits holds what was sent and what was admitted; it rests on the two
others.

*LocalGuardProofs.*  `FlowInv` follows a call from its admission to its result;
with it come `OwnEvidence` and, since numbers taken are at most `sequence`,
`DecisionsPreserved`.  `GrantedOnce` rests on `GrantInv`: a nonce that
is not in `consumed` has not been granted.

*VerifierProofs.*  `VerifierInv` says that an answer is `Decision` of the results
of the command's rules, or `Failure`; the rest is about these operators.  The
nine results of the default rules are a function `st` to pass or fail
(`DefaultRules`); `AggregateOfResults` gives the dimensions of such a function and
`AllowIffAllPass` the verdict.  Each rule is then compared with `Acceptable`
(`PassedIsAcceptable`) and with its JavaScript counterpart (`AcceptableAtGuard`,
`GuardedAtVerifier`), in both directions.  For
`CodeMatchesReason` the least failed rule and the least failed dimension are
compared through `Place`, which is monotone; `AnyRules` is the part of it that
holds of an embedder's rules.  The run covers commands with at
most two features, the theorems those with any number.

Only model-checked: the liveness properties (`EveryCallEnds`, `ServiceReturns`,
`EveryCallDecided`, `HandlerEnds`, `ClientSettles`, `EveryThreadEnds`,
`AgentEnds`), because the prover does not handle fairness; and the two
properties of the findings, which do not hold.  Every invariant and every other action
property or refinement of the runs is a theorem.  The other way round, the types of
most modules with proofs are proved and not checked as well.

## 6. Not modelled

- Signatures, hashes and canonical JSON beyond what can be expressed in it:
  Ed25519 and SHA-256 come from libraries, and the models take it that only the
  verifier's receipts verify.
- The regular expressions of the security rules: which of them match is a
  feature of the parameters.  Words spelled with letters that only Python takes
  for ASCII ones when it ignores case (the long s) are left out.
- The failed write of an answer of the demo (`app.py:207-209` of `agent-demo`
  then composes a 503 for the broken connection): nobody can read it.
- The PRAGMAs of `_connect`, which choose the log and its fsync.
- Reads that change nothing: `_health`, `latest_receipts`, `count_evidence`, the
  admin commands `verify` and `evidence`, the GET and HEAD routes, the pages.
- Argument parsing and logging.
- Loss of power (the page cache gone after an fsync that was not reached) and a
  clock that is set back.
- The scripts of `deploy/` and `scripts/`: the models rely on what they
  configure, which is the restarts.
- `runDemo` of `examples/real-agent-integration`, which executes four fixed calls
  one after the other and prints what came of them, the prompts and the contents
  of messages, and calls of names that every JavaScript object has
  (`agent.mjs:54` looks the tool up in a plain object).
- In the in-process guard: `config_hash`, which covers the counter of a receipt
  manager passed in the configuration, and falsy parameters, which are bound as
  `{}`.
- A receipt that is fresh when `validate` looks at the clock may have expired when
  `mark_consumed` commits; no document promises otherwise.

## 7. Plan

In the order of importance; the first eleven are done.

1. `EvidenceStore`, `ReceiptManager`, `AuthorizationLedger`, with proofs.
2. `SQLiteStore` implementing `EvidenceStore`, with proofs.
3. `SeedFile`, with proofs.
4. `RemoteGuard`, with proofs.
5. `LocalGuard`, with proofs.
6. `Verifier` and `Guardrail`, with proofs.
7. `PublicVerifier` on the receipts of `ReceiptManager`.
8. `SlidingWindowLimiter`.
9. `Wire` implementing `RemoteGuard`; `Service` on `SeedFile`, with proofs.
10. `Portal`, with proofs.
11. `Agent` beside `Portal`, with proofs.
12. Several lines per connection, for clients that pipeline.
13. Proofs: the limiter, the public verifier and the bytes of a connection
    (done); the composition of `RemoteGuard` with the ledger.
