# ynabifier: TLA+ models, checks and proofs

ynabifier watches an IMAP inbox, fetches the mail that arrives, parses
transaction notices of a few banks and submits the transactions to YNAB.  This
directory holds TLA+ modules translated from its source, the TLC runs that
check them and the TLAPS proofs about them.  Source paths below are relative to
the crate (`src/` of the repository).

## Inventory

| part | source | state | operations | hard because of | correct when |
|---|---|---|---|---|---|
| Inbox watcher | `email/inbox.rs`, `inbox/idle.rs`, `inbox/idle/state.rs`, `inbox/reconnect.rs` | IMAP session, its IDLE cell, backoff delay, channel of sequence numbers | `watch`, IDLE loop, re-IDLE, reconnect, `close` | stop racing every await, failures at every command, notifications lost between sessions, a server that is silent | ends only when stopped, always recovers, leaves no session open, repeats no sequence number, close resolves |
| Message stream | `email.rs`, `task/register.rs`, `task/stop.rs` | channel of messages, registry of fetch tasks behind a mutex, stop token | read a sequence number, spawn, register, unregister, join, `close`, drop | one task per message, a lock shared with the tasks that are joined, stop racing results, tasks that die | no fetched message is lost, every live task is registered, close leaves nothing behind and resolves, what the death of a task leaves behind winds up |
| Message fetcher | `email/message.rs` | one IMAP session per fetch | login, EXAMINE, FETCH, LOGOUT | the stop may come at each of them | session logged out on every path that is not a stop |
| Stream contract | `lib.rs` (`CloseableStream`) | - | `close`, drop | implemented by two streams, one inside the other | see `CloseableStream` below |
| Stream set-up | `lib.rs` (`stream_new_messages`), `email.rs` | - | start the watcher, then the stream task on top of it | either spawn may fail; a sequence number is used in another session than the one it was heard in | both parts behave as they do alone; what is delivered is what was announced; nothing comes twice |
| Session generator | `email/login.rs` | - | login over TLS | pure I/O | - |
| Listener | `main.rs` | the message stream, Ctrl-C | wait for mail or Ctrl-C, parse, submit, shut down | a Ctrl-C is noticed in one of two waits only; requests whose answer is lost | every message is dealt with, YNAB records each transaction at most once, a second Ctrl-C forces the end |
| Parsers | `parse.rs`, `parse/citi.rs`, `parse/td.rs` | - | mail to transaction, or an error | mails of unexpected shape | total; the HTML part nearest to the root is read; only the first account of the mail's bank is billed |
| YNAB client | `ynab.rs` | - | convert the amount, submit | checked 32-bit arithmetic | exact milliunits or an error |
| Configuration | `config.rs` | - | deserialisation, defaults | - | - |
| Configuration builder and setup | `config/build.rs`, `bin/setup.rs` | partially filled configuration, what was chosen so far | the builder's methods, in any order; the wizard's dialogue | order of calls, empty and one-element lists, refusals half-way | what was given or chosen is what is built, or an error says what is missing; the dialogue ends |

The main program owns a message stream; the message stream's task owns the
watcher's stream; both streams implement `CloseableStream`.  Sequence numbers
flow up one unbounded channel, messages up the next; stops flow down as dropped
`StopSource`s; `close` joins from the outside in.

## Modules

| module | models |
|---|---|
| `CloseableStream` | the contract: workers, the items they put into the stream, the owner's close or drop, the close that resolves when no worker is left, or none that it could wait for |
| `CloseableStream_proofs` | its theorems |
| `MessageStream` | `email.rs`, `message.rs`, `register.rs`: stream task, fetch tasks, registry and its lock, owner |
| `MessageStream_proofs` | its theorems |
| `InboxWatch` | `inbox.rs` and the modules below it: the watch task, with an external server |
| `InboxWatch_proofs` | its theorems |
| `Ynabifier` | `lib.rs`: the watcher and the message stream composed, and what mail a sequence number names when it is fetched |
| `Ynabifier_proofs` | its theorems |
| `Ynab` | the conversion of amounts of `ynab.rs`, in checked arithmetic, and its reference definition |
| `Parsers` | `parse.rs`, `citi.rs`, `td.rs` and `try_parse_email`, as operators over abstract mails |
| `Parsers_proofs` | the theorems about these operators and those of `Ynab` |
| `Parsing` | one mail from the parsers to its milliunits, and the reference definitions |
| `Parsing_proofs` | its theorems |
| `MCParsers` | the mails TLC takes |
| `Listener` | `main.rs` on top of `CloseableStream` and `Parsers`, with YNAB, the user and the signal driver |
| `Listener_proofs` | its theorems |
| `MCListener` | the mails and accounts TLC takes |
| `Builder` | `config/build.rs` and the types of `config.rs`: the builder's methods |
| `Setup` | `bin/setup.rs`: the wizard, on top of `Builder`, or any other program that uses the builder |
| `Setup_proofs` | the theorems about both |
| `MCSetup` | the budgets and accounts TLC takes |

`Listener` sees its stream as `CloseableStream` (`Stream`), the specification
that `MessageStream` is shown to implement, which in turn has its watcher's
stream as environment, whose task `InboxWatch` models.  `Ynabifier` puts the two
together: each is the other's environment, and `ImplementsParts` says that
neither leaves what its own module allows it.  The contract is where the two
halves of the program meet (see Proofs): of its workers the `Feeders` may put
items into the stream (`Feed`, the `Stream` that the trait extends) and start
others, as long as one of them runs; when none does the stream is `Dry` and its
reader may see the end.  One worker may be the keeper of the others, the one that
close waits for; when it dies (`Break`) the contract is `broken` and a close
resolves with nothing to wait for.  In the message stream that is the stream task,
and the feeders are this task and the fetch tasks; the watcher's stream has one
worker and no keeper.  `items`, how much was put in so far, is `Len(sent)` of the
watcher, `Len(sunk)` of the message stream and `Len(inbox)` of the listener.

Operators that begin with "Defect:" in their comment are wrong variants of the
definition that follows them.  No specification uses them; each is what some
property was seen to reject, so that the property is known to depend on the
code it is about.

### How the code becomes actions

A Rust task is sequential between two awaits, so an action is what a task does
from one await to the next; the program counters (`loop`, `fpc`, `wpc`) name
what is awaited.  `select!` polls its branches in random order, so when the stop
token has resolved and the other future is ready too, both actions are enabled.
`Shared<StopToken>` and the clones of a token are one flag: the owner is no
longer `reading`.

`MessageStream`.  Fetch `f` is the task for the `f`-th sequence number taken;
the channel from the watcher is FIFO, so `announced` and `taken` stand for it,
and `Yield` and `UpstreamEnd` are the watcher as its stream shows it.  A fetch
task waits for its registry token (`token`), logs in, EXAMINEs, fetches, logs
out (`login` to `logout`), sends the message and unregisters.  `StopSetup`
drops the session while it is set up, since `generate_fetchable_session` runs
under the stop; the fetch runs under the stop too but is followed by the logout,
which does not.  `LockHeld` is true from the moment the stream task locks the
registry for `join_all` until the join is over, because the guard is a temporary
of the whole `if let`.  `close` keeps the receiver until it is done, so a send
fails only when the owner dropped the stream or its close resolved early.
`join_all` joins one handle after another, in the order of a hash map
(`register.rs:63-67`); the model takes any finished one next, which passes through
more orders and ends in the same state.

Any task of a message stream may die: it panics, or its executor kills it at an
await.  A fetch task (`Kill`) drops its session, its join fails, and its handle
stays in the registry; if it dies before its token is sent, sending it panics
(`RegisterPanics`, the `expect` at `email.rs:273`) and kills the stream task as
well.  The stream task (`StreamDies`) drops what it owns: the registry and its
lock, and the watcher's stream, which stops the watcher unless it was closed
already (`diedOpen`, `diedClosed`).  A fetch task that still waits for its token
then panics (`TokenLost`, the `expect` at 259); the others run on, and close, which
waits for the stream task only, resolves at once (`email.rs:129-133`).  So what
close says of the resources holds short of such a death, and `StopWindsUp` says
what holds in any case: the tasks wind up in the end.

`InboxWatch`.  `setup` is `watch` up to the spawn.  `prepare` and `idle` are the
two awaits of `watch_session_cell_for_new_emails`, `reinit`, `reclaim` and
`errLogout` those of `watch_session_for_new_emails_until_fail`, `newSession`,
`examine` and `backoff` those of `get_session_with_retry`, `logout` the end of
`watch_for_new_emails`.  `idle` distinguishes an idler whose IDLE was not
written (`fresh`), was written (`sent`) and was accepted (`prepared`, the flag
of `IdlerCell`).  The server is external: mails arrive, are deleted by other
clients, and are reported by EXISTS (the size of the inbox, hence one for
several arrivals) and EXPUNGE while IDLE runs; it may say BYE, and every command
may fail.  After a deletion the server may report the new size, which RFC 3501
(7.3.1) allows.  `async-imap`, external as well, keeps what it reads before the
continuation of IDLE and before the completion of DONE to itself, and panics
when DONE is asked for before IDLE was written; the model allows it an error or
a success there too.  `lost` is a history variable: mail that will not be heard
of.  A failure in `PrepareFails` leaves the idler in the state it was in.

`Ynabifier`.  Both parts are instantiated, with two definitions in place of
variables: `watchOwner`, the phase of the watcher's stream, follows from where the
stream task is, which owns it, and the message stream's `upstream` from whether
the watch task is over.  `announced` is the length of the channel `sent`.
`stage` is `stream_new_messages`: a stream task that cannot be spawned drops what
was to be moved into it, the watcher's stream included.  A fetch names its mail
when its own session EXAMINEs the inbox (`named`); from there on the server
reports no deletion to that session before it has answered the FETCH.  A number
beyond the end of the inbox names nothing, and its fetch fails.  The
composition has no actions of its own but the spawns: every other step is one of
a part's, guarded by the stage and recorded in `named`.

`Builder` and `Setup`.  `Option`s are sets of at most one element.  `given`
records the arguments of all calls.  A method of the builder takes it by value,
so a failed one leaves the caller an error and no builder.  The wizard is one
program counter (`place`); `Exit` is `expect_exit`.  A prompt repeats until its
answer is acceptable, and a refused answer changes nothing, so only acceptable
answers are steps.  YNAB, external, answers each request with a list without
repetitions, an empty one included, or with an error.  Several accounts are
picked by a list of numbers, which may name one twice; one that is found alone is
confirmed or declined, and the wizard goes on either way.  `Placeholder` is the
IMAP server the user is to fill in.  A library user (`place = "library"`) calls the
methods in any order.  The end of standard input, at which `text_io` panics,
is left out, and so is writing the YAML, which cannot fail for these types.

`Listener`.  `poll` is the start of a turn of the loop, `wait` its `select!` with
both futures polled, `submit` the await of the request, `closing` the second
`select!`.  tokio installs its handler when a `ctrl_c()` is first polled
(`Listen`) and keeps it: before that Ctrl-C kills the process, afterwards it does
nothing but what the program makes of it.  A signal is broadcast to the futures
that exist when the driver gets to it; leaving a `select!` drops its future, and
any notification with it.  `inbox`, `read` and `fate` are the messages the stream
held, those taken, and what became of each.  A request is on the `wire` until
YNAB records it, which may be after its client gave it up or the process ended,
or never: the answer `SubmitOk` presupposes the record, `SubmitFails` may come at
any time.  Ends of the process drop the stream.

The stream is the contract's, its death included: `BreakWorker`.  `error` is the
`?` at `main.rs:80`, with which the process ends.

`Parsers`.  A mail is a record of what decides its fate: whether it is a MIME
message, its sender, and the tree of its parts, each with the texts that the
parsers look for.  `mailparse`, `scraper` and `regex` are abstracted to the
presence or absence of what they find.  `find_html_subpart` is the loop over
`to_visit` turn by turn.  `try_parse_email` returns the account with the answer of
its parser, as the code returns it with the transaction.

`Ynab`.  An amount is its dollar signs, its digits, and whether there is anything
else in it; an `Option` is a set of at most one element, so that the chain of
checked operations stays a chain.

## Runs

| run | shows |
|---|---|
| `message_stream` | types (in `IInv`), registry, sessions, delivery, clean-up, implementation of the contract (safety); only a death ends the lock cycle, and the cycle is the only thing that holds up a close, the winding-up after it, the end of the stream or a fetch |
| `message_stream_close` | **violation**: the close of a stream with a fetch in flight never resolves |
| `inbox_watch` | types (in `IInv`), ends only on stop, sessions, accounting of mail, no repeats, backoff; stop leads to the end, failures to a new IDLE; implementation of the contract, liveness included; all three but for a server that never answers DONE or LOGOUT |
| `inbox_watch_done` | **violation**: DONE for an IDLE that was never written |
| `inbox_watch_missed` | **violation**: new mail that is never announced |
| `inbox_watch_not_new` | **violation**: an old message announced as new |
| `listener` | the ledger of YNAB against the mails, what the log claims, no message lost or stuck behind another that YNAB refuses, the end of the program, one Ctrl-C never skips the clean-up, a regular end leaves no worker (but after the death of their keeper) and no half-done message |
| `listener_ctrl_c` | **violation**: two Ctrl-C and a program that goes on |
| `parsers` | the search finds the HTML part a level-order reading finds, the account that is billed is the first of the mail's bank and what is found depends on no other bank's, amounts are exact or refused |
| `parsers_panic` | **violation**: a Citi mail without its table makes the parser panic |
| `ynabifier` | both parts as they are alone (safety); a delivered message is no further from the mail that was announced than mail was deleted, and never an older one; without deletions no mail is delivered twice and no old one at all; a resolved close leaves no task and no session on either side, as far as the stream task lived |
| `setup` | the builder under calls in any order forgets nothing and names what is missing; the wizard's configuration is what was chosen, its only late failure is the lack of accounts; the dialogue ends |

Bounds.  `MaxYields = 2`: two fetches, so that one can be in any state while the
other is spawned, registered, joined or killed; more of them only repeat this,
and the safety properties are proved for every number.  `Mortal` names the tasks
that may die: all of them in `message_stream` and `ynabifier`, none where the
counterexample of `message_stream_close` must not rest on a death; the proofs have
any.  `MaxMail = 3` with
`OldMail = 1`: two arrivals, enough for one EXISTS to cover two and for a repeat
across sessions; `MaxExpunges = 1`; `MaxFaults = 3`: enough for an outage whose
first attempt to reconnect fails and for another one after it.  `listener` has
`MaxMails = 2`, one message that is being submitted and one behind it, of five
kinds, one for each thing that can become of a mail: submitted or failed,
unconvertible, zero, ignored, a panic; `MaxPresses = 2`, the Ctrl-C
that stops and the one that forces; two workers of which one is a feeder, so that
the stream ends with a worker left and winds up piecemeal.  `parsers` has trees of three levels with at most two children a part
(`MaxParts = 7` visits all of them), with two kinds of HTML parts so that taking
the wrong one shows.  Integers are narrow there: `MaxI32 = 31999` with amounts up
to `MaxDollars = 40` reaches every overflow of `i32` (in `listener`, 4999 lets
one mail overflow), and `ConversionIsExact` holds for every width.
`ynabifier` has two new mails, one deletion, two fetches and no failures of the
watcher: enough for a number to name the mail that moved to its place,
or none; failures are in the runs of the parts.  The run's constraint `Apart`
explores no step after a deletion together with a close, a drop or a death of the
stream task (five times the states: whom a number names after a deletion and what a
close leaves behind speak of different halves of the state).  The theorems have
neither bound.  `setup` has two budgets, one with two accounts and one with a single
one, so that every branch on the length of a list is taken, and up to two picks
or library accounts, the same one twice included.  Deadlock is
not checked: the streams, the program and the wizard end, and the message stream's lock
cycle is the subject of its properties.

Fairness.  The executor polls every task that can proceed (weak fairness of each
task).  Nothing in the code sets a timeout for a command to the IMAP server.
Where the stop is looked at while a command is awaited, its answer does not matter
to a stop; DONE and LOGOUT of the watcher are awaited without, so `InboxWatch`
assumes no answer to them, and its liveness properties have a server that is
silent for ever as their excuse (`[]AwaitsServer`).  That every other command is
answered or its connection breaks is an assumption, about a fetch task's LOGOUT
too.  The step that notices the stop is strongly fair: `select!` chooses at
random, so the stop cannot lose for ever.  `MessageStream` assumes that a watcher
told to stop ends, which is what `StopLeadsToFinish` establishes for a server that
answers.

`Listener` assumes that the main task is scheduled, that the signal driver
broadcasts, and of its stream only that a close is noticed that has nothing to wait
for (`Resolve`).  It does not assume that the workers wind up, since the first
finding below is a case in which they do not: `[]AwaitsClose`, a wait for the
workers during which nobody presses Ctrl-C again, is the excuse of
`IdleCtrlCEndsProgram`.  Nor does it assume that a request to YNAB is ever
answered, since the client sets no timeout: `[]AwaitsYnab` is the excuse of
`EveryMessageIsDealtWith` and `EndOfStreamEndsProgram`.  The other three exceptions of
the former are spelled out in it: the user stops the program, `ctrl_c()` fails, a
parser panics.  `EndOfStreamEndsProgram` speaks of streams of which no worker is
left, or none that close waits for.  Only the counterexample of `listener_ctrl_c`
assumes an answer of YNAB and a stream that winds up, so that it rests on neither.

`Setup` assumes that its user gives an acceptable answer in the end; its
requests end, since a blocking request has a timeout by default. The composition
states no fairness: the watcher's is about itself and its server, and gives
`StopLeadsToFinish` without any help from the message stream, which, with a server
that answers, is what that one assumes of its watcher, so the argument is not
circular. No request need
succeed, and no task need die. Nobody is
assumed to close a stream or to press Ctrl-C, and no mail to arrive. `Recovers`
speaks of failures that cease, by the bound on them.

## Findings

* `email.rs:285`: `join_all` runs under the registry's lock, which each fetch
  task needs to unregister (264-266).  A close that meets a fetch in flight hangs
  (the main program leaves it with a second Ctrl-C); so does the end of the
  stream after the watch task died.
* `inbox/idle/state.rs:104`: a cell counts as idling once it has an idler, not
  once IDLE was sent.  When writing IDLE fails, or a stop wins against it, DONE
  is asked of an idler that never began.
* `inbox.rs:311`, `379-384`: only an EXISTS heard during an accepted IDLE is
  passed on, and only for its last message.
* `inbox.rs:329`: any EXISTS is taken for an arrival.
* `main.rs:85`: a Ctrl-C that comes while a transaction is submitted, or together
  with a message that wins the `select!`, is forgotten, so that the second one
  (the comment at 108) need not end the program.
* `parse/citi.rs:47`: the parser unwraps the first presentation table, where
  `parse.rs:31` promises an error.

## Proofs

`MessageStream_proofs`, for every `MaxYields` and `Mortal`.  None of the safety
properties is inductive as it stands: that the join waits for every live task
rests on which states of the stream task allow which states of the fetch tasks
(`token` only while it registers that very task or is dead, every live task
registered otherwise), and that a handle is only ever registered for a taken
number.  `Inductive` states these facts, `IInv` joins them to the types and three of
the properties, and the proof goes action by action.  From it follow
`TypeCorrect`, `RegistryIsComplete`, `NothingFetchedIsLost`, `SessionsAreLoggedOut`,
`CloseCleansUp`; `Deadlock` (nothing but a death ends the lock cycle) is an action
property from the same invariant; `Implementation` is the step simulation into
`CloseableStream`: a spawn is a `Start`, a finished or killed fetch task a `Finish`,
the death of the stream task a `Break`, a message that is sent a `Feed`, and the
resolved close a `Resolve`, because by the invariant no worker is left or the stream
task is dead.

`InboxWatch_proofs`, for all values of its four bounds.  The invariant `IInv`
adds to the types where the task holds a session, in which states of the idler
it can be, and that without a failure it is on no path of failure.  Theorems:
`TypeCorrect`, `NeverGivesUp`, `SessionsEnd`, `Backoff`, and `Implementation`
(safety).  `NoMailForgotten` follows a mail from the inbox over the wire to the
channel or into `lost`; a deletion moves the mails behind it, so its invariant
is stated for the inbox that is left.  `NumbersGrow` rests on `Growing`: without
deletions the numbers on the wire grow, those in the channel grow, and the wire
is above the channel and no higher than what the server has told, which no new
session takes back.

`Ynabifier_proofs`, for all values of the five bounds. The proof instantiates
the proof modules of the parts (`WatchP`, `StreamP`): a step of the composition
is a step or a stutter of each part (`WatchSimulates`, `StreamSimulates`), which
gives `Implementation`, and with it every invariant proved of a part.
`Contract` says of the whole what `Implementation` of the message stream says of
that part, the watch task being one of its workers; `CloseCleansUpBoth` needs
both parts: the message stream's close waits for the watch task, and that ends
logged out.  Both theorems take the death of the stream task in.  `TypeCorrect` adds `Stages` and `Naming`; `Naming` needs what
`InboxWatch_proofs` shows in `NumbersNameStep`: the inbox is in order of
arrival, every arrival is in it or was deleted, so that a place can only have
moved as far as mail was deleted, and the place that a number names holds the
mail it was told for or one of so many later ones.  `FetchesTheRightMail` and
`NewMailOnce` follow, the second from `NumbersGrow` and from the message stream
sending each fetch's message once.

`Setup_proofs`, for any servers, ports, budgets, accounts, owners and parsers:
`BuilderCorrect` for every order of calls, `WizardCorrect` with an invariant that
says what is known at each place of the dialogue and which calls were made.

`CloseableStream_proofs`, for any workers and feeders: `ClosedStaysIdle`, and
`DryIsTheEnd`, which is why a reader may stop at the end of a stream.

`Parsers_proofs` is about operators, so its theorems are of the form ASSUME ...
PROVE.  `ConversionIsExact`: the checked chain against the exact amount, for
every `MaxI32`; it rests on each intermediate value being no farther from 0 than
the last.  `OneParserDecides`: the parser of a mail's sender decides what is found
in it, and no account with another parser does.  It says nothing of the account,
which is the first with that parser (`FoundForTheFirst`): with two accounts of one
bank their order decides which of them is billed.  `OnlyCitiPanics` says of exactly which mails the
last finding is true, and that no other mail ends the program that way.

`Parsing_proofs`, for any mails, account lists and bounds: `Exactness` and
`FirstAccountIsBilled` follow from these.  `SearchIsBreadthFirst` is about a recursion
over data.  The library's theorems on induction and recursion take operators as
parameters, which the provers cannot instantiate, so `NatInductive` and `Recursion`
of `Parsers_proofs` state what is needed of them for sets and functions; they
rest on every set of numbers having a least one (`LeastElement`).
`SearchGoesByLevels` says by induction: after `n` turns what is left to visit is the rest of a level followed by what is below
the parts already visited, and none of these is HTML; so when the search ends it
stands at the leftmost HTML part of the highest level that has one, or has
passed them all.  A level is flattened by a fold, of which `Building` and `Built`
say how long its result is and what is where in it.  `Reading` states this of the
mails of a run.  That the search ends within `MaxParts` turns is part of what a
`Mail` is, and TLC evaluates it (`MailsAssumption`).

`Listener_proofs`, for any accounts, mails, workers, feeders and bounds.  The invariant
`IInv` joins the types and the properties with `Control` (how much is dealt with
at each place of the main task, why the loop was left, that every Ctrl-C on its
way was pressed once, and that a regular end waited for the close) and `Requests`
(a transaction on the wire is faithful, the only one of its message, and not
recorded yet): a record is faithful only because the request was, and a forced
end takes two presses only because a notification is counted once.
`ConversionIsExact` makes a submitted amount exact.  Theorems: `TypeCorrect`,
`LedgerCorrect`, `FatesCorrect`, `NothingLostAtTheEnd`, `CleanUpIsNotSkipped`,
`EndIsClean`.

The whole program.  Two results join the halves at the contract: by
`Contract` of `Ynabifier_proofs` the stream that `stream_new_messages` returns, with the
watch task, the stream task and the fetch tasks as its workers and all but the
first as its feeders, is a `CloseableStream`, and by `UsesItsStream` of `Listener_proofs` the main program takes no
step with its stream that a `CloseableStream` does not allow.  Hence what is
proved of the listener holds of it with the real stream, as far as safety goes:
the invariants of `Listener` speak of the stream only through `phase`, `active`,
`broken` and the messages that were put in.  What those messages are, `FetchesTheRightMail` and
`NewMailOnce` say; and that the end of the stream is seen only when no feeder is
left and everything was read, which `EndOfStream` assumes, is how a channel
behaves whose senders are held by the feeders.  There is no module of all three: the
listener's state is disjoint from that of the streams except for the contract's.

The assumptions are those on the constants: bounds are natural numbers
(`MaxYieldsAssumption`, `ConstantsAssumption`, `BoundsAssumption`,
`MaxI32Assumption`, `MaxPartsAssumption`, `MaxDollarsAssumption`), the mails
there at the start are no more than there ever are, the default port is a port
(`BuilderAssumption`), every account belongs to a budget and both are finitely
many (`SetupAssumption`), accounts have parsers (`AccountsAssumption`,
`AccountListsAssumption`), parts of mails are parts, with parts below them
(`PartsAssumption`), and mails are made of them and have no more than the bound
lets the search visit (`MailsAssumption`).

Only model-checked: all liveness, which is beyond the prover.  Every invariant of
a passing run is a theorem as well, and so are the safety part of the two
refinements of the contract and the one of the composition.

## Not modelled, and what is left

The contract, the two streams and their composition, the listener, the parsers
with their arithmetic, and the builder with its wizard are modelled.  What is
not:

* TLS and authentication (`email/login.rs`) are I/O; a login is a step that
  succeeds or fails.
* Reading `config.yml` into the types of `config.rs` is serde's work, and the
  accessors are projections.
* Logging, prompts and wording.
* A watch task that its executor kills in the middle: of its deaths `InboxWatch` has
  the panic that the code can run into.  To the message stream, which lets its
  watcher end at any time, it makes no difference.
* `Registry::cancel_all` (`task/register.rs`) is not called.
* MIME, HTML and regular expressions are libraries, abstracted to what they find.

Three hazards have no property, since nothing in the code promises what one could
state: the number of fetch sessions has no limit, a session whose EXAMINE fails is
dropped without LOGOUT, and a request to YNAB may be awaited for ever.  Two of
these are what the properties name as their exceptions.

What could be added: the liveness of the composition under the fairness of its
parts, and a count of the sessions that are open at once, for which the code has
no limit but the number of mails.
