# A verification project for libbtctools

libbtctools scans a network for bitcoin miners and configures, reboots and
upgrades them. This directory holds TLA+ models of its own logic, TLC
configurations that check them on small instances, and theorems proved with
TLAPS for every value of the constants. Paths are relative to the repository;
`PROJECT.json` lists components, runs, the source lines behind each definition,
hazards, findings and theorems in machine-readable form.

- [1 The system](#1-the-system)
- [2 The models](#2-the-models)
- [3 Runs, bounds and fairness](#3-runs-bounds-and-fairness)
- [4 What is proved](#4-what-is-proved)
- [5 Where code and text disagree](#5-where-code-and-text-disagree)
- [6 What is not modelled](#6-what-is-not-modelled)
- [7 What could come next](#7-what-could-come-next)

## 1 The system

A scan runs as a chain of coroutines on one thread:

    IpGenerator ──IPs──▶ MinerScanner ──requests──▶ Client ──▶ Session (asio)
                             │   ▲                    │
                  makeRequest│   │step, canYield      │responses
                  makeResult ▼   │                    ▼
                         ScriptLoader ──OOLua──▶ HelperBase ──▶ executor of the miner's type
                                                 (scanner, configurator, rebooter, upgrader)
    MinerScanner ──miners──▶ the application, or MinerConfigurator, the same
                             driver over miners

There are no threads. What makes the code hard is the order in which asio
delivers completions, timers and cancellations; coroutines that stop at a yield
and may never be resumed; state that several contexts share; and retries that
re-run half of a step.

| Component | State | Operations | What makes it correct |
|---|---|---|---|
| IP ranges (`src/utils/IpGenerator`) | the next and the last address; the list of generators and its running total | construct, `genIpRange` with and without a step, `next`, `addIpRange`, `clear` | each address once, no wrap at 255.255.255.255, the total agrees with the list |
| TCP session (`src/tcpclient/Session`) | `running_`, sockets, two timers, the request, the response, the place in the uploaded file | `run`, every handler, `yield`, `clean`, `resumeSession` | one response, true to what happened, in time, and nothing left behind |
| TCP client (`src/tcpclient/Client`) | the `io_service` and the response coroutine | `run`, `addWork`, `stop` | every submitted request reaches a session |
| Drivers (`src/miner/MinerScanner`, `MinerConfigurator`) | position in the source, contexts in flight, the client | `run`, `doNextWork`, `yield`, `stop` | at most and, while there is work, exactly `stepSize` contexts; nothing lost or repeated |
| Script loader, work context (`src/miner/ScriptLoader`, `common`) | step name, `canYield`, request, miner | `makeRequest`, `makeResult`, accessors | the stat tells scripts what happened |
| Script engine (`HelperBase.lua`, `ExecutorBase.lua`) | next step, retry record, executors by IP | `makeRequest`, `makeResult`, `setStep`, `retry`, `stopRetry`, `doRetry`, `setExecutor` | the right step parses each response, retries are bounded and invisible to scripts, every error ends the context |
| Upgrader scripts (`scripts/upgrader`) | position, polls, waiting mark; shared: upload slots in an option | the steps of three scripts | uploads bounded, slots returned, firmware sent once, no false success, nobody waits for ever |
| Scanner scripts (`scripts/scanner`, `MiningProgram.lua`) | position, request address, what is known of the miner, program names still to try | the steps of eight scripts, the hand-over from one to the next | a scan ends; each request goes where its script wants it; no type that nothing showed |
| OOLua binding (`src/lua/oolua`) | the weak table of userdata, flags of each; class tables and metatables; registry slots; the Lua stack | push, pull, collect; call functions and constructors; register and look up; references and tables; chunks, scripts, errors | one Lua value for one object, deleted once; arguments and results in place; the stack as it was |
| Configurator and rebooter scripts | position, data of the miner | the steps of six and six scripts | settings written are those read and changed; reboot polls end |
| `utils/http.lua`, `utils.lua` | nonce counter; options | parse, make and authenticate requests | lengths match, digests are right |
| `OOLuaHelper`, `Crypto` | process-wide options, the script loader | export the API, run a file; RSA, hashes | a loader that fails says why |
| other vendored Lua, demos, tools, build | | | third-party code, input and output |

Interactions that matter: a driver creates a client whose *request source* is a
coroutine over the driver's own input; responses come back in completion order,
each carrying its context; the driver calls `makeResult` and at once
`makeRequest` with nothing of another context in between (that is why slots
cannot be taken twice); at every yield the application has control and may call
`stop()`; a session's response belongs to the consumer, who deletes it. A call
into a script crosses OOLua: the context is pushed as a userdata Lua does not
own, errors stay in the Lua state, and the drivers do not look at the result.

The hazards this exposes the code to are in `PROJECT.json` under `hazards`, each
at its line with the properties that would catch it going wrong.

## 2 The models

Modules are written to be proved about: parameters are constants with named
assumptions, there are no RECURSIVE operators, and an action is one operation,
handler or loop iteration. Operators keep the code's names. Those marked
*Mutant* are not part of a model: they are plausible bugs, each of which breaks
a property.

**IpRange, IpGenerator, IpGeneratorGroup** (`IpGenerator.cpp`). `IpRange` has the
constructor and the 32-bit arithmetic on addresses `0..Top`, where `Top` stands
for 255.255.255.255, which is also what `inet_addr` returns for text it rejects.
`IpGenerator` is one object and a client that mixes `next()` with sources opened
by `genIpRange`; a source is a coroutine that holds a yielded address and moves
the generator only when it is resumed, and may be dropped anywhere (`Take`,
`Resume`, `Drop`). `IpGeneratorGroup` is the list with its running total
`ipNumber_`, which the two `genIpRange` overloads update at different points.
The text of a range is abstracted to the two addresses it converts to.

**SessionContract, Session** (`Session.cpp`). One request of any kind: scheme, timeouts,
final or not, plain or file upload. An operation or timer is waiting, done or expired
with its handler still queued, or aborted: a queued handler runs after `clean()`
cancelled, which is the interleaving the `running_` tests exist for. A TLS shutdown in
`clean()` may return at any time or never (`shutdownReturns`). Each handler of the code
is an action (`onConnect`, `onHandshake`, `onWritten`, `onRead`, `onTimer`, `onDelay`),
their common early returns are `onFailure` and `onIgnored`. Data is abstracted to
pieces: the upload is a prefix, pieces of the file, a suffix. `SessionContract` is what
users rely on: *submitted → open → answered* once, or an exception from the synchronous
resolve.

**WorkPool, MinerScanner** (`MinerScanner.cpp`, `Client.cpp`). One loop iteration
per action: `FillNext`/`FillDone` (request source), `onResponse`, `doNextWork`,
`runReturns`. Scripts enter by what the driver sees (`stepName_ = "end"`,
`canYield_`), sessions by `SessionContract`; a submission may throw (`AddWorkThrows`,
which leaves the source where it was), and so may a delayed session inside the event
loop (`delayedThrows`). The consumer may stop at any yield.
`WorkPool` is the abstract specification: each item admitted or dismissed once,
at most `Limit` at a time. `MinerConfigurator.cpp`, the same code with miners
for IPs, is in `ScriptHost`.

**ScriptContract, Executor** (`HelperBase.lua`, `ExecutorBase.lua`). A script is a
set of stages, each a make step that fills the request and a parse step that gets
the response and picks the next stage, ends, throws, or names no step at all
(then `makeRequest` runs it once more, without arguments, and ends: `ParseNothing`).
The make steps of `Unsure` stages may leave the request as it was: those are the ones
that call `makeAuthRequest` or `makeLuciSessionReq` and then `setStep`, which overrides
the "end" these set for a missing password. `content` is the stage that filled the
request, `maker` the one whose make step had it submitted. `makeResult` retries
refused sessions (`retry`, `doRetry`) or stops the retry and parses. History
variables `wanted` and `sends` record the delay the script set and how often a
request went out. `ScriptContract` is what `MinerScanner` assumes of a script.

**Upgrader** (`scripts/upgrader`). Several miners of any mix of types; a miner's
position `at` is the parse step that waits for a response, and an action is a
parse step with the make step it leads to. `slots` is the option
`upgrader.sendFirmwareStepSize`. `Uploading` are the miners whose firmware is on
its way; `Lost` those whose slot was not given back. Retries are inlined: `Retry`
resends with no script code run, `Handle` lets the parse step have the response.
Replies are reduced to what the steps tell apart. `BosHttpLuci` says "rebooted"
where the others say "upgraded"; the model calls both `upgraded`.

**Scanner** (`scripts/scanner`, `MiningProgram.lua`). The scan of one address
through `HttpAutoDetect`, `GenericCgminerApi` and the script of the type it found.
A position is a parse step that waits; the tables `AntminerSteps`, `BosSteps` and
so on say where a reply of each script may lead, and the steps that do more have
actions of their own: the hand-over (`setExecutor`, `FindMore`), the type
(`TypeWhenMade`, `parseStats`, `parseMinerType`, `parseWhatsMinerSession`) and
the pages whose path holds a program name (`ProgramPages`, `getNext`). `evidence`
is the history of the types the device showed itself to be.

**ScriptHost** (`MinerConfigurator.cpp`, `ScriptLoader.cpp`, `OOLuaHelper.cpp`,
`HelperBase.lua`, OOLua's chunks, scripts, functions and errors). The driver of
`MinerScanner` again, now with a Lua state: a constructor that may fail at each
stage, calls of the script that fail before, in the middle of or after what they
set, an error that is kept in the registry or stays on the stack (memory), and
the table of executors by IP, in which a miner whose IP was given before finds the
executor, and so the context, of the other (`Owner`). If that context was deleted,
the call uses freed memory (`useDeleted`) and the behaviour ends there, as nothing can
be said of the program after it. Assumed: the stack takes more than two values, and
helper functions return nothing, as they do.

**Proxies** (`proxy_storage`, `proxy_class`, `push_pointer_internal`). C++ objects at
addresses, shared by an object, its bases and its first member; userdata with
pointer, class and flags; the weak table with its collision tables; pushes with
any ownership, C++ deleting, Lua dropping, and a collector that makes entries
unreachable and finalizes them at any time in between. OOLua leaves much to the
program, so the model has one of a set of programs: which classes it makes, whether
it passes ownership, whether it deletes an object whose userdata is still there. The
assumptions on classes and programs are named one by one, with what each is for.

**CppTypes, ProxyCall** (`lvd_type_traits.h`, `oolua_traits.h`, `type_converters.h`,
`proxy_caller.h`, `proxy_constructor*.h`). `CppTypes` is the algebra of the type
traits on declarators; `ProxyCall` is one call: the check of `self`, the
arguments pulled one by one, which may raise an error with some already taken,
the function, the results pushed; and the choice of a constructor by type tests.

**StackAccess, References** (`oolua_pull`, `oolua_push`, `oolua_ref`, `oolua_table`).
`StackAccess` is what a push or pull does to a stack. `References` has references
that own registry slots, in one or several Lua states, and the tables read and
written through them, with pushes and pulls that fail.

**ClassHierarchy, ClassTables** (`proxy_class.h`, `oolua_registration`,
`proxy_tag_info.h`). `ClassHierarchy` is the classes a program exports, with their
bases; `ClassTables` the method table and metatable of each, filled at registration
from the class, its bases and its tags, changed by scripts, and the lookups that
search the bases.

How they compose: `Session` implements `SessionContract`, which `MinerScanner` assumes
of a session; `Executor` implements `ScriptContract`, which `MinerScanner` assumes of a
script; `MinerScanner` implements `WorkPool`, which `Upgrader` assumes of its driver;
`ScriptHost` keeps `ScriptContract` for each miner that is alone at its address,
although its calls may fail and other addresses may be repeated. Each side is checked
and the first three implementations are proved.

## 3 Runs, bounds and fairness

| Run | Instance | States | Shows |
|---|---|---|---|
| `session` | every request kind, ≤2 file pieces, ≤2 response pieces | 33 412 | `OneResponse`, `WireIsTrue`, `TimedSessionAnswers`, `AnsweredSessionDrains`, refinement of `SessionContract` |
| `session_resume` | ≤1 piece each | | *violation*: `ResumeResends` |
| `miner_scanner` | driver: 4 items, 2 places, ≤3 rounds; generator: 6 addresses, steps 0–3, ≤2 dropped sources; group: 2 ranges in 5 addresses, ≤1 dropped | 328 825 | `PoolInv`, `DoneMeansAll`, `ScanTerminates`, refinement of `WorkPool`; `GeneratorInv`, `Exhausted`; `GroupInv` |
| `executor` | any script of 3 stages, two of them unsure to fill the request, delays 0 and 5, 2 retries; the scan scripts, 2 retries | 3 008 | `ExecutorInv`, `DisabledForGood`, `RetryEnds`, refinement of `ScriptContract`; `ScanInv`, `ScanEnds` |
| `executor_delay` | the same | | *violation*: `OriginDelayIsScripts` |
| `scanner_https` | the same | | *violation*: `WhatsMinerUsesHttps` |
| `upgrader` | two Antminers, a BosHttpLuci and an AnthillOS, 3 places, 1 slot, 1 retry, poll limit 0 | 193 224 | `UInv`, `AntminerGate`, `UpgradesEnd` |
| `upgrader_leak` | Antminer and BosHttpLuci | | *violation*: `WaitsOnlyWhenFull` |
| `script_host` | 3 miners, the third at the first's address, 2 places, 3 values on the Lua stack, ≤3 memory errors; four classes, one of two bases | 105 753 | `HostInv`, `HostKeepsContract`; `LookupIsSound` |
| `proxies` | 3 userdata, 1 cell; a chain of three classes with ownership; a class of two bases, with dangling userdata and without | 110 030 | `ProxyInv`, `OneOwner`, `OneUserdata`, `ConstIsKept` |
| `proxy_call` | every trait on the types it may have, two parameters, a const and a plain userdata; constructor blocks | 340 027 | `ArgumentsInPlace`, `ResultsAreTrue`, `NeverUnowned`, `ChosenConstructorRuns` |
| `references` | two references in two universes; one Table with a coroutine; 3 registry slots | 57 046 | `RefInv`, `NoOtherFollows`, `StacksRestored`, `WritesItsTable` |

Each invariant named for its module (`PoolInv`, `UInv`, `HostInv`, ...) is the
conjunction of its type invariant and the named parts listed there. Deadlock is
checked but for `proxies` and `references`, whose programs may stop anywhere;
`Finished` is the stuttering of a program that has returned.

*Two programs in one run.* `miner_scanner`, `executor`, `script_host` and `proxies`
check two or three independent instances: a variable (`object`, `program`) chosen
at the start says which one moves, and the others stay as they began (in `proxies` it
is the C++ program itself, of which there are three). The
properties say for which program they speak. `references` has one
instance for both of its programs; its next-state relation keeps to the states of
the one or the other, which are few of all the states.

*Why the bounds suffice to see the interesting cases.* Six addresses give empty,
one-address, reversed and unparsable ranges and both neighbours of the invalid address;
step 0 and a step longer than the range are among the steps. Two generators are needed,
and enough, for a generator to be spent while another follows. Two pieces give an upload
a first and a last piece, full or short; an empty file is chunk count 0. Four items over
two places outlast the first fill, so all three places that read the source are used.
Two retries are the code's default and the least with which a retry follows a retry. Of
the three stages of a script the first is among the unsure ones, so a request may go out
that nothing filled, one that another stage filled, and one that is sure. Two Antminers
and two scripts that do not look at the count, over one slot, make an Antminer wait for
either kind and lose the slot; with poll limit 0 both sides of the comparison with the
scripts' 30 are reached. Three miners over two places reuse a place, and two of them at
one address meet while both are in flight and after either has ended, beside one that is
alone at its own; three values on the Lua stack is the least room the assumption allows,
and three memory errors fill it. Three userdata at one cell meet at one address, which a
class, its base and its enclosing object can share; a new object comes to live where an
old one died. Two parameters show an argument behind one that takes none, one that fails
behind one whose ownership has passed, and two outputs in order. Three slots for two
references show a slot that is freed and taken again.

*Constants that are only bounds*: `MaxDrops`, `MaxRanges`, `Ends` (client behaviour),
`MaxChunks`, `MaxReads` (sizes), `MaxRounds` (a script that always asks for more never
ends, and no driver could), `PollLimit` (smaller than 30), `MaxMemory`, `MaxArgs`,
`MaxStack`, `Slot`, `Cell` and `Ud` (sizes of a heap and a registry that are not bounded
in the program). `limit`, `stepSize`, `StepSize` and `Slots` are parameters of the
program.

*Fairness.*

- `Session`: the event loop runs queued handlers, armed timers expire, the
  consumer comes back from a yield. These are asio's and the caller's promises.
  Nothing is assumed of the network: an operation need not complete, and the TLS
  shutdown for which `clean()` waits on the only thread (`Session.cpp:389`) need not
  return. `TimedSessionAnswers` therefore says that a session with a positive
  timeout answers or waits for ever in that shutdown, which only a request over TLS
  can come to; there is no other such wait.
- `MinerScanner`: its own steps are sequential code, and a session answers, which
  is `TimedSessionAnswers` for a request that does not go over TLS; none of the
  scripts' requests does (section 5). A timeout of 0 is not covered.
- `Executor`: the driver calls at once, the session answers (the same). Which stage
  a parse step picks is not constrained, so a script is not assumed to end.
- `Scanner`: the session answers or is retried. Nothing is assumed of the device:
  every choice of replies ends.
- `Upgrader`: the driver takes up a miner while it has places (`NoIdlePlace`), and
  every session answers or is retried. No fairness between miners that wait for
  a slot: there are finitely many and each slot comes back, so all get one. There
  must be fewer Antminers than places: were all places held by miners that wait
  for a lost slot, the others would not even begin.
- `IpGenerator`: only for `Exhausted`, a client that keeps pulling.
- `ScriptHost` and the OOLua models are checked for safety only.

## 4 What is proved

All proofs are checked to the last leaf, for every value of the constants that satisfies
the assumptions beside their declarations. Those say no more than that the counts are
naturals, that there is at least one place and one address, that the first stage is a
stage and the delays contain 0, that the miners are finitely many, that references and
slots are (with more slots than references), that the tables of two Lua universes are
different, that the functions a program exports compile, that what a new request holds
is not a stage's, that no class is a base of itself and nobody but OOLua names a
function "new", for `ScriptHost` what section 2 lists, and for `Proxies` how objects are
laid out and what a program may do. The assumptions of `Proxies` beyond layout are the
limits of OOLua itself: section 5 says what goes wrong without each.

**SessionProofs.** `LifeInv` ties `running_` to the response: while it runs the
response is being built, once it is given the session does not run, and the
only time between is the wait inside `clean()`. `LifeCorrect`, `AnswersOnce` and
`SessionRefinesContract`. `WireInv` adds which piece comes next (`Comes`): an
operation under way names the piece after those sent, one that succeeded the last
of them. `WireCorrect` is `WireIsTrue` for every length of file and response.

**MinerScannerProofs.** `DInv` adds how many places are taken at each point
(`Places`) and that a driver that came to its own end left nothing (`Quiet`).
Proved: `DInvCorrect`, `PoolInvCorrect`, `CompletionCorrect`,
`DriverRefinesPool`, with throws wherever a submission or a delayed session may throw.
The same module has the two other objects of its run. For a
generator, `IInv` contains `SourceHoldsBegin`: a live source holds the generator's
current address, and the client has it only between `get()` and the resumption, or
after a drop. Without it neither `NothingSkipped` nor `OnceUnlessAbandoned` is
inductive, for `Resume` advances past whatever the generator is at. Proved, with the
arithmetic of `getIpNumber`: `GeneratorCorrect`, for sources of both kinds, abandoned
anywhere, with `next()` between them. For the group, the invariant is
`GInd`: its `Ledger` says how the running total, the addresses given out and those
still in the list make up what was added. What is still to come is a sequence of
addresses that the list of generators cuts in pieces (`Cuts`); the cuts are a
witness, so that no step sums over a list. That a list has such cuts at all is
induction over its length, done with sets (`Numbers`): a set with 0 and all
successors is Nat, as otherwise the successor on a finite part of it would be
one-to-one and not onto. Proved, for any number of ranges and drops: `GroupCorrect`.

**ExecutorProofs.** `EInv` relates the driver's phase to the step, the retry record to
the number of submissions and, with at most one retry, the kept delay to the script's;
`FilledInv` says that what is submitted is what its maker filled in, but for `Unsure`
stages. So a response always reaches the step that the make step of its submission
named, and the limit of retries is one per make step: a request that such a stage
submits again starts a count of its own. Proved: `EInvCorrect`, `ExecutorCorrect`,
`DisabledCorrect`, `ExecutorRefinesScriptContract`, and `DelayCorrect` for `limit <= 1`,
the very condition under which it holds. For the scan of an address, `SInv` relates the
script that runs to what the device showed: a type is set only with its evidence
(`Fits`), and a script that is entered by the type was (`RunsForShown`). Proved:
`ScanCorrect`, for any number of retries.

**UpgraderProofs.** `UInv` contains `PlaceInv`: only an ended miner has an outcome,
an idle one no file, and one that is rebooting or polled has taken the image. Every
response moves one miner, so the proof has one lemma on moves (`MovedAccount`,
`MovedUInv`), a few on kinds of moves (ending, uploading, waiting, going on), and
one short lemma per handler that names its kind. Proved for every mix of types:
`UInvCorrect` and `GateCorrect`, the latter from the account of the slots: the count an
Antminer sees is what is neither in use nor lost. For batches of Antminer miners:
`UploadsBounded` and `WaitsCorrect`, from `AInv`, which adds that slots are never
negative and nothing is lost. Neither holds for other batches (section 5).

**ScriptHostProofs.** `HInv` adds to `HostInv` where a context may be at each point of
the driver: the ones in flight are taken and not deleted, a miner alone at its address
is not at "end" (but for the one at hand), a context at "end" may be seen (`EndYields`:
so that none ends unheard, whoever ended it), an executor is bound to a miner of its
address that the source has given (`ExecutorsByAddress`), and an error in the registry
is never lost while the constructor runs. Whatever call a handler makes, and however it
fails, it does the same to the scripts' side (`HandledKeeps`, `CallKeepsHInv`), so each
handler needs only its own places. Nothing is assumed of the addresses. Proved:
`HInvCorrect`; `HostCorrect`, which says that a deleted context is used only for a miner
whose address another had that has ended; and, as every call moves the phase of no miner
alone at its address but the one it is about (`OthersSame`), `ContractCorrect` for these
miners. For the class tables the invariant is `LInv`: what a registered class' table has
whoever wrote to it since (`Filled`), that its bases are registered too (`WithBases`),
and where additions are (`AddedIsKept`). The lookup is a recursion over the bases, and
that there is a function which obeys it has to be proved first: functions that obey it
below some class agree (`WorksAlike`), so they can be put together, and a class without
one would have a least such class (`Minimal`), one whose bases all have one
(`LookupExists`). In the same way a least class where an addition is not found gives
`AdditionsFound`. Proved, for every hierarchy in which no class is a base of itself:
`LookupCorrect`.

**ReferencesProofs.** `OwnInv` says of the slots of each universe that the valid
references map into them one to one and onto those that are taken. Every operation
is a number of assignments to one reference, so most of the proof is one lemma on
the setting of a reference (`SetOwned`); that a reference which is set always finds
a free slot is counting, as there are more slots than references (`SlotLeft`).
The functions of tables and stacks leave references alone. `HomeInv` says where the
tables of each universe may be: in the registry, the stacks, the tables and the
names of that universe only. It is what makes the lookup through a reference find a
table of its own. Proved: `RefInvCorrect`, `OthersKeepCorrect`, `StacksCorrect` and
`WritesCorrect`. The last two speak of calls on a reference to a table whose
arguments are of the table's universe (`Proper`), since `set` goes on when a push
failed; and of `at` without a `void*`, whose pull does not pop (section 5).

**ProxyCallProofs.** Three invariants, one on the other. `PullInv` says which
argument each parameter before the current one got and where the rolling index is,
which is counting those on the stack (`IndexStep`); that the index stays within the
arguments of a constructor is counting again (`IndexWithin`), and that what was
tested can be pulled is `TestedIsPulled`, trait by trait. `OwnInv` follows the
objects a call in progress has taken over. `ResultInv` says what has been pushed back
and where. Proved: `ArgumentsCorrect`, `ChosenCorrect`, `OwnershipCorrect`,
`ResultsCorrect`. What the code does not promise is in the statements:
`TestedAsPulled` names the two kinds of parameters whose test lets through more than
is pulled, `StoresInCopy` the references whose new value is lost, and
`ObjectsAreTakenLast` the programs in which a refused call loses nothing (section 5).

**ProxiesProofs.** `IInv` has four parts that need each other. `WeakInv` says the weak
table is exact: `FoundAgain`, and `Marked`, that every userdata in a collision table
carries the flag by which its `__gc` removes it; nothing else tells that an empty
table will be reclaimed. `OwnInv` says each object Lua owns is deleted by one
userdata that stands for the whole of it: a push finds that userdata, and not a new
one, because the table is exact and the hierarchy a chain. `ViewInv`, for programs
that outlive no object, says a live userdata is a view of what is there, and none
is left when the one that deletes it is dying; without it an address might be found
under a class that never was. A push has three outcomes (reuse, reset, new), and each
has a lemma for every part; what a table becomes when addresses are registered is one
more (`Registered` and `Colliding`). The step for `FoundAgain` at a reset is where the
assumptions on layout come in: the addresses of the bases of the old class must be
among those of the new. Proved for any classes, cells and userdata, and any mix of
programs that satisfies the assumptions: `ProxyCorrect`, `OwnerCorrect`,
`UserdataCorrect`, `ConstCorrect`.

*Only model-checked*: all liveness (`Exhausted`, `TimedSessionAnswers`,
`AnsweredSessionDrains`, `ScanTerminates`, `RetryEnds`, `ScanEnds`, `UpgradesEnd`),
since fairness and ENABLED are out of the prover's reach. Every invariant, action
property and refinement of the runs is proved, `DelayCorrect`, `UploadsBounded` and
`WaitsCorrect` under the conditions in which they hold.

## 5 Where code and text disagree

- **`resumeSession` cannot resume.** `Session.h:25-26` promises to resend over the
  connection. A response is given only with an error code (the end of the stream
  is one), and `yield()` closes the session for any of them, whatever `is_final_`
  says, so `resumeSession()` always returns at `Session.cpp:397`
  (run `session_resume`).
- **The second retry forgets the script's delay.** `ExecutorBase.lua:22` calls
  `originDelay` the "Delay value before retry", but line 51 reads it again at the
  second retry, when it is the retry's own second (run `executor_delay`).
- **A failed Braiins OS upload keeps its slot.** It is given back only in
  `runUpgrade` (`BosHttpLuci.lua:174`), which a failed upload does not reach, so
  Antminers wait "The number of concurrent uploads exceeds the limit"
  (`AntminerHttpCgi.lua:54`) with nothing being uploaded (run `upgrader_leak`).
- **The WhatsMiner is asked over plain HTTP.** `HttpAutoDetect.lua:78` says
  "Currently only WhatsMiner uses https", and its script is made with `tls://` and
  port 443; but `makeBasicHttpReq` (`ExecutorBase.lua:139-140`), which makes all its
  requests, sets the bare IP and port 80 (run `scanner_https`). The configurator's
  and rebooter's scripts of the same name have it too.

*Met while modelling.* These are modelled as the code does it where the code is
modelled, and have no run of their own.

Scripts:

- AnthillOS and Braiins OS uploads take a slot without looking whether one is left.
- `doReboot` of the Antminer upgrader (`AntminerHttpCgi.lua:185`) and rebooter (`:42`)
  tests for a 401 that `parseHttpResponse` has already turned into nothing, so a
  refused reboot is polled like an accepted one.
- `scanner/WhatsMinerHttpsLuci.lua:300` calls `self.getNext()`, which does not exist:
  the hashrate page is never read and the scan ends there with an error.
- `scanner/WhatsMinerHttpsLuci.lua:84` says "Set them only after confirming that the
  device is a WhatsMiner", but a failed login of a device whose mining program
  already gave some type sets it all the same (`TypeIsConfirmed` excepts it).
- `makeAuthRequest` and `makeLuciSessionReq` set "end" for a missing password, which the
  `setStep` that follows them in some scripts overrides: the request before goes out
  once more, with retries of its own, and its answer is parsed by the step of the
  request that was not made. These are the `Unsure` stages of `Executor`, whose
  properties say what is left then; in `Scanner` and `Upgrader`, which leave every reply
  open, the answer is one of those to the request that should have been made.
- `scanner/AnthillOS.lua:144` and `:298` return without naming a step (`ParseNothing`).

Drivers:

- `MinerScanner::stop` (`MinerScanner.cpp:122`) dereferences `client_`, which is null
  before the request source has run and after `run()` has returned.
- `doNextWork` calls itself for every item that ends at once
  (`MinerScanner.cpp:142`): a long run of such items grows the coroutine's stack.

OOLua, outside what this application uses of it:

- Where a class has two bases, or an object was deleted without its userdata, a
  script may hold two values for one object (`proxy_storage.h:199`, `:215-221`), as
  `OneUserdata` admits. When such a program passes ownership too, both values may
  delete the object: one was pushed as a base that Lua took over, the other found
  nothing at its own base's address (`OneOwner`, `ProgramAssumption`).
- `reset_metatable` registers the addresses of the bases and not the object's own
  (`proxy_storage.h:396-407`), and removes none. A class whose only base is behind its
  own first member is then not found again (`FirstBaseAssumption`), and a dangling
  userdata of a class with bases at offsets stays known there when it is reset to a
  class built in its place (`ProgramAssumption`).
- `No_public_destructor` on a class and not on its base: the object Lua owns is
  deleted or kept by the class it was pushed as (`DestructorAssumption`).
- A `cpp_in_p` argument has given up its object when a later argument raises
  (`stack_get.h:237`); `NeverUnowned` says which programs are free of it.
- The converter of a reference to a pointer may store into a copy
  (`type_converters.h:130`, `StoresInCopy`). A constructor may be chosen by a number
  for a `char*`, or by a const object for a const `in_out_p`, and then fail to pull it
  (`proxy_constructor_param_tester.h:81`, `:150`, `TestedAsPulled`).
- `Table::set` with a value that cannot be pushed, or on a reference that is not to a
  table, leaves the stack or another table changed (`oolua_table.h:232-233`), and
  `safe_at` returns true for a value it could not pull (`:319-322`). A reference uses
  the state it was set with, also when that was a coroutine since collected
  (`oolua_ref.h:303`).
- The pull of a `void*` does not pop it (`oolua_pull.cpp:104`); the pull of a const
  object to a non-const pointer raises instead of returning false
  (`class_from_stack.h:280`).
- Functions of a base overwrite those of the same name of the derived class
  (`oolua_registration.h:413-461`); a getter hands out a non-const pointer to a member
  of a const object.

## 6 What is not modelled

- **Configurator and rebooter scripts.** Straight lines of login, token, one request
  and a restart or the reboot poll. Their machinery is `Executor`, the poll is that of
  `Upgrader`; what is left is the text they build from the pools, data to every
  model here.
- **`http.lua`, `utils.lua`**: functions on texts. Their outcomes are choices of the
  scripts' models.
- **Of the scanner scripts**: fields read out of replies besides type and hashrate,
  the longer session timeouts of WhatsMiner, `detectHttps`, which nothing names.
- **`ip2long`, `long2ip`, `splitIpRange`**: abstracted to their results.
- **What follows the use of a deleted context.** Executors are kept by IP
  (`HelperBase.lua:14`) and never removed. `ScriptHost` has repeated IPs up to the first
  call that uses a deleted context, and one run; in a second run over the same helper
  every IP of the first is such a repeated one.
- **The memory of `client_` and of contexts in flight when a submission throws**: the
  models account for items, not for what is left on the heap.
- **`next()` of a generator while a source of it holds an address**: the source would
  skip one; no caller in the repository does so.
- **A disk error in the middle of an uploaded file.**
- **`stop()` in an upgrade**: slots left taken by a stopped run are outside, as the
  count is an option of the process.
- **Of OOLua**: the macros and the DSL that generate proxies, shared pointers, the
  build with exceptions, enums, the iteration macros over tables, loading of modules
  through `package.loaders`; `Lua_ref`, `Table`, enum and shared parameters of bound
  functions.
- The bodies of requests and replies, log output, wording of stats.
- The other vendored Lua libraries, OpenSSL calls, demos, tools and build files.

## 7 What could come next

1. The numbers that liveness rests on, as invariants: how far a session, a driver or
   an upgrade is from its end, and that no step but a retry takes it further away.
2. A composition of driver and upgrader with `stop()` and two runs after one another
   over the same process-wide options and the same executors.
3. The section arithmetic of `splitIpRange` against a reference definition.
