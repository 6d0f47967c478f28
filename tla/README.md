# mattermost-load-test-ng: a verification project

TLA+ models of the load-test tool in `src/`, the TLC configurations that check them, and theorems
about them that TLAPS checks. A definition named `Bug...` is the definition after it with a mistake
in it: it documents which property notices which mistake, and no specification uses it.

## 1. The system

The tool puts simulated users on a Mattermost server and finds out how many of them it supports.

```
 coordinator ── feedback loop ── performance monitor ── Prometheus
     │  HTTP: create, run, addusers, removeusers, delete
     ▼
 agent (API server) ── load-test engine (loadtest.LoadTester)
                           │ go Run(), Stop()          ▲ status channel
                           ▼                           │
                        controllers (simul, simple, gen, noop, cluster)
                           │ Connect, Disconnect, requests ▲ events, errors
                           ▼                               │
                        user entity ── memstore, WebSocket client ── Mattermost server
```

| Component | State | Operations | Hard |
|---|---|---|---|
| load-test engine `loadtest/loadtest.go` | state, counters, active and idle controllers, wait group, status channel | Run, AddUsers, RemoveUsers, Stop, handleStatus, Status | goroutines of controllers and of handleStatus run while an operation holds the mutex and waits for them; channels are closed and made again; controllers are reused |
| controllers `loadtest/control/*` | where Run is, channels for stopping, the goroutines of a connection | Run, Stop, SetRate, connect, disconnect | five kinds of goroutines per simulated user that must all end before STOPPED is sent |
| user entity `loadtest/user/userentity` | connected, the channels of a connection, the token | Connect, Disconnect, listen, SendTypingEvent, one request per API | reconnection, unbuffered channels between goroutines that also wait for one another |
| WebSocket client `loadtest/user/websocket` | socket, buffer of events | NewClient4, Close, reader | the socket breaks at any moment |
| memstore `loadtest/store/memstore` | maps and circular queues | Set..., Get..., Random... | eviction against the index maps |
| gencontroller's shared state `loadtest/control/gencontroller/state.go` | counters of what was made | inc, dec | check and count by many users at once |
| API server `api` | map of agents | create, run, stop, destroy, add and remove users | handlers run concurrently |
| cluster and agents `coordinator/cluster`, `coordinator/agent` | last status of each agent, error counts | Run, Shutdown, IncrementUsers, DecrementUsers, Status | lost answers, agents that restart, statuses that are stale when used |
| coordinator `coordinator/coordinator.go` | times of the last alert and action, samples | Run | the feedback loop: rests, bounds, stopping |
| performance monitor `coordinator/performance` | its channels | Run, Stop | a goroutine that sends to one that may have left |
| commands, deployment, report, defaults, logger, examples | | | input and output only |

What makes each correct:

- engine: the wait group counts exactly the users whose end has not been handled; counters agree
  with the list of controllers, through partial failures too; after Stop nothing of the test is
  left; no operation waits for ever; nobody sends on a closed channel;
- controllers: Run goes on until Stop and no longer; STOPPED is the last thing a user does; Stop
  returns;
- connection: one at a time, and closed only when its senders are done;
- coordinator: never more users than the maximum; an agent that fails is brought back;
- generating users: what is counted is what is made; nothing beyond its target; somebody is always
  left to make up for what failed;
- store: the maps index what is stored and nothing else, and hold the most recent elements;
- a user at work: it acts where it is a member, and every action ends.

## 2. Modules

| Module | What it is |
|---|---|
| `LoadTester` | the engine, with its lock, the controllers' goroutines as the engine sees them, one status channel per run |
| `LoadTestContract` | what the engine promises its callers: the abstract specification `LoadTester` implements |
| `ControllerLife` | what the engine relies on in a controller: the abstract specification of Run and Stop |
| `UserConnection` | the user entity's connection: `listen`, its channels and the WebSocket client |
| `SimulUser` | simulcontroller's goroutines on top of `UserConnection` |
| `NoopUser`, `SimpleUser`, `ClusterUser` | the goroutines of noopcontroller, simplecontroller and clustercontroller |
| `PlainUsers` | those three as one specification, which chooses one of them |
| `GenUsers` | gencontroller's users with the counters they share, and the command that waits for them |
| `CQueue` | a circular queue of the store with the map that indexes it, as operators |
| `MemStore` | the store of a user: four such queues and the plain maps, one action per operation |
| `RecentEntries` | what a bounded map of the store promises: the abstract specification of each queue |
| `Programs` | the instructions in which the actions of a user are written |
| `UserRequests`, `UserActions`, `SimulActions`, `SimpleActions` | the requests, the common actions, and the actions of the two controllers, as programs |
| `UserSession` | a user at work: the goroutines that run those programs on one store, and the server |
| `Distribution` | how users are divided among agents: the two loops of `cluster/util.go` |
| `PerformanceMonitor` | the goroutine that queries Prometheus and hands results to the coordinator |
| `Coordinator` | `Coordinator.Run`, the cluster, the agents and their servers, on top of the two modules above |
| `LoadTesterProofs`, `SimulUserProofs`, `PlainUsersProofs`, `GenUsersProofs`, `MemStoreProofs`, `UserSessionProofs`, `DistributionProofs`, `CoordinatorProofs` | theorems |
| `MCLoadTester`, `MCUserSession`, `MCDistribution`, `MCCoordinator` | symmetry and instances for TLC |

How they fit: `LoadTester` relies on `ControllerLife`, which `LoadTester`'s own controllers
(`ControllersLive`), `SimulUser` and `PlainUsers` (`ImplementsLife`) implement. `Coordinator` relies on
an agent being created, run and deleted, and adding or removing as many users as it can, which is
what `LoadTestContract` says and `LoadTester` implements (`ImplementsContract`). The goroutines of a
user are modelled twice, at two grains: `SimulUser` and `SimpleUser` have every channel and every
select, and an action that may do anything; `UserSession` has what every action asks for and does to
the store, and a connection that is up or down.

### 2.1 LoadTester

Each variable is a field of `LoadTester` or of what it starts: `state`, the counters of `Status`,
`active` and `idle` (the two slices), `wg`, and `gen`, `buf`, `closed` (one status channel per run,
its buffer, whether it is closed). An operation that holds `lt.mut` is a sequence of actions, because
the goroutines of the controllers and of `handleStatus` go on while it waits: `op` says which
operation holds the lock and `todo` how many users it has still to add or remove. A controller is a
`phase`: unborn, idle, launched, running, leaving. `removeUsers` starts one goroutine per user that
calls Stop and waits for it (`waiting`, `stopping`); `HandleStatus` takes one status from a buffer,
which is bounded by `MaxActiveUsers` as the channel is.

### 2.2 UserConnection, SimulUser, PlainUsers

A user is one goroutine that runs the controller and, for each connection, `listen`, the reporter of
its errors, the event handler (with its fetchers, for simulcontroller) and the periodic actions.
`pc`, `loop`, `pump`, `handler`, `fetchers` and `periodic` say where each is. A send on an unbuffered
channel is a step of both sides; a channel is nil, open or closed, and both a send on a closed one
and a receive from a nil one are what they are in Go. A request to the Mattermost server succeeds or
fails. Timers may fire at any moment.

In `PlainUsers`, `which` is the controller that the configuration names, and the three modules share
the other variables. `turn` is the action of
clustercontroller that is next; the flip of the configuration is two requests. Of simplecontroller's
configured actions any may be the next: `runPeriod` is not modelled.

### 2.3 GenUsers

All users share `count`, the counters of `state.go`. A user counts a thing (`inc`), asks the server
for it, and takes the count back when that fails (`dec`); `making` is what it has counted and not yet
got, and the history variable `made` is what the server has made. `done` reads the four counters one
by one, each under its own lock, so each reading is a step (`reading`), and others go on between two
of them. `Trim` removes the actions whose target was found reached, `actions`. `joinTeam` may find no
team and succeeds all the same; `member` says whether it found one. The command waits for as many
stopped users as it has, then stops the test. Users are stopped early only by a caller of
`LoadTester` that is not that command (`Stoppable`). Direct and group channels are made without
being counted, as in the code. `createTeam` is an initial action, done once by each user, so a target of more
teams than users is never reached.

### 2.4 CQueue, MemStore, RecentEntries

An element is its key. `CQueue` has the memory of a queue (`data`), the slot that `Get` returns next
and the map (`at`) that points into the memory: eviction is `Forget`, reuse of memory is `Put`, and
`Reset` keeps the memory. `Life` is a function of these three that says after how many more
insertions an entry is evicted; under it each queue implements `RecentEntries`, which has neither
memory nor slots. Every operation of `MemStore` is one step, as it holds the lock, but `SetUsers` and
`SetChannelMembers`, which keep the lock while they put one element after another. The selections of
`random.go` are sets from which any element is taken (`TeamChoice`, `ChannelChoice`, `UserChoice`...).

### 2.5 Programs and UserSession

An action of a controller is a program: a sequence of instructions such as `Ask` (a request and what
is done with its answer), `Do` (a call to the store), `PickChannel` (a selection, and what follows
when there is nothing to select) or `Each` (a loop). A program reads like the function it stands for,
and is a few lines. `UserSession` gives the instructions their meaning: every goroutine of the user
(`main`, `listen`, `handler`, `periodic`) has what is still to be run (`todo`), its local variables
(`reg`) and what an error continues with (`catch`), and each instruction is one step, so that the
goroutines interleave between any two requests and any two calls to the store. `MemStore` is the
shared state, reached only through its operations. `script` is what the controller runs: the initial
actions, which simulcontroller repeats when they fail, then one of `Scripts`; `Actions` names what
either controller can run (simplecontroller's own login and logout are `simpleLogin` and
`simpleLogout`).

What it assumes: a failed request has no effect on the server (`ActsWhereMember` depends on it: if
the answer to a request to leave a channel were lost, the user would be gone from the channel and the
store would keep the membership); nobody else removes the user from a channel; a failed upload of a
file does not fail the action (as in the code); what is typed is asked for once or twice instead of
once per character; the event handler has one fetch at a time; that stopping interrupts the login
loop is left to `SimulUser`, and so is the typing event of `createPost` and `createPostReply`: that it
fails ends the action before anything has changed, as the failure of their next request does.
`scrollChannel` may take the first of no posts (`simplecontroller/actions.go:83`): that ends the
process, `panicked`. `ActionsEnd` counts it as an end, so it says nothing against panics.

### 2.6 Distribution, PerformanceMonitor, Coordinator

`Distribution` takes one step per turn of the loops. `sort.Slice` is not stable, so any least (or
most) loaded agent may come first.

`Coordinator` follows `Run`: `starting` (the agents one by one, two requests each), `await` (the
select), `status` (agent by agent), `decide`, `distribute`, `send` (the requests, in the order in
which Go happens to range over the map), `shutdown`. A request and its answer are one step; with
`NetworkFails` the request, or only its answer, may be lost. A server may restart between any two
steps and has then no load test. `LoadAgent.status` is `seenUsers`, `seenErrors` and `nilStatus`,
apart from what the server really has (`users`, `errors`): most of what can go wrong is a difference
between the two. The auxiliary `past` sums up the errors last seen of load tests that were replaced.

## 3. Runs

A property is an invariant unless a formula with `[]` or `~>` says more. Each is named and explained
where it is defined.

| Run | Shows | Bounds, and why they are enough |
|---|---|---|
| `load_tester` | `TypeOK`, `WaitGroupExact`, `UsersBalanced`, `StatusSettled`, `NoSendOnClosedChannel`, `DistinctUsers` for one run of the agent; `OperationsFinish`: whoever holds the lock gives it back | two controllers: one active while one leaves, is idle or is new; three launches, so that one is reused; a channel of two that can be full while both must still report. All but the last are proved for any number |
| `load_tester_rerun` | two runs implement `LoadTestContract`, and every controller `ControllerLife` | two controllers, two runs: the second meets idle controllers of the first |
| `load_tester_closed_channel` | **violated**: a second run reuses a controller that sends on the closed channel of the first | two runs |
| `simul_user` | `TypeOK`, `NoSendOnClosed`, `ErrorsHaveCause`, `LeavesNothing`, `ConnectsAlone`, `ImplementsLife`, and `StopEnds` if the server accepts a connection in the end | two buffered events and two fetchers: a buffer of 100 or of 2 is empty, in between or full; all but the last are proved for any buffer |
| `plain_users` | `ListenSendsOnOpen`, `SimpleLeavesNothing`, `ImplementsLife`, and `StopEnds` | two buffered events, as above |
| `gen_users` | `CountersExact`, `SomeoneMakesIt`, `AllButReactionsMade`, `ExitsUnlessTeamless` | two users, one of which may be stopped, and one thing of each kind: each target can be seen reached by one user while the other takes its count back. Both users are alike, so which one may be stopped does not matter |
| `gen_never_exits` | **violated**: with fewer teams than users the command may wait for ever | two users, one team |
| `user_session` | `TypeOK`, `MapsFollowQueues`, `CredentialsKept`, `ActsWhereMember`, `EntersViewed`, `ImplementsRecent`, `ActionsEnd` | see below; all but the last are proved for any store, server and script |
| `distribution` | `Even`, `NeverBelowZero`, `AllDone` | three agents with up to four users, up to five turns: the loads cross, and run out |
| `coordinator` | `UsersWithinMax`, `RemovalsFit` and `NothingLeft`, with servers that restart twice | two agents with room for two users in a cluster of three: uneven shares, and a last increment that is cut. That an agent has no room for its share, adds what fits and answers with an error, does not happen in this instance: it takes agents that are full together before the cluster is, whose own maxima then keep the bound; the theorem `NeverTooManyUsers` covers it |
| `coordinator_lossy` | `ErrorsAccumulate` and `InterruptEnds`, with lost requests and answers | one agent (agents do not share errors), two errors and two restarts: fewer, as many and more errors than the last time |
| `coordinator_restart` | **violated**: a restart that fails between its two requests makes the coordinator panic | the second restart comes between them |

`user_session` has a store that is smaller than the server: one post of two, two users of three, two
memberships of many, one status of three, so that every queue wraps round and evicts. There are two
teams, one of them with a public and a private channel beside its default one, a direct and a group
channel; any of the public channels that are not a team's default may or may not exist. Each script
is the initial actions and then one to five others; every action that makes a request or touches the
store is in one of them. One event or tick interleaves with the scripts whose actions go on using
what they selected (`switchChannel`, `createPostReply`, `ScrollChannel`): with events in all scripts
the instance is too large.

The findings in `PROJECT.json` quote what the repository says and what the code does instead.
More disagreements and limits turned up that are not runs of their own:

- `DistinctUsers` without `~ MultiSession`: a further session may be given user 0, whom no list of
  credentials has (`loadtest.go`, `addUser`);
- `StopEnds` of `PlainUsers` has one exception, `Unheard`: a noopcontroller's event handler may ask
  for the channel of events before there is one, receives from a nil channel, and Stop waits
  for ever (`noopcontroller/controller.go`);
- reactions need never all be made: `addReaction` takes a post of the last ten seconds
  (`gencontroller/actions.go:244`, `PostsIdsSince`), and none that the user has given the same emoji.
  Once the target of posts is reached and ten seconds have passed, or if no posts are asked for, no
  reaction succeeds although the server refuses nothing: the target, "the number of reactions to be
  created" (`docs/gencontroller_config.md`), is missed, and the command waits for ever. In `GenUsers`
  a reaction succeeds or fails; `AllButReactionsMade` leaves reactions out, and
  `ExitsUnlessTeamless` is about tests in which all was made;
- at the maximum number of users the coordinator takes no action, and does not notice a server that
  restarts;
- `UsersWithinMax` with `NetworkFails`: when the answer to an addusers request is lost the users are
  there and the status is not, and the next increment is computed from the status
  (`agent.go:65`, `coordinator.go:124`);
- `StopEnds` of `SimulUser` without `ServerRecovers`: a user who types while the socket is down waits
  in `SendTypingEvent` (`websocket.go:200`) for as long as the server refuses connections;
- the monitor's goroutine does not end when it is stopped while it holds a result: it sends outside
  its select (`monitor.go:44`), and nobody receives any more.

gencontroller is not a `ControllerLife`: its Stop neither waits for Run nor makes its channel anew
(`gencontroller/controller.go:206`). `LoadTester` is about the other four.

What `gen_never_exits` shows is sharpened by `ExitsUnlessTeamless` of `gen_users`: the command exits
once all is made, unless a user that nobody stops found the teams all counted when there was none to
join yet; then it is that user the command waits for.

The type invariants of `Distribution`, `GenUsers`, `PlainUsers` and `Coordinator` are proved, and not
runs' properties.

`CHECK_DEADLOCK FALSE` stands where the system may stop: an agent whose runs are over, a coordinator
that is done, a division that is finished, a noop user that waits for ever, a command that is over, a
script that is at its end.

Bounds in guards: `MaxRuns`, `MaxAdded`, `MaxErrors` (LoadTester), `MaxErrors`, `MaxCrashes`
(Coordinator), `Scripts` (UserSession). They cut off the counters of runs, launches, errors and
restarts, and the actions and events of a session; nothing else depends on them, and the theorems
hold for all their values. `MaxReactions` (MemStore) bounds how often one reaction is counted.
`EventBuffer`, `MaxFetchers` and the sizes `MaxStored...` are capacities that the code has, smaller.

## 4. Fairness

Goroutines that can take a step take one in the end: weak fairness. A send or receive on a channel
that others use too, and a `select` that meets several ready cases again and again, are strongly fair:
Go's channels serve waiting goroutines in order, and `select` chooses at random.

- `LoadTester`: the holder of the lock, `handleStatus`, and controllers that are told to stop; sends
  on the status channel are strongly fair. Callers need not call anything.
- `SimulUser`, `PlainUsers`: all goroutines, but not the events and failures of the connection.
  `ServerRecovers` (a server that is asked again and again accepts a connection) is kept apart, since
  `StopEnds` of simulcontroller needs it; `PlainUsers` assumes nothing of the server.
- `GenUsers`: users and the command go on. Strongly fair are the success of what a user asks for,
  but for reactions (`Succeeds`: a server that refuses everything for ever leaves every target
  unmet), and, for channels and for posts, that a user begins to make one while it may (`Begins`:
  actions are picked at random, by weights; for posts the weight of `createPost` must not be zero,
  since a reply needs a post). Of reactions nothing is assumed, see section 3.
- `UserSession`: the controller's goroutine, and the other goroutines together, whose work the bounds
  limit. Requests end in an answer or an error; neither is fair.
- `Coordinator`: Run, the monitor and the clock; the signal, when the select finds it ready again and
  again. Nothing is assumed of users, of signals, of restarts or of the network: HTTP requests end in
  an answer or an error.

## 5. Theorems

TLAPS proves, for any constants that meet the named assumptions of the modules:

**LoadTesterProofs** (`Controllers` is finite; the bounds are natural numbers). The inductive
invariant has three layers, each proved with the ones before: `Inv1` (types, and what each phase of
an operation implies for the state), `Members` (which controllers the two lists hold and in which
phase: nobody is in both, or twice), and `Inv3` (`Counters`: the wait group and the statuses that
are on their way; `Drained`: a stopped status in the buffer comes after all others of its sender).
From these: `TypeCorrect`, `WaitGroupCorrect`, `UsersBalance`, `StopSettles`,
`UsersDistinct` (without further sessions), `FirstRunSafe` (`MaxRuns <= 1`, as the finding shows it
must be), and `ContractImplemented`: every step of `LoadTester` is a step of `LoadTestContract` or
leaves its variables alone. `UsesControllersRightly` (property `ControllersLive`) adds `BusyInv`: the
active controllers that an operation has not yet stopped (`Kept`) and those it waits for are
running, or have run (`Busy`), and the former are not being stopped. So the loop of Stop or of
RemoveUsers never stops a controller that is idle, or one twice, and addUsers runs only idle ones.

**SimulUserProofs, PlainUsersProofs** (`EventBuffer` and `MaxFetchers` are
positive). `Conn` says when the user entity is connected: exactly while its channels are open, and
`listen` and the client's reader run only then; the lemma `Listens` (in both modules) is that
`listen` and the socket keep it. For simulcontroller `IInv` adds how far the controller's `connectedFlag` and the entity's
own flag agree at each place of Run (`Flags`), where none of the four other kinds of goroutines is
left (`Gone`), why connect finds a token (`TokenSet`), and what Run disconnects for (`Purpose`:
without it the shared code of disconnect could return to a place where it was not called). From it:
`SendsOnOpenChannels`, `NoErrorWithoutCause`, `SimulLeaves`, `ConnectsWhenAlone`, and
`SimulUserIsController`: every step is a step of `ControllerLife` or leaves its state alone. For the
plain controllers `NoopKnows` and `SimpleKnows` take the place of `Flags`, `Gone` and `Purpose`; the
theorems are `SendsOnOpenChannels`, `SimpleLeaves` and `PlainUsersAreControllers`.

**GenUsersProofs** (`Users` is finite and not empty; targets are natural numbers). The invariant is
`TypeOK /\ CountersExact /\ InPlace`. `CountersExact` is inductive with the types: a user is counted
in `Making` from its `inc` to the answer or the `dec`. `InPlace` says at which places of Run a user
can be making something, and that it has then not given up making it. `NobodyLeavesTooSoon` rests on
it and on two lemmas: a user that makes what is missed goes on (`GoesOn`: it gives a kind up only
after reading that counter at its target), and one that takes a count back still makes that kind.

**MemStoreProofs** (every size is positive). About `StoreSpec`, in which any operation may follow any
other; that the actions and the events of a user do nothing else to the store is the theorem
`SessionUsesTheStore` below. `PutFollows`, `DeleteFollows` and `ResetFollows` are about one
queue: each keeps `Follows` (what the map points to is what is stored there) and changes `Life` as
`RecentEntries` says. `StoreMoves` lifts them to the store. The invariant is
`Rest /\ QueuesOK /\ CredentialsKept`, and the theorems `StoreTypeCorrect`, `MapsPointIntoQueues`,
`CredentialsSurvive` and `StoreKeepsTheMostRecent`, the refinement of all four queues.

**UserSessionProofs** (`SessionAssumption`: the scripts consist of the controllers' actions, the
default channels are channels; `ServerAssumption`: every channel has a type and a team or none, every
post a channel and an author; `ConfigIsValid`: sizes are positive). About any server, any sizes and
any scripts, so about any actions in any order, any failures, and any number of events:

- `ActsOnlyWhereMember` (`ActsWhereMember`), `EntersOnlyViewed` (`EntersViewed`),
  `SessionTypeCorrect` (`TypeOK`);
- `SessionUsesTheStore`: every step does one operation of `MemStore` to the store, or none, so that
  the session's behaviours, seen through the store, are behaviours of `StoreSpec`. From it and the
  theorems about the store: `SessionKeepsTheMostRecent` (`ImplementsRecent`),
  `SessionPointsIntoQueues` (`MapsFollowQueues`) and `SessionKeepsCredentials` (`CredentialsKept`).

What a goroutine has still to run is a sequence of instructions within instructions, of any length.
An invariant cannot list where it may be, so the proof gives every program a judgement, as the type
system of a programming language does: `Typed(p, G, H)` says that `p` can be run where the facts `G`
are known, and that `H` is known after it. A fact is about a register: that it holds a team, a post,
a channel that exists, one that was joined, one that was viewed (`Is` says what each means in a
state). `Fits` says for each instruction what it needs and what it teaches; `MayAsk` is the heart of
it: to view a channel or to post in it, the channel must be known to be joined. A judgement is a set
of judgements that justify each other, since programs are nested; this takes no recursion and no
induction over programs, which the provers could not do: `First` (a program's first instruction
fits, and the rest is typed), `InTurn` (one program after another) and `Meanwhile` (what a loop has
left is known all along) are proved from that form. The lemmas up to `SimulPrograms` and
`SimplePrograms` judge every request and every action of the two controllers, one by one; those after
them show that each instruction's step is `Right`: the goroutine goes on with what it then knows,
and no other loses what it knew (`OthersKeep`). The invariant is `SessionInv`: the store's, `ServerOK`,
`Known` (the channels, memberships and current channel in the store are right about the server),
`Control`, and for each goroutine that it is `Judged` and so is what an error continues with.

Two things make it more than types. What one goroutine knows another may end: only the controller's
goroutine leaves channels and clears the store, so under the simple controller the others know of no
membership, and no goroutine but `main` knows what was viewed (`Joined`, `Viewed`). And `LeaveChannel`
has no judgement: it tells the server first, so for one step the store still holds a membership that
is gone (`Leaving`). That step is its own case throughout (`LeavesStep`), and what shows it harmless
is that the goroutine that would act on the membership is the one that takes it away.

**DistributionProofs** (`Agents` is finite and not empty). `Even` and `NeverBelowZero` are inductive
with the type invariant; the proof of `Even` is that the turn's agent has the least load, so that
one more keeps it within one of every other, and that the others chosen were within one before.
`GivesAll` (property `AllDone`) and the coordinator's bound are about sums over all agents. The sum
is a fold, a function that is recursive over finite sets. The induction over it is not the library's
(whose theorem takes an operator): `AgentInduction` takes a smallest set without the property, by
the well-foundedness of inclusion on finite sets, and `FoldedUnfolds` is the step of the recursion.
From these follow the lemmas that the two proofs use: the total of a function is a natural number
(`TotalType`), grows with it (`TotalMonotone`), adds up (`TotalPlus`) and grows by one with one
value (`TotalOneMore`). `GivesAll` then rests on `Given`: what has been given out and what is left
make up the amount, but for the turns of a removal that were lost because nobody had a user left;
then all agents have lost all they had.

**CoordinatorProofs.** `TypeCorrect` is inductive by itself. `ErrorsCounted` needs to know what may
have happened to an agent since its last status: `ErrInv` says it is accounted for, or has `Grown`
(the same load test, more errors seen), or is `Renewed` (another load test, none seen), and that
while the requests are sent every agent still to be called is accounted for. It is inductive because
the loop calls each agent once (`CurOK`) and takes all statuses before the next one; it holds with
lost requests and answers. `RemovalsAlwaysFit` and `NothingIsLeft` assume `~ NetworkFails`:
`UserInv` says that a running load test has at least the users that were last seen, and that the
shares are computed from those; `LeftInv`, that an agent which Shutdown has called has no load test.

`NeverTooManyUsers` (property `UsersWithinMax`, with `~ NetworkFails`) is the bound on the whole
cluster. `CountInv` says that the coordinator never knows of fewer users than there are (an agent
can lose users in a restart, and gains none by itself), that what it knows of is within the maximum,
and that an increment is cut to what is missed and its shares computed from what was seen. What
makes it hard is an agent that has no room for its share: it adds what fits and answers with an
error, and none of those users is counted. Since the shares are even, that happens only when the
plan fills every agent (`PlanFills`, from `Even` and the sums); then the capacities of the agents
(`Full`) add up to no more than the maximum, and the bound holds whatever they do.

Only model-checked: liveness (`OperationsFinish`, `StopEnds`, `InterruptEnds`, `AllButReactionsMade`,
`ExitsUnlessTeamless`, `ActionsEnd`), which the prover does not handle. Every invariant,
action property and refinement that a passing run checks is a theorem. What stands under an
assumption is `FirstRunSafe` (one run only: a second one violates it), `UsersDistinct` (no further
sessions) and the three theorems of the coordinator that need answers to arrive.

## 6. Not modelled

- The API server's handlers, when several clients call them at once: they use the map of agents
  without a lock, a data race that ends a Go process. No document of the repository says otherwise,
  and the coordinator, the one client modelled, calls an agent with one request at a time.
- noopcontroller composed with the engine: nothing waits for the reporter of connection errors,
  which may report after STOPPED (`NoopUser`), on a channel the engine has closed (`LoadTester`).
  Each half is in its own module.
- Time and arithmetic: rates and pauses (`getWaitTime`: a pause may be of any length), the slope of
  the samples (the test may be found done after any alert), the weights of `SelectWeighted` (any
  action may be the next).
- Of the user entity, the requests that no controller sends (`CreateUser`, `UpdateUser`,
  `UpdateUserRoles`, `GetPostsAfter`, `AutocompleteChannelsForTeam`, `GetTeam`, `GetTeams`,
  `RemoveTeamMember`, `GetTeamMembers`, `GetUsersByUsernames`, `GetTeamStats`, `GetFileInfosForPost`,
  `GetFilePreview`, `AddTeamMemberFromInvite`, `GetProfileImage`, `GetEmojiList`, `GetEmojiImage`,
  `GetReactions`, `GetChannelsForTeamForUser`), `GetRolesByNames` (the names come from the roles in
  the store, where there are none), and the encoding of what is sent.
- Of the store, what is written and never read back by a controller: configuration, emojis, roles,
  license, and the contents of posts, channels, teams and users beyond their key.
- Deployment (terraform and ssh), reports (queries and formatting), configuration defaults
  (reflection), logging and metrics, command lines, examples: input and output, with no state to get
  wrong that a model would show.
