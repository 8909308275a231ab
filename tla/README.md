# TLA+ models of the playit agent

The playit agent keeps a control connection to a tunnel server, carries TCP and
UDP traffic of the tunnel to local servers, and is supervised by a runtime that
a daemon, a service or an embedding program hosts. Clients (command line, tray)
control the daemon over local IPC. This directory holds TLA+ models of the
parts in which several tasks, a network or a crash make the code hard to test,
the TLC configurations that check them on small instances, and TLAPS proofs of
the results that matter most, for every value of the constants.

All paths below are relative to `src/packages/`. `PROJECT.json` names, for each
definition of a module, the lines of source it models, and lists the runs, the
mutated forms each property is known to catch, the hazards and the theorems.

    tlc -workers 4 -config MCControl.cfg MCControl
    tlapm AgentProofs.tla

## The system and its parts

| part | source | state | who changes it | modelled by |
|---|---|---|---|---|
| control connection | `agent_core/src/agent_control` | flow, Pong of the session, registration, expiry, watchdog, failure count | the tunnel task, one await at a time | `MaintainedControl`, `ControlServer` |
| agent tasks | `agent_core/src/playit_agent.rs` | renew flag, details channel, two task handles | tunnel task, udp task, `run` | `MaintainedControl`, `UdpClients`, `UdpSession`, `Supervisor` |
| UDP channel | `network/udp/udp_channel.rs` | session, tunnel address, time of the last establish answer | send task, receive task | `UdpSession` |
| packet pool | `network/udp/packets.rs` | two lock-free queues | every task that holds packets | `PacketPool` |
| virtual UDP clients | `network/udp/udp_clients.rs`, `udp_receiver.rs` | slab, lookup, receivers, channel | udp task, one receiver task per client | `UdpClients` |
| supervisor | `playit-runtime/src/runtime.rs`, `state.rs` | state cache, events, API of the agent, join handles | supervisor, four tasks of the agent, owner | `Supervisor` |
| provisioning | `playit-runtime/src/handle.rs`, `claim.rs`, `secret.rs` | provisioning channel, claim code, claim tasks, secret in use | callers, claim tasks, supervisor, owner | `Provisioning` |
| secret file | `playit-runtime/src/secret.rs` | the file, its temporary file, what is on disk | writer, reset, crash, power failure | `SecretFile`, `SecretStore` |
| TCP clients, pipes | `network/tcp` | list of clients, pipes, channel of events, statistics | tunnel task, worker, one task per set-up, one per direction | `TcpClients` |
| wire protocol | `agent_proto/src`, `network/proxy_protocol.rs` | none | pure | `WireFormat` |
| IPC | `playitd/src/ipc_server.rs`, `playit-ipc/src/ipc.rs` | streams, subscription, receiver of events | publisher, one task per connection, client | `IpcConnection` |
| daemon | `playitd/src/daemon.rs`, `ipc_server.rs` | host token, IPC task, runtime, endpoint | signals, IPC, runtime, other daemons | `Daemon` |
| Windows service host | `playitd/src/bin/playitd-service.rs` | reported status, child | service manager, child | `WindowsService` |
| command line | `playit-cli/src/{client,service,linux,main}.rs`, `playitd/src/manager.rs` | place of the command | user, daemons, service manager | `ServiceCli` |
| account commands | `playit-cli/src/account.rs`, `main.rs`, `api_client/src/{auth,session,web_api}.rs` | session file, claim code at the server | several commands, crashes | `AccountCli` |
| API client | `api_client/src/http_client.rs`, `api.rs` | attempts, credential | caller, whoever replaces the credential, server | `ApiRequests` |
| tunnel operations | `playit-runtime/src/{handle,tunnels,error}.rs` | lifecycle, API of the agent, tunnels of the account | callers, supervisor, server | `TunnelRequests` |
| tray | `playitd-tray/src/windows` | flags and menu of the window, two channels | window thread, backend thread, user, service | `Tray` |
| generated types, terminal UI, installer, platform code | `api_client/src/api.rs`, `playit-cli/src/ui`, `playitd-windows-setup`, `playitd/src/{unix,linux,windows}.rs` | | | no, see *Not modelled* |

How they interact. The **tunnel task** drives the control connection and hands
UDP session details to the **udp task** over a channel of eight. The udp task
owns the virtual clients and the UDP channel, raises the flag that makes the
tunnel task ask for new details, and is the only reader of the channel all
receiver tasks write to. UDP packets come from two **pools**, one for packets of
the tunnel and one for packets of the origins. The
**supervisor** builds the agent from a secret, runs it with three tasks that
publish statistics, account state and the state of the control connection, and
builds it again when it stops. It gets its secret from the **file**, or from
callers and claim tasks through the **provisioning** channel. `PlayitHandle` is
what IPC and embedders call; events go through a broadcast channel to
subscribers. A **daemon** hosts one runtime and one IPC server; of several
daemons on one endpoint one may serve. On Windows a service process runs a
daemon as its child. The **command line** and the **tray** start, stop and reset
the daemon through IPC and the service manager, which starts a failed daemon
again. Everything that needs the account goes through the **API client**.

What is hard about it: state that is read before an await and used after it
(every reload of the control connection); several tasks that publish without a
lock over cache and event; handles that must be joined exactly once; a task
that waits for another one that is blocked on a channel only the first reads;
identities that are reused while old packets are in flight; lost, late and
reordered datagrams; a crash between two steps of a file replacement; requests
without a timeout.

## Reading the models

An action is what one task does between two points at which it can be
interrupted: two awaits, or, for the lock-free pool, two atomic operations.
Definitions keep the names of the source where one function is one step; a
function with several awaits is several actions, each named for what the await
returned. Time stamps are reduced to what the comparisons of the code tell
apart (recent or old; passed or not). Payloads are left out or are model values.
Every module has one type invariant. The configurations leave it out: TLAPS
proves it, but for `IpcConnection`, `Tray`, `UdpSession` and `WireFormat`, of which
TLC finds no violation when it is added to the configuration. A property that a
configuration names may be the conjunction of several; the parts are definitions
of their own, with their comments. Definitions introduced as *mutated form* are
plausible bugs; no specification uses them. They record, for each property, a
change of the code it catches.

Four runs (`control`, `udp`, `agent`, `interfaces`) check several components that do
not interact. Their MC modules hold the variables of all; the variable `which`
is chosen at the start and says of which component the behaviour is, and the
others stay in one initial state. Such a run checks each property on the
behaviours of its own component, with that component's fairness, exactly as a run
of its own would. Where the processes of a model are alike, a liveness property
is stated for one of them (a fixed `CHOOSE`), which stands for all.

### `MaintainedControl`: the control connection

State: `control` (flow, Pong kept from authentication, forced expiry, deadline
for the set-up of the session), `last_pong` (zero, recent, old), the failure
count, the pending hard reconnect, `control_state` as announced to clients, and
the locals of the call in progress (`pc`, `call`). Actions follow the loop of
the tunnel task: UDP authentication, `reload_control_addr` with each of its
awaits and failures, `replace_connection`, `update` with re-authentication,
ping, keep-alive, receive and watchdog, and cancellation. What the network, the
server and the API return is arbitrary.

In the run `control` (three flows, two of one host; two address lists; a
counter that saturates at four, one above the threshold of three) TLC checks

- `WatchdogArmed`: the watchdog is off only while the session is forced to expire;
- `HardReconnectEarned`: a pending or running hard reconnect stands for three
  failures that were not forgotten;
- `NothingIsForgotten`: no step forgets that the session was set up
  (`SessionBaselineKept`), and a request to rebuild the socket goes away only with
  the start of a forced reload (`HardRequestHonoured`);
- `ConnectedIsUsable`: Connected is announced on a session that is not expired.
  The code has two exceptions, which the property names: a reload that keeps the
  old connection, and a session that was never set up;
- `DeadSessionIsRebuilt`: a session that stays expired makes the loop rebuild its
  socket again and again. It needs that the routing does not change for ever,
  because a periodic reload that keeps the connection clears the failure count.

Three flows are enough for every outcome of the comparisons of flows (the same,
another port of the same host, another host). Fairness: the loop goes on; every
await of it has a timeout or a bound on the messages it reads.

### `ControlServer`: the control connection with server, network and API

Extends `MaintainedControl` with a server that, at some moment, settles: from
then on requests are answered, and by one server, in the way
`connected_control.rs` and `established_control.rs` rely on. Before, everything
is possible. The server is not in this repository and is marked external.

- `control_recovery` checks `SessionRecovers`: after any disturbance, once the
  world has settled, the agent ends up with a session that it does not take for
  expired and that the server has registered for the flow in use. Two flows and
  two address lists; a third flow gives the same result and takes a quarter of
  an hour. Fairness: the loop goes on; of what is sent over and over (pings,
  keep-alives, register requests) some is answered; every thirty seconds the
  routing is asked for.

`HealthyIsReported` (the state shown returns to Connected once the connection is
healthy) is stated in the module and does not hold, see *Findings*.

### `PacketPool`: the pool of packet buffers

`allocate_wait` is a failed pop, then the push of a waker, with other tasks in
between; dropping a packet is a push, then a pop of a waker. Waits can be
abandoned, which leaves stale wakers behind. The run `agent` (two tasks, two
buffers, room for two wakers, two drops in progress) reaches the full queue and
stale wakers. It checks `RegisteredOrWoken` (a parked task has its waker queued or
has been woken) and `WokenByTraffic`: the drop between the failed pop and the
push of the waker is missed, but not the drops that follow. So a waiter needs
traffic: with none it can stay parked beside a free buffer. Fairness: polls and
drops run to their end; a woken task is polled.

### `UdpClients`: virtual clients and their receivers

A client is made for each source and tunnel; its receiver task holds a buffer,
receives, and sends to one channel. The udp task reads that channel, sends to
the tunnel, and removes old clients, awaiting the end of each receiver. The
buffers are those of the receivers' pool. Ports of a tunnel are left out, and with
them the assertion on the offset of a port. The run `udp` (two keys, two slots, two generations, channels of one, three
buffers, so that slots are reused, the channel is full and the pool is empty)
checks

- `SlabIsSound` (`LookupMatchesSlab`, `NoPanic`): slab and lookup agree at every
  await, and with the count in the statistics outside of `clear_old`, whose
  `unwrap` and assertion never fail;
- `DeliveredToOwner`: packets of a removed client never go to the client that
  took its slot;
- `NothingLeaks` (`NoOrphanReceiver`, `BuffersAccounted`): no receiver and no
  buffer leaks;
- `ReceiversEnd`: `clear_old` gets past every receiver, although it runs in the
  only task that reads the channel a receiver may be blocked on (`ShutdownCompletes`;
  the code panics when this takes fifteen seconds; that panic is not an action, the
  property says that the wait ends), and a stopped agent gets every buffer back
  (`StopReleasesAll`).

The slab never holds a client whose receiver has ended by itself (a by-product of
the proof): the branch of `handle_tunneled_packet` that replaces such a client is
never taken. Fairness: a cancelled receiver ends, the udp task goes on after an
await, and the task that sends to the tunnel sends.

### `UdpSession`: how the UDP channel gets and keeps its session

Four tasks and a server: the udp task computes the renew flag and stores it, the
tunnel task asks for details (at most every five seconds) and passes them on with
`try_send`, the send task sends the token, the receive task accepts answers from
the address of the session. A forced reload raises the flag, and the udp task
may overwrite it with what it computed before. Ages of the last answer follow
the comparisons of the code: up to five seconds, up to six, more, never. The
run `udp` (two addresses, two tokens, channels of one, so that `try_send` drops;
the server replaces its session once, and changes either its address or only its
token, so that a late answer to the old session is taken for one to the new)
checks `SessionFollowsServer`: once server and network
have settled, the channel ends with the server's session and is established
again and again, whatever old details, old answers and overwritten flags were
under way. Fairness: tasks run, messages arrive, time passes, and `select`
takes details that are ready sooner or later (tokio chooses at random). It is
an assumption that the udp task reaches its flag: a stream of origin packets
that are all dropped makes it skip that part.

### `Supervisor`: the runtime and the tasks of an agent

The supervisor loads a secret or waits for one, asks for the run data, builds
the agent, runs it with its four tasks, cleans up, retries. The task of the
account state and that of the control state publish as well. To publish is to
write the status, write the lifecycle and send the events; the two sends are one
step because they go to separate registers of the subscriber and nothing reads
between them. `joined` records which handles were consumed: polling one again
panics, as in tokio. Aborting a task takes effect at an await; there is none
between the last write of the cache and its event. The run `supervisor` checks

- `NoStaleAgent`: nothing is announced and no agent is built while a task of the
  last one is alive, so late publications cannot overtake later ones;
- `EventsMatchCache`: whoever reads the cache and whoever follows the events see
  the same state;
- `WaitingIsServed`: WaitingForSecret is seen only while the supervisor takes a
  secret or is on its way there or back, and the API of a rejected secret is gone;
- `ShutdownCompletes`: a shutdown ends, wherever the supervisor was, unless a
  request to the API hangs for ever: the one for the run data and the first one
  for control addresses have no timeout.

`supervisor_retry` shows a violation, see *Findings*. The module has no
constants to bound. Fairness: the tasks run, and the five seconds of the
clean-up pass whatever the tasks do (strong, because the clean-up leaves and
re-enters its wait). Nothing is assumed of the API.

### `Provisioning`: how a runtime gets its secret and loses it

Calls of `set_secret` and `start_claim`, claim tasks, the supervisor at the end
of the provisioning channel, `reset_secret` and a shutdown. The file is one step
here. `provisioning` (one caller, two starters, two codes, a channel of one,
symmetric codes and starters) checks

- `OneLiveClaim`: a code that is handed out belongs to a claim that is running
  (`ClaimCodeLive`), and there is at most one claim flow, however calls interleave
  (`OneClaimFlow`);
- `InUseIsOnDisk`: the secret in use is the one a restart will find, unless a
  reset is under way.

The run `agent` (one of each) checks `ProvisioningReturns`: `SetSecretReturns` (a
call is answered, or the runtime goes on with another secret, in which case the
call waits as long as that does) and `ClaimsEnd` (once the runtime stops every
claim task ends, also one that a late `start_claim` spawned, which the shutdown
does not wait for, and no code is left behind). Fairness: tasks run; a claim flow
is over after ten minutes whatever it waits for. Nobody has to call.
`provisioning_reset` shows a violation, see *Findings*.

### `SecretStore` and `SecretFile`: the secret on disk

`SecretStore` is what the runtime relies on: a register that holds a whole secret
or nothing, that a write replaces at most once, and that a power failure can only
take back to the value that was last on disk. `SecretFile` has the steps of
`secure_write_secret_file_blocking` (create, write, sync, rename, protect,
discard), a reset at any time, death of the process and loss of power between any
two. The directory is not synced by the code: what the path names reaches the disk
at any time after the rename, or never. The run `interfaces` (two secrets) checks
that `SecretFile` implements `SecretStore` (`ImplementsStore`, by the refinement
mapping at the end of the module). A write may fail after the rename; the abstract
register allows a failed write that has stored its value. `FileIsWhole` (a load
never finds half a secret) is proved.

### `TcpClients`: TCP clients and their pipes

The tunnel task announces a client through a bounded channel; the worker looks its
origin up; a task of its own connects both ends, claims, waits for the
confirmation and writes the proxy header, and hands the client back through the
same channel; two pipes move data; the worker drops clients that are idle, and
with itself all of them. Each await of the set-up can fail, time out or find the
agent cancelled. Dropping a client cancels both pipes. The run `agent` (two
clients, a channel of one) checks `ClientsAreAccounted`, made of `StatsMatchList`,
`NoOrphanPipe` (a pipe that runs belongs to somebody who holds its client, or has
been cancelled) and `PanicsOnlyWhenCancelled` (the `expect` of
`handle_new_client`); and `PipesEndInTime`, made of `ActiveIsKept` (no connection
that moved data lately is cleaned up), `CancelEndsPipes` and `EndedIsRemoved`.
Quiet times are those the comparisons tell apart, less than thirty seconds or
more; what is more may be any of the longer ones. Fairness: tasks run, the worker
cleans up every fifteen seconds, and a write ends, which the code puts no bound
on.

### `WireFormat`: messages, footers and headers

Every kind of control message, of the feed, of UDP footers and PROXY headers is
written by the operators that follow `write_to`, loses some bytes, and is read
by the operators that follow `read_from` and `from_tail`. Byte `k` of a field
with value `v` is the pair of both, so a reader that takes a field from the
wrong place does not get its value. The run `interfaces` checks
`DecodesWhatWasSent`, the conjunction of `RoundTrip`,
`NoPrefixDecodes` (no message is the beginning of another), `FooterIsFound`
(whatever precedes the footer, another footer among it), `LengthsAreTrue` and
`VerifiesWhatWasSigned` (the signature is verified over bytes rebuilt from the
decoded message). Inputs: each kind of message, its optional parts present and
absent, both formats of a registration, cut anywhere. The sizes that writers
return and messages declare are not part of it: the writer of the MTU test packet
returns four for its eight bytes, which no caller looks at. An MTU test packet
carries at most the 2048 bytes of its pattern, as the code asserts.

### `IpcConnection`: one connection between a client and the daemon

The publisher writes a register of the cache and then sends the event; the
broadcast channel keeps the last events for a receiver that is slow; the server's
task does the handshake, answers, subscribes, reads its snapshot register by
register, and selects between events, requests and the token; both directions of
the stream are bounded. Values are version numbers. The run `ipc` (two registers,
capacity one, room for one message, two publications, three calls: enough to lag,
to tear a snapshot, and to leave the answer of a failed call in the stream) checks

- `AnswerIsFresh`: a call that succeeds returns a state no older than the call,
  although an event makes a call fail and leaves its answer behind;
- `SubscriberConverges`: a subscriber that has read everything shows what the cache
  holds, although the snapshot is torn and older events follow it. The exceptions
  are named: events the channel dropped, and those a call of its own swallowed;
- `CallsReturn`: every call comes back if the runtime answers. A call is a write,
  during which the client does not read, and then the wait for its response; the
  server's task does nothing else while the runtime answers or while it writes.
  There is one more exception (`Stuck`): a subscriber that goes on calling after
  events interrupted its calls can fill one stream with requests while events fill
  the other; then both sides write and neither reads. It cannot happen to a client
  that has not subscribed.

Fairness: the task of the connection runs, the client writes when there is room
and reads while it waits, and the select of the server takes a request sooner or
later (tokio polls the branches in random order). That the runtime answers is a
premise of the property: `set_secret` may wait as long as the runtime runs.

### `Daemon`, `WindowsService`: processes on one endpoint

`Daemon` is `run_daemon` of several processes: the check for a running daemon, the
removal of the socket file, the bind, the select between signal, token, end of the
runtime and end of the IPC task, and the way out. A consumed handle of the IPC
task is polled again on the way out, which panics. `WindowsService` adds the
service process with its child, its deadlines and its kill. Endpoints are files or
Windows pipes. The run `daemon` (two processes, each started once, and the host)
checks `EndedIsClean` (a process that returns a result has waited for its
runtime), `EndpointIsKept` (a daemon that serves keeps its endpoint, unless two
start at the same time: then the second can take it), `StoppedHasNoChild`, and
`StopsEnd` for a daemon (`StopEnds`) and for the service (`HostStops`).

The host can fail to report a status, which ends it; a `try_wait` or `wait` that
fails counts as the child's exit while the child may live (`blind`); a kill can
fail; and the request to stop goes to whoever serves the pipe. So
`StoppedHasNoChild` excepts a child the system would not tell about, and
`HostStops` has the premise that the waits without a deadline (`AtMercy`:
connection, greeting and answer of the daemon, end of a killed child) are left
again and again. Fairness: the processes run and the runtime ends once asked to,
which `Supervisor` shows for an API that answers; nothing is assumed of the host
where it is at the mercy of another process. `daemon_stop` (one process) shows a
violation, see *Findings*.

### `ServiceCli`: commands that deal with the service

One command (the default one, `setup`, `start`, `stop`, `status`, `reset`,
`attach`) extends `Daemon` with the secret file, the installed service and its
manager, which starts a failed process again (`Restart=on-failure` of
`linux/playit.service`). Polls may give up at any number. Calls fail when the
daemon goes or refuses: `set_secret` unless the runtime waits for a secret, and
when the file cannot be written; `reset_secret` when the runtime stops, has an
inline secret or cannot remove the file. Other clients may bring a secret, too.
The run `control` (two processes) checks `CommandsEnd` (a command ends, unless it
waits for its user or, in `Unwanted`, brings a secret to a runtime that has gone on
with another; that wait ends when the runtime stops) and `ResetTakesEffect` (no
daemon goes on with a secret that was reset). Fairness: daemons and the command go
on, which assumes that a living daemon answers, since no call has a timeout; the
answer to `set_secret` is not assumed; the five seconds of the wait after a reset
pass (strong, since the wait is left and entered again).
`StopIsFinal` and `ResetLeadsToSetup` are stated and do not hold, see *Findings*.

### `AccountCli`: account and claim commands

Several processes run `login`, `logout`, `validate`, `claim approve`, `claim
reject` and `claim exchange` on one session file, which is truncated and written
in place, and on one claim code; any process may be killed at any time. The run
`agent` (two processes, two polls instead of forty) checks `SessionFileIsSound`,
made of `SessionIsGenuine` (whoever acts has a session that was read whole, belongs
to an account and was given the TOTP code it asked for; the answer to that code is
stored unseen, so it may still be pending) and `StoredIsKept` (what a login wrote
alone is found until the next login or logout, also when the file could not be
restricted and the login failed); `VerdictsAgree` (what a command reports is what
the server holds); and `DecidedCommandsEnd`, which excepts a code that was accepted
and lapses before the exchange has its secret. Fairness: requests are answered or
fail, and an exchange is not refused for ever while its claim is accepted.
`WaitIsBounded` does not hold, see *Findings*.

### `ApiRequests`, `TunnelRequests`: calls of the API

`ApiRequests` is `call_with_policy` with the table of endpoints and policies of
`api.rs`: attempts, delays (units of 250 ms), the credential that others replace
between attempts, and a server that may have executed a request whose answer is
lost. The run `interfaces` checks `RetriesAreSafe` (`ChangesRunOnce` and
`WaitIsShort`), with a server that asks for a minute.

`TunnelRequests` has the operations on tunnels: each checks its arguments, reads
the lifecycle, then the API of the agent, sends one request and translates the
answer; the supervisor replaces lifecycle and API in between, other callers and
the server act, and another client of the account may create, change or delete a
tunnel. `asked` is a history of who asked last for what. The run (two agents, one
requester, one tunnel) checks `AnswersAreTrue`: `RefusedIsUndone` (an error code
that blames the request means that nothing was changed), `DeletedIsGone` and
`ListingIsTrue` (a listed tunnel has the agent, address and port of the last request
for it, although the agent was read from one lifecycle and the request sent with the
API of a later one).

### `Tray`: the Windows tray

A window thread that never blocks, a backend thread, two bounded channels, a
posted message as wake-up, and a menu whose modal loop goes on handling timers
and answers. Setting the tooltip, building the icon, starting the timer and the
backend's runtime can fail, and so can its queries of the service. The run
`interfaces` (room for one request and one answer, so that with the one the backend
works on three are under way and both channels are full; one event) checks
`NothingIsLost`, made of `FlagsMatchFlight` (the two flags say what is in flight,
never two of a kind), `TooltipIsTracked` and `AnswersAreAnnounced`. Both exceptions
are of a `set_tooltip` that fails: the old text stays (`stale`), and an action that
was marked as pending is not sent and keeps its mark (`jammed`).
`MenuFollowsService`: the menu ends up showing the state of a service that keeps
it, if queries succeed from some time on and calls of the backend return (`InCall`),
unless the tray is closed or its backend never came up. These are premises of the
property. Fairness: both threads run and the timer fires, but for calls of the
daemon or the service manager, which have no deadline; the user owes nothing.

## Findings

Each is a run that TLC finds violated; `PROJECT.json` quotes the line that says
otherwise.

- `supervisor_retry`: the agent stops by itself while the account state is being
  polled; the clean-up times out and awaits a handle that was consumed, which
  panics the supervisor. It does not retry.
- `daemon_stop`: a stop over IPC ends the IPC task as well; when the select of
  `run_daemon` takes that branch, the consumed handle is awaited again
  (`daemon.rs:184`), which panics before the runtime is shut down.
- `provisioning_reset`: a provisioning request that overlaps `reset_secret` is
  persisted after the file was removed; the next start finds a secret.

The models show some smaller things that no run is spent on. The first four are
definitions of the named module that TLC finds violated when they are added to
a configuration.

- `HealthyIsReported` (`ControlServer`): a reload that sees changed addresses
  announces Reconnecting before it knows whether it will replace anything
  (`maintained_control.rs:95`). If it fails and the addresses change back,
  nothing announces Connected again on a connection that was healthy all the time.
- `StopIsFinal` (`ServiceCli`): when the select of `run_daemon` sees the end of the
  IPC task first, the way out panics (`daemon.rs:184`). `playit stop` says that the
  service stopped (`client.rs:417`), and a service manager that restarts on
  failure starts it again.
- `ResetLeadsToSetup` (`ServiceCli`): "Reset it now and run setup again?"
  (`client.rs:94`) stops the daemon and waits five seconds for one that waits for
  a secret. Without a manager nobody starts it.
- `WaitIsBounded` (`AccountCli`): "Number of seconds to wait" (`main.rs:173`) is not
  looked at by the first loop of `claim_exchange`, which polls as long as the claim
  is undecided.
- A tooltip that cannot be set while Start or Stop is being sent
  (`frontend.rs:552-554`) leaves both items disabled until the tray is closed: only
  an answer to one of them clears the mark (`jammed` in `Tray`).
- A subscriber that goes on calling can block itself and its task of the server
  (`Stuck` in `IpcConnection`).
- A `select` that sees the agent's end after a shutdown was requested consumes the
  same handle as in `supervisor_retry`, and the clean-up panics on it
  (`runtime.rs:522`), so `shutdown` can return an error while tasks of the agent
  still run; this is why `NoStaleAgent` lists `panicked`.
- `shutdown` does not wait for a claim task that `start_claim` registers after both
  calls of `join_claim_tasks`.

## Proofs

TLAPS checks the following for every value of the constants. Every safety property
that a passing run checks is among it, but for the codecs of `WireFormat`. The
proofs use the named assumptions of the modules and nothing else:

| assumption | says |
|---|---|
| `FlowsAssumption`, `NoneAssumption`, `DistinctValues`, `AbsentAssumption`, `AccountAssumption` | `None` and the like are no members of the sets (`AccountAssumption`: and `Rounds` is a number) |
| `FailuresAssumption` | the failure counter saturates no lower than its threshold |
| `PoolAssumption`, `ProvisioningAssumption`, `RetryAfterAssumption`, `BoundsAssumption` | capacities and bounds are natural numbers, those of channels that must move positive; the registers of `IpcConnection` include status and lifecycle |
| `TcpAssumption`, `SlotsAssumption` | clients are finitely many; the slab is finite and numbered from zero |
| `DaemonsAssumption` | there is a daemon, and `"none"` and `"stale"` are none |

TLC evaluates them in the runs. The bounds of the models (calls, publications,
generations, wakers) are constants like the others: the theorems hold for any.
The eight proof modules follow the same order: operators and their lemmas, the
invariant, one lemma or case per action, the theorems. Components that share a
proof module share no state.

### `AgentProofs`

*Packet pool*: `PoolTypeCorrect` (conservation of buffers among it) and
`NoStrandedWaiter`. `PoolTypeOK /\ RegisteredOrWoken` is inductive; what needs an
argument are the two lemmas on the queue of wakers: an append keeps who is queued
and adds one, and a pop takes away only its head, who is woken in the same step.

*TCP clients*: `TcpTypeCorrect`, `ClientsStayAccounted`, and the action property
`ActiveClientsAreKept`. `ClientsAreAccounted` compares a counter with a set; it
needs `QueueOK`: a message in the channel is for a client that waits for this
message, and no client has two. Without it the worker could list a client twice, or
one that was dropped. Lemmas on cardinalities reduce the counter to the one client
that a step moves.

*Control connection*: `ControlTypeCorrect`, `WatchdogStaysArmed`,
`HardReconnectIsEarned`, `NothingIsEverForgotten`, `ConnectedImpliesUsable`. The
invariant `ControlInv` adds `RequestPending`: a request to rebuild the socket waits
only at places of the loop from which the next reload comes before any step that
forgets the failures. Without it a successful authentication could clear the count
under a pending request. Lemma `FailureCounted` is all that is needed about the
counter. The action properties follow from one step under `ControlInv`; lemma
`ConnectedSteps` names the four actions that can disturb two of them.

*With the server*: `ServerImplementsControl` (every step of `ControlServer` is one
of `MaintainedControl`, or leaves its variables alone: `ServerMovesAgent`) and
`ServerTypeCorrect`; so `RecoveryIsSafe`: what is proved of the control loop holds
in the composition, too, in which `SessionRecovers` is checked.

### `UdpClientsProofs`

`UdpTypeCorrect`, `SlabStaysSound`, `PacketsReachTheirOwner`, `NothingEverLeaks`.
The invariant `UdpInv` adds two facts to the checked ones: `SlabIsServed` (a client
of the slab has a receiver that runs on its socket and that nobody cancelled) and
`IdsAreFresh` (an identifier is given to one receiver only). `HeldMoves` and
`AccountStep` reduce the count of buffers, a sum over all receivers, to what one
receiver takes or gives back; `HighestSlot` and `SlabFacts` say what the slab hands
out. Packets of a removed client are refused because generations only grow.

### `SupervisorProofs`

`SupervisorTypeCorrect`, `NoAgentOutlivesItsRun`, `EventsAgreeWithCache`,
`WaitingIsAlwaysServed`. `SupervisorInv` says what makes two publishers harmless:
in the clean-up every task that is alive is still awaited (`TasksOK`), each half of
the cache is what was sent or what its only writer is about to send (`EventsOK`),
and whoever announces that the runtime waits for a secret goes there and has no API
(`WaitingOK`). The state is finite, so the run is exhaustive; the proof says why.

### `ServiceProofs`

*Provisioning*: `ProvisioningTypeCorrect`, `OneClaimStaysLive`, `UsedSecretIsOnDisk`.
`ClaimCodeLive` needs `CodeIsKept`: a claim that is on its way has its code in
`claim_code` until it clears it. `InUseIsOnDisk` needs `AckedIsOnDisk`: a secret
that is about to be acknowledged is in the file.

*Tunnel operations*: `OperationTypeCorrect`, `AnswersStayTrue`. The invariant
`OperationInv` follows each operation: one that is not answered has not been
executed, a tunnel it names has existed, and what is at the server is what was
asked for last (`TunnelOK`). What a finished operation said stays
true because a tunnel that is gone does not come back and what was asked for stays
asked for (`Grows`, `CallsOutlast`).

### `InterfacesProofs`

*Secret file*: `FileTypeCorrect`, `SecretStaysWhole` and the refinement
`FileImplementsStore`. The invariant says that the path and the disk name only
synced files, and that the temporary file is synced when it is about to be renamed.
Every step of the files maps to a step of the register or leaves its variables alone.

*API requests*: `ApiTypeCorrect`, `RetriesStaySafe`. `CountInv` bounds executions and
time slept by the attempt that is under way; the rest is the table of policies.

*Tray*: `NothingIsEverLost`. The flags of the window count requests in two
channels and in the backend; `Flight` is that count, and one lemma per operation on
a channel says by how much it changes. `QueueOK` is the strengthening: one menu at a
time, and an action that was chosen from it is the next event, chosen while none
was pending.

### `IpcConnectionProofs` and `SubscriberProofs`

`AnswersStayFresh`: the invariant `IpcInv` follows an answer from the registers to
the client. `IdsAreOld`: every identifier in a stream or in the server is one the
client has used. `AnswerUnderWay`: what is on its way under the identifier of the
current call was read after the call began. `AnswerIsFresh` alone says nothing about
messages in flight.

`SubscribersConverge`: `SubscriberInv` says of each register (`FieldOK`) that no
version on the way is newer than the cache (`NoneIsNewer`), that among the events on
the way the newest comes last (`NewestIsLast`), that unless an event was lost the
newest version is in the channel, in the task, in the stream or shown (`Arrives`),
and that a snapshot that is older than the cache is followed by the newest event
(`IsCaughtUp`). This is why a torn snapshot and the older events behind it do no
harm. Before the first snapshot client and server take turns (`Lockstep`). The
lemmas have one case per place a version can move to; actions are then instances of
them, for all registers at once. `CallersNeverStick`, the safety half of
`CallsReturn`, follows from the same invariant: a client that has not subscribed
takes turns with its server.

### `DaemonProofs`

*Daemons*: `DaemonTypeCorrect`, `EndedDaemonIsClean`, `EndpointStaysKept`.
`EndpointIsKept` needs `OneStarts` (without a race one process at a time is between
check and bind) and `FoundFree` (a process past its check found nobody serving, and
nobody has begun to serve since).

*Service host*: `HostImplementsDaemon`: the host starts, asks and kills its child,
which are steps of `Daemon`; so `DaemonsUnderHost`. `StoppedServiceHasNoChild` and
`HostTypeCorrect` need `HostInv`: the host has a child exactly while it deals with
one, and the child was started (`ProcessesMoveOn`: no process comes back).

*Commands*: `CliImplementsDaemon`: reset, stop, start and kill of `ServiceCli` are
requests that `Daemon` allows, or change nothing; so `DaemonsUnderCli`, and
`CliTypeCorrect`. `CliInv` adds that a process the command is connected to has an
IPC task until it ends (`TasksStay`); otherwise the requests of a command would be
ones that no client of `Daemon` can make.

*Account*: `AccountTypeCorrect`, `SessionFileStaysSound`, `VerdictsAlwaysAgree`.
`AccountInv` says of each process that what it is about to write is its own and was
given its code if it wanted one, that nobody is in the middle of a write while a session counts as stored, and
that a verdict is what the server decided; a decided claim stays so.

### Only model-checked

On the instances above:

- everything about liveness, which is out of the reach of this prover:
  `DeadSessionIsRebuilt`, `SessionRecovers`, `WokenByTraffic`, `ShutdownCompletes`,
  `ReceiversEnd`, `SessionFollowsServer`, `ProvisioningReturns`, `CallsReturn` (but
  for `CallersNeverStick`),
  `StopsEnd`, `CommandsEnd`, `ResetTakesEffect`, `DecidedCommandsEnd`,
  `MenuFollowsService`, and `PipesEndInTime` but for its part `ActiveIsKept`;
- `DecodesWhatWasSent`: what recursive definitions compute is an induction over
  data, which is out of reach as well, and `WireFormat` declares RECURSIVE operators;
- the type invariants of `IpcConnection` (its bound is a sum over the registers; the
  proofs use the weaker `IpcTypes`), of `Tray` (the proof uses `TrayInv`, which has
  the types it needs) and of `UdpSession`, of which only liveness is claimed.

## Not modelled

- Wall clocks: the subtractions of `u64` time stamps in the control loop wrap
  when the clock is set back; the models have only the outcome of comparisons.
- The path-MTU probe, the pauses of the address selection, statistics beyond the
  counts that a property names, logging, wording of errors.
- The contents of payloads; parsing of the secret file, of JSON lines, of web
  pages and of options.
- `account` and `account_login_url` of `PlayitHandle`: a guest link is kept for
  fifteen seconds and survives a change of the secret. `connect_address_text` and
  `tunnel_type_name` are texts.
- The table of origins and the choice of a local address: pure look-ups whose
  outcome (found or not) is a choice of the models that use it.
- The tunnel commands of the command line, each one IPC call; the signal guard.
- Terminal UI (drawing), generated API types, installer, start-up shortcuts,
  permissions, accounts, paths and access lists: calls into the operating system
  without a state of their own.
