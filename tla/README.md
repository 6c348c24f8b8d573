# A verification project for ZCCP

ZCCP (ZeroMQ Command & Control Protocol) relays notifications from publishers
to subscribers through one broker. This directory holds TLA+ models of the broker, of
its C client and of the C codec between them, TLC configurations that check them, and TLAPS
proofs about all of them.
Names in the modules follow the code: `store_new_subscription`, `s_accept_reply` and so on.
All paths below are relative to the root of the repository.

## 1. Inventory

### The parts and how they interact

    application thread            client actor                     broker actor
    zccp_client_connect ... --pipe--> s_client_handle_pipe   DEALER --toServer--> s_server_client_message
    s_accept_reply      <--pipe-- signal_success, ...        DEALER <--toClient-- ROUTER, DELIVER ...

| Part | Source | State | Operations |
|---|---|---|---|
| Broker engine | `zccp_server_engine.inc` | hash table of client records (state, event, mailbox, timer) | `s_server_client_message`, `s_client_execute`, `s_client_handle_timeout`, `s_server_api_message`, `s_server_new`, `s_server_destroy` |
| Broker application | `zccp_server.c` | list of patterns, each with a list of pointers to client records; the publication at hand | `register_new_client`, `store_new_subscription`, `forward_to_subscribers`, `get_content_to_publish`, `client_terminate` |
| Broker API, configuration, timers | `zccp_server_engine.inc` | configuration tree, `server.config`, timeout, verbose, port, the timer of each record | `VERBOSE`, `BIND`, `PORT`, `SET`, `CONFIGURE`, `$TERM`, `s_watch_server_config` |
| Client engine | `zccp_client_engine.inc` | machine state, next event, exception, stored timeouts | `s_client_handle_pipe`, `s_client_handle_protocol`, `s_client_execute` |
| Client application | `zccp_client.c` | the command's arguments | `client_method`, `connect_to_server_endpoint`, `signal_success`, `deliver_message_to_application` |
| Client class API | `zccp_client_engine.inc` from line 846 | status, reason, sender, address, content of the last reply | `connect`, `subscribe`, `publish`, `recv`, `destroy`, `s_accept_reply` |
| C codec | `zccp_msg.c`, `.h`, `.xml`, `.bnf` | one message, a cursor in a frame | encode, decode, send, recv, set and get, dup, print |
| Java codec | `main/java/org/zproto/ZccpMsg.java` | the same | the same |
| Go codec | `go/zccp/msg` | the same | Marshal, Unmarshal, Send, Recv; it has no SUBSCRIBE_OK |
| Go codec, older protocol | `zccp/msg` | the same | other ids: READY, REQUEST, REPLY |
| Codecs without messages | `main/java/org/zproto/ZccpServer.java`, `zccp/server/server.go` | none | nothing uses them |
| Programs and tests | `zccpd.c`, `zccp_sh.c`, `zccp_selftest.c`, the `_test` functions | none of their own | they call the parts above |

CZMQ and ZeroMQ (sockets, actors, `zlist`, `zhash`, `zloop`, `zrex`) are outside the
repository; they are modelled from how the code uses them.

### Behaviour that is hard to get right

* The broker is one thread that runs one reactor handler at a time, so its handlers are
  atomic. Its difficulty is in the data: pattern lists hold raw pointers to client records,
  records disappear on GOODBYE, on an invalid request and on a timeout, and a record is
  removed once from each list.
* A record that is idle for `server/timeout` (60 s by default) is destroyed without a word
  to the client. The client learns of it from INVALID, when it next sends something, and
  then says HELLO again.
* The client arms no timer. `engine_set_timeout` stores a number that nothing reads, so
  `expired_event` and the FAILURE reply never happen: whatever the client waits for must
  come by itself.
* Two threads share the client's pipe. Statuses and messages arrive on it in one stream,
  and a call takes the first reply that passes its filter, discarding the others.
* The client's machine has one event for the application's command and for the protocol message of
  the same name: a SUBSCRIBE, PUBLISH or DIRECT that comes from the server acts like a command.
* Only the broker's ROUTER is unbounded. The client's DEALER and the pipes have high-water marks, and
  an actor that sends to a full queue is blocked, deaf to `$TERM`.
* Publications, answers and re-greetings interleave on one stream to the client, and each
  state of the client handles a different subset of them.
* The configuration tree is replaced by CONFIGURE and by a monitor that reloads its file; the
  application's pointer, the timeout and `verbose` must follow it.
* Messages are encoded in two passes, one that adds up the size of the frame and one that fills it,
  and decoded from whatever a program sent. Objects are reused under other ids, and hold
  fields that their id does not have.
* A broker that stops takes all records, patterns and queued messages with it, and clients
  are not told.

### What makes each part correct

* Broker: no list refers to a destroyed record; an expression has one pattern and a client
  is once on its list; a client keeps its subscriptions as long as its record lives; a
  publication yields exactly one copy per matching subscription of every other client
  (`README.md` lists the multiple copies as a known problem, so one per
  *subscription* is what the code intends), and nothing to anybody else.
* Client: a status reaches the call it belongs to; an answer that is awaited is on its way;
  `destroy` is held up by nothing but a full queue.
* Codec: what is sent arrives as it was meant, and can be passed on; what is cut is refused; the two
  passes agree.
* Configuration: pointers, options and timers follow the tree in force; a record has one timer.
* Together: both sides agree on who is greeted; a subscription that was confirmed is held;
  no application gets what it did not ask for; calls return.

`PROJECT.json` lists the hazards at their lines, with the properties that cover them.

## 2. The modules

| Module | Models | Checked with |
|---|---|---|
| `ZccpNetwork` | message kinds, with the fields that handlers read; the streams between the broker and each peer | the others |
| `PubSub` | abstract: what the broker promises, without tables, lists or timers | `ZccpServerPeers` |
| `ZccpServer` | broker: engine and application | the others |
| `ZccpForward` | the broker, with the walk of `forward_to_subscribers` taken apart, shown to implement `ZccpServerPeers` | `MCForward` |
| `ZccpConfig` | the broker's actor API, configuration tree, file monitor and record timers | `MCConfig` |
| `ZccpCodec` | operators: the octets of a message, encoding and decoding | `ZccpMsg` |
| `ZccpMsg` | message objects of two applications, and what they send each other | `MCMsg` |
| `ZccpServerPeers` | the broker among peers that send anything | `MCServer` |
| `ZccpClient` | client: actor, class API, an application that makes any calls | the others |
| `ZccpClientPeer` | the client facing a server that sends any message, those of clients included | `MCClient` |
| `Notifications` | abstract: the service as applications see it, without sessions, protocol or threads | `ZccpSystem` |
| `ZccpSystem` | broker and clients together, record timeouts, broker restarts | `MCSystem` |
| `ZccpServerLemmas` | what the broker's handlers do to lists and streams, whoever the peers are | TLAPS |
| `ZccpServer_proofs` | proofs about `ZccpServerPeers` | TLAPS |
| `ZccpForward_proofs` | proofs about `ZccpForward` | TLAPS |
| `ZccpClientLemmas` | what an actor and its application do to pipe and streams, whoever the server is | TLAPS |
| `ZccpClient_proofs` | proofs about `ZccpClientPeer` | TLAPS |
| `ZccpSystem_proofs` | proofs about `ZccpSystem`, from the lemmas of both sides | TLAPS |
| `ZccpConfig_proofs` | proofs about `ZccpConfig` | TLAPS |
| `ZccpMsg_proofs` | proofs about `ZccpCodec` and `ZccpMsg` | TLAPS |

The invariants that the broker keeps among any peers (`SubscribersRegistered`, `DistinctPatterns`,
`NoDuplicateSubscribers`) are stated in `ZccpServer`, and what the client keeps (`StatusBelongs`) in
`ZccpClient`, because the proofs about the whole system use them too; the runs check them through
`ZccpServerPeers` and, as `StatusBelongsToCall`, `ZccpClientPeer`.

### State and actions against the code

`ZccpServer`. `clients` is the key set of the hash table, `identifier` the
`client_t.identifier` of each record, `patterns` the `zlist` of `pattern_t`, each with its
list of clients. A handler of `s_server_client_message` is one action
(`HandleHello`, `HandleSubscribe`, ...), split by request and by state of the record; it
includes everything `s_client_execute` does before it returns. Two facts of the code allow this
granularity: the reactor runs one handler at a time, and every
event that a handler raises in another record (`forward_event`) is executed, to its end, within it.
Since both states accept every message, mailboxes are empty between handlers,
and a record that ends a handler in `start_state` has been destroyed, so the table holds only
records in `connected_state`. `external_state` is never entered.
`s_client_destroy` is the removal from the table together with `client_terminate`.
The end of the reactor (`$TERM`, or a message for which `zccp_msg_recv` returns NULL) empties everything.

`ZccpForward` adds the cursors of the two `zlist`s that `forward_to_subscribers` walks
and the publication at hand. `BeginForward` takes the request and sets the outer cursor,
`VisitPattern` is one test with `zrex` and the start of the inner loop, `VisitClient` one turn
of the inner loop with the `forward_event` it executes in the recipient, `EndForward` the return. The other
handlers run only between walks; peers send and receive at any time. The
refinement counts the copies that the walk has still to send as sent.

`ZccpConfig`. `heap` holds the tree at each address that was not freed; `config` and
`server_config` are the pointers of `s_server_t` and `server_t`, and outlive what they point to:
`zconfig_load` may hand out the address that `zconfig_destroy` freed. Actions are the branches
of `s_server_api_message`, `s_watch_server_config`, and `Edit` for whoever writes to the file.
`MessageArms`, `MessageEnds` and `TimerExpires` are `s_server_client_message`,
`s_client_destroy` and `s_client_handle_timeout` as far as timers go; what the same handlers do to
subscriptions is `ZccpServer`'s. `unloaded` is a history variable.

`ZccpCodec` and `ZccpMsg`. An octet is a number, a C string the sequence of its octets, a
dictionary a function, a `zmsg_t` a sequence of frames. `Serialized` is the second pass of
`zccp_msg_encode` and `frame_size` the first; `Layout` has the fields of each id in their order, so that one
`PutField`, `FieldSize` and `GetField` stands for the cases of the three `switch` statements.
A reader is the octets that are left, and NULL the jump to `malformed`. `Orders` are the orders in
which `zhash_first` and `zhash_next` may yield the entries. In `ZccpMsg` each end has one object at
hand; the actions carry the names of the functions (`SetId` is `zccp_msg_set_id`, `SendFields` all of
`zccp_msg_send_hello` ..., `EncodeFields` all of `zccp_msg_encode_hello` ...).

`ZccpClient`. `state` is the machine's state, or how the actor ended; `commands` and
`replies` are the two directions of the pipe. Actor actions are named for the transition;
application actions carry the names of the API. `s_accept_reply` is one iteration of
its loop. `granted` is a history variable: the expressions for which `subscribe` returned 0.
`ActorSubscribesUnasked`, `ActorPublishesUnasked` and `ActorDirectsUnasked` are what a SUBSCRIBE, PUBLISH or
DIRECT of the server does in `connected_state`; elsewhere it is discarded (`ActorIgnoresReply`). In `ZccpClientPeer` the
server sends any message, and `prompted` is a history variable: the clients that were ever sent a
SUBSCRIBE. The broker of this repository sends none of the three.

`ZccpSystem` conjoins the actions of the two with UNCHANGED of the other side, and adds
the faults: `ClientExpires` (the record's timer), `BrokerStops`, `BrokerStarts`,
`StreamLoses` (a stopped broker's queues) and `PeerGone` (a ROUTER drops what it
cannot route). `HasRoom` guards every step of an actor: `zccp_msg_send` needs room in the DEALER when the
broker is gone (`DealerRoom`; a broker that is there takes all that comes), and a reply needs room in the pipe
(`PipeRoom`), `HighWater` messages in either. The pipe towards the actor has no such guard: an
application that is blocked at it makes no further call, and none is ever bound to make one. `forgotten` is a history variable: the clients whose record a fault has taken.

`Notifications` has for each application an outbox, an inbox and the expressions that are in force. `ZccpSystem` is shown to
implement it. An outbox is what is under way to the broker followed by the commands in the pipe, an inbox the replies in
the pipe followed by what is under way from the broker (`Outbox`, `Inbox`); a message counts for what it is to applications, and greetings,
answers and statuses are `Nothing`. So an actor that passes something on does nothing that the service shows. An
application that takes a reply, and whatever a state of the client discards or a stream loses, is `Thin`, which takes out one
stretch of a box. `Thin` may lose anything, as the code may (section 5); it cannot make up, repeat or
overtake anything, and what it loses in a box changes no subscription.

### Abstractions

* An expression is a model value and `Matches[e]` the set of addresses it matches
  (`zrex`). Contents, headers and identifiers are model values.
* In the modules other than the codec's, a message is a record of the fields that its receiver reads. Frames that cannot be decoded are
  one kind, `UNDECODABLE`.
* A timer may expire at any time in which its record exists, so the model contains every length of
  timeout.
* Strings given to the setters hold no zero octet (they are C strings), and neither they nor the values of
  headers hold a percent sign (the setters take a format). `MsgAssumption` says so.
* An option's value is the number that `atoi` makes of it. `server/background` only
  directs the log.
* `zsock_bind` may succeed or fail; `port` is the endpoint it stands for.
* A connection keeps its routing id while the broker restarts. A client that drops its connection
  and comes back under another id is another client.

### The order of the work

The broker, its abstract specification and their proofs; the client; the two together; the
walk of a publication; configuration and its proofs; the codec; the proofs about the client, the walk,
the whole system and the codec; the service as applications see it, and the proof that the whole system implements it. Every
safety property and every refinement that a passing run checks is a theorem.

## 3. The runs

| Run | Configuration | Shows |
|---|---|---|
| `server` | 2 peers, 2 overlapping expressions, 2 addresses | the lists are sound, subscriptions are kept, the broker implements `PubSub` |
| `forward` | 2 peers, 2 expressions that match one address | a walk only meets live records; it implements the atomic handler |
| `config` | 1 file with two possible contents, 2 addresses of trees, 2 clients | pointers, options and timers follow the tree; a changed file is taken up |
| `codec` | strings of 0, 1 and 255 octets, values of 256, two frames of content, 17 frames of other programs | messages arrive as meant and can be passed on; what is cut is refused; the frame fits |
| `client` | 1 client, 4 calls in any order, a server that sends any message at any time | a status belongs to the call that is waiting, unless the server sent a SUBSCRIBE |
| `system` | 2 clients, 3 calls each in any order, 2 overlapping expressions, one timeout and one restart | clients that were never forgotten agree with the broker and get their copies; awaited answers are on their way; nothing unasked for arrives; the system implements `Notifications` |
| `liveness` | 2 clients, 3 calls each, one timeout and one stop, queues of one message, fairness | unless the broker was stopped, forgotten clients come back, and calls return but for those met by an INVALID; `destroy` returns even then, unless a full queue blocks the actor for good |
| `headers_dropped`, `lost_subscription`, `dropped_copy`, `connect_blocks`, `long_string` | small | the findings of section 5 |

### Bounds

`MaxRequests` and `MaxReplies` bound the streams of arbitrary peers: the broker handles one
request at a time and looks at nothing behind it, and it never reads what it has sent, so
one request in flight per peer reaches every state of the broker. `MaxCalls` is the number
of API calls of each application; with three, one
client can connect and subscribe to both expressions while the other connects, subscribes and publishes. `destroy` is not counted.
`MaxFaults` bounds timeouts and stops, each. `HighWater` is one in `liveness`, so that a single PUBLISH after
the stop fills the DEALER and a single copy the pipe; in ZeroMQ it is 1000 by default, and only its being reached matters. Clients are interchangeable, and `system`, which has no liveness property, uses that symmetry (`MCSymmetry`). Two clients suffice for a publisher and
a subscriber, and for a subscriber that publishes itself; lists of any length are
covered by the proofs. `MaxQueue` and `MaxPipe` bound what an arbitrary server sends
ahead. In `forward` both patterns match, so that a walk moves through two lists, both with the
publisher in them; one address is enough because what does not match is passed over in one step.
In `config` two addresses are enough: one tree is in force, and a reload holds
a second while it replaces it. `MaxTimers` is one more than the clients, for the timer that is armed
when each has one. In `codec` an application composes only while nothing is under way and the other
has no object, and sets at most `MaxFields` fields of an object, so that two strings, or one and the
headers, meet in a message; `zccp_msg_send_hello` and the others set them all. `Orderly` restricts applications to one connect before all other calls; the runs with
`Orderly = FALSE` also make the calls that abort or block the client.

Deadlock is checked in `server`, `forward`, `config` and `codec`, and off in the others, where applications stop when they have made
their calls and a stopped broker need not return.

### Fairness

`ZccpSystem!Fairness` is weak fairness of four kinds of steps. The broker's reactor handles
what waits on its ROUTER, which queues fairly among its peers; each client actor's
reactor handles what waits on its pipe and DEALER, but may take no step at all while one is enabled that there is no
room for (`Blocked`: it may be in that send); a thread in `s_accept_reply` takes
a reply that has come; `zactor_destroy` is completed. No fairness is assumed of
applications entering a call, of timers, of stops, or of a broker coming back.

`ZccpConfig` has weak fairness of `s_watch_server_config`, which the reactor calls every second for as
long as it runs.

### Mutants

Each property of a passing run has a mutant: a definition of the
code replaced by a plausible error, named and commented just before the definition it stands in for
(`TerminateInFirstList`, `HelloOkAlwaysReported`, ...). TLC must then find the property
violated. The mutants are no part of the specifications.

## 4. The proofs

Every theorem is about the specification that a run checks, for all values of its constants: any
sets of clients, expressions, addresses, identifiers, headers and contents, any bounds, any number of calls and
faults. What the constants must satisfy is stated where they are declared:

* `NetworkAssumption`: `Matches` maps expressions to sets of addresses; the empty identifier and header
  dictionary are among the identifiers and headers.
* `ClientAssumption`, `SystemAssumption`: bounds are numbers, that of the queues is not zero, and the faults are timeouts
  and stops.
* `ForwardAssumption`: "no client" is not a client; there are finitely many expressions. (The refinement counts
  the copies that a walk has still to send. An expression is a string whose length is sent in one octet, so the
  assumption holds of the code.)
* `MsgAssumption`: what applications set are C strings and dictionaries of C strings, without percent signs (above); contents and what other
  programs send are frames of octets.
* `ConfigAssumption`: values of options are integers, contents are options and endpoints, and
  neither "no file" nor "cannot be loaded" is mistaken for a file or its contents.

### The broker among any peers (`ZccpServer_proofs`, `ServerSpec`)

* `TypeCorrect`: `[]ServerTypeOK`
* `NoDanglingSubscriber`: `[]SubscribersRegistered`
* `OnePatternEach`: `[]DistinctPatterns`
* `OneEntryEach`: `[]NoDuplicateSubscribers`
* `KeepsSubscriptions`: `SubscriptionsKept`, an action property
* `BrokerImplementsService`: `ServerSpec => ImplementsService`

The three facts about the lists are one inductive invariant, `ServerInv`,
with the types; none of them is inductive alone. A destroyed record leaves no pointer behind only because
`zlist_remove` finds its single entry (`RemoveFirstProperties` needs
`NoDuplicateSubscribers`). `store_new_subscription` adds no duplicate only because the first pattern
of an expression is the only one (`DistinctPatterns`), for its search stops there. `DestroyEffect` and `StoreEffect` state what
the two operations on lists do to everybody's subscriptions; they carry both the
invariant and the refinement.

The refinement maps the lists to the sets `interest[c]` of confirmed expressions. Its
crux is `PlacesCount`: the number of list positions at which a client meets a publication equals
the number of its matching expressions. That is a bijection between positions and
expressions, which exists because entries are unique. Every handler is then one step of
`PubSub` (`ServiceStep`).

### The walk of a publication (`ZccpForward_proofs`, `ForwardSpec`)

* `WalkMeetsRecords`: `[]WalkSound`
* `WalkIsAtomic`: `ForwardSpec => ImplementsHandlers`

`ForwardInv` is `ServerInv` with `WalkInv`: the cursors are within their lists, the inner one only in the list of a pattern
that matches, and the publisher has its record. No other handler runs in a walk, so `ServerInv` keeps the
lists free of destroyed records under the cursors.

In the refinement a client's stream is what it was sent, followed by one copy for each of its places
ahead of the cursors. `BeginForward` is the handler (`BeginIsHandling`: at the start all places are ahead). Each
later step of the walk leaves the sum as it is: `VisitClient` sends one copy and passes one place
(`VisitClientStutters`, with `CopySent`), and `VisitPattern` passes a list only if it has no place of the
publication (`VisitPatternStutters`). Meanwhile a peer that takes a message takes it from what was sent,
which comes first (`TailOfConcat`). With `BrokerImplementsService`, the loops as they are written
implement the abstract service.

### A client facing any server (`ZccpClient_proofs`, `ClientSpec`)

* `ClientTypeCorrect`: `[]ClientTypeOK`
* `StatusIsOfCall`: `[]StatusBelongsToCall`

For a client that was sent a SUBSCRIBE the theorem has nothing to say: its actor subscribes although no call waits, and the
status that comes of it is the next call's to take. `StatusBelongs(c)` is proved for every other
client, and the broker of `ZccpSystem` is shown to send none (`NonePrompted`).

`StatusBelongs` is not inductive: nothing in it keeps a stale command from bringing a status later. `ClientInv`,
and here `PeerInv` for the clients that were not prompted, adds `AskingSound`: while a CONNECT or SUBSCRIBE is still in the pipe of a live actor, it is the only one, it
is that of the call the application is in, no status is in the pipe, and the machine is in no state from
which one could come. Commands that ask for no status, like those of `zccp_client_publish`, may be before it in any number.

### Broker and clients together (`ZccpSystem_proofs`, `Spec`)

* `SystemTypeCorrect`: `[]SystemTypeOK`
* `KeptIsNeverRefused`: `[]NeverRefused`
* `ConfirmedIsHeld`: `[]GrantedIsHeld`
* `NoneWaitsForNothing`: `[]AnswerOnTheWay`
* `NothingUnasked`: `[]OnlyAskedFor`
* `CopyForEveryKeptSubscriber`: `KeptSubscribersGetCopy`, an action property
* `SystemImplementsNotifications`: `Spec => ImplementsNotifications`

`ServerInv` and `ClientInv` hold here too, for their lemmas do not depend on who is at the other end (`BaseStep`).
The rest of `SystemInv` relates the two sides through the streams between them:

* `GreetingInv`: for a client that was never forgotten, either the broker has its record and no HELLO is under way, or it
  has none and, of what is under way to the broker, the first message and no other is a HELLO; no INVALID is under way. A client never sends what ends the broker. A
  client that has not greeted has nothing under way.
* `ConfirmedInv`: a live client has one SUBSCRIBE under way at most, that of its call, and no confirmation beside it; where a
  SUBSCRIBE_OK or a status is under way, the broker holds the expression. So it does when
  `subscribe` returns 0. This rests on `GreetingInv` (a record that lives keeps its lists) and on `StatusBelongsToCall` (the
  status is that of this call).
* `AskedForInv`: subscriptions, SUBSCRIBE requests, DELIVERs and messages in the pipe all come from an expression that the application asked for;
  unlike the others it survives timeouts and stops.
* `AnswerInv`: as long as no broker was stopped, whoever waits has its request or its answer under way.

Instead of taking every action of the system through every invariant, `ClientEffect` and `BrokerEffect` say what a step
can do to one client in a few cases (`ClientDoes`, `BrokerDoes`), and `EveryMove` that each step of the system is, as one client
sees it, one of those or a fault (`Moves`). The invariants are then proved for one client, move by move
(`GreetedStep`, `ConfirmedStep`, `AskedForStep`, `AwaitsStep`). `CopyForEveryKeptSubscriber` combines
`GrantedIsHeld` with the broker's `ForwardEffect`.

`SystemImplementsNotifications` takes each step of the system to one of the service (`SystemServiceStep`) in these parts:

* *Boxes.* `Images` turns a sequence of messages into what they stand for, one by one, and commutes with what is done to sequences
  (`ImagesOfConcat`, `ImagesOfAppend`, `HeadAndTail`, `CutInTwo`). What joins one end of a box, leaves the other, or
  passes from the pipe to the stream within it is the subject of `BoxGains`, `BoxTaken`, `BoxPassedOn`, `BoxLosses`, `BoxEndLost` and
  `BoxGreeting`. They are stated for any two queues, and serve for outboxes and inboxes alike.
* *What passes on stays the same.* A command and the request that the actor makes of it stand for the same item (`CommandItem`), and so
  do a DELIVER and the MESSAGE that it becomes (`ReplyItem`).
* *Clients.* `ClientBoxes`: whatever a client's actor or application does, the boxes gain one item, or are thinned. Without it the
  order in which things are taken, discarded and greeted anew would have to be argued per state of the machine.
* *Broker.* `BrokerServes`: a handler is `Greet`, `Grant`, `Notify` or `Refuse`. `ForwardIsNotify` has the copies of a publication, one
  for each expression in force (by `PlacesCount`, above). For `Refuse` the client must have been forgotten: that is
  `GreetingInv`, for what meets the broker out of turn contradicts it.
* *Faults.* A lost record is `Forget`; a lost message, or a peer that is gone, `Thin` (`LossThins`).

### Configuration (`ZccpConfig_proofs`, `ConfigSpec`)

* `ConfigTypeCorrect`: `[]ConfigTypeOK`
* `PointerFollowsTree`: `[]ServerConfigCurrent`
* `OptionsFollowTree`: `[]OptionsInForce`
* `NoStrayTimer`: `[]OneTimerEach`
* `KeepsVerbose`: `VerboseStays`, an action property

The inductive invariant, `ConfigInv`, adds two facts to what the run checks. A tree that the monitor
finds changed has a file (else the reload would read an arbitrary one). Timer ids differ: without
that, ending a record's timer by its id could end another record's. The rest is the lemma
`Replaced`, that wherever the new tree comes to lie, the old address included, it is the only tree
then; and that each action that replaces or changes the tree reads the options from the new one, or
sets `unloaded`.

### The codec and the applications that use it (`ZccpMsg_proofs`, `MsgSpec`)

* `MsgTypeCorrect`: `[]MsgTypeOK`
* `FrameAlwaysFits`: `[]FrameFits`
* `AcceptedIsPassedOn`: `[]PassedOnUnchanged`
* `CutIsRefused`: `[]CutFrameRefused`
* `MeantArrives`: `ArrivesAsMeant`, an action property
* `SentFieldsArrive`: `zccp_msg_send_hello` and its like, which build and send a message in one call, send what is decoded as
  exactly their arguments. No object is at hand before, so `ArrivesAsMeant` does not speak of them.

They hold for strings, dictionaries, contents and frames of any length and number, not only for those of the run.
Two hypotheses are stated where they are needed:

* `NullApart` (all but the first two): the value NULL, which stands for what is absent, is no string, dictionary, content or reader. In
  the code it is a null pointer.
* `ShortInputs(Known)` (`CutIsRefused`, `MeantArrives`, `SentFieldsArrive`): strings have at most 255 octets, the values of headers at most 2^32 - 1, and
  the names of all entries that applications and other programs use are in a set `Known` of at most 2^32 - 1, the
  numbers that their length octets and the count of entries can state. The code
  checks none of this: the run `long_string` violates it and shows a message that arrives as another.
  `AcceptedIsPassedOn` does not need it, for what was decoded has fitted once (`ReadWithin`, `EntriesWithin`).
  The run `codec` satisfies it, with `Known` the three names in its dictionaries and frames.

The operators of the codec are folds of the community modules, over the fields of a message and the
entries of its headers. The argument about them has these parts:

* *Folds step by step.* `NatSetInduction` is induction for a set of numbers (a least number outside the set would have its
  predecessor in it). With it a fold over a sequence or a finite set
  is shown to have a run, a function from positions to intermediate results (`FoldExists`, `LeftFoldExists`,
  `FlattenSteps`, `EntryFold`, `FieldFold`), about which invariants are proved in the usual way.
* *The two passes agree.* The first pass adds up over a set, in an order nobody knows, and the second writes along a
  sequence: `SumWithout` shows that a sum does not depend on the order, `SumAlong` that it is the sum along any sequence that
  lists the set, and `FrameWritten` that the frame has the size that was added up.
* *Reading at a position.* `StandsAt(a, q, pos)` says that frame `q` agrees with the octets `a` at `pos`, as far as the frame
  goes. For numbers, strings, entries, dictionaries and fields (`Number4At`, `StringAt`, `EntriesAt`, `FieldAt`) a lemma says
  that what stands at a position is read as what was written, if the frame is long enough, and is malformed if it is not.
  `DecodeAt` puts them together for a whole message; complete frames give
  `RoundTrip`, prefixes give `CutRefused`.
* *What is accepted.* `Accepted`: whatever octets another program sends, a message that is decoded has exactly the fields of its
  id, and sizes that can be written again. So to encode it and decode it is to get it back.
* *The specification.* `MsgInv` and `ShortInv` are inductive: all objects at hand are complete and fit the octets that state
  their sizes, and all frames under way are decoded as such objects, or refused. In `ArrivesStep` a duplicate is meant to be
  what its original is (`DupMeant`), although it lacks the fields of other ids.

### Only model-checked

* Liveness (`Reconnects`, `CallsReturn`, `DestroyReturns`, `FileTakenUp`): fairness is out of the prover's reach.

## 5. Where the code and its documents disagree

Each of these runs checks what a comment says and finds it violated.

* `headers_dropped`: the copies of a publication do not carry its headers, because
  `forward_to_subscribers` never sets `server->headers` (`zccp_server.c:205`).
* `lost_subscription`: after its record expired, a client is greeted again and is not
  subscribed any more; its application is not told (`zccp_client_engine.inc:688`).
* `dropped_copy`: a DELIVER that comes while the client waits for SUBSCRIBE_OK is discarded (line 598).
* `connect_blocks`: the connect timeout is stored and never used (line 239).
* `long_string`: a string of 256 octets or more is written with its length modulo 256, and the
  octets after it are taken for what follows (`zccp_msg.c:149`; `zccp_msg.bnf:76`).

Also seen, without a run:

* HELLO carries no identifier, so the sender of every DELIVER is empty.
* A subscribe during which the client must reconnect gets no status, and does not return
  (`zccp_client_engine.inc:688`); `CallsReturn` excepts exactly this.
* A failing `zsock_connect` ends the process in an assertion, where `connect` is said to return -1
  (`zccp_client_engine.inc:369`; `ActorAborts`).
* After a CONFIGURE whose file cannot be loaded, `server.config`, the "Current loaded
  configuration" (`zccp_server.c:32`), points to a tree that was freed, and the timeout of the old
  tree stays in force until the next SET (`zccp_server_engine.inc:845`). `ServerConfigCurrent`
  and `OptionsInForce` except exactly this. Nothing reads `server.config` today.
* A client acts on a SUBSCRIBE, PUBLISH or DIRECT that a server sends as if its own application had
  given the command (`zccp_client_engine.inc:287`, `430`); `zccp_msg.bnf` has them as messages of clients. After a
  SUBSCRIBE a later call may take a SUCCESS that is not its own: `StatusBelongsToCall` excepts exactly this.
* When its broker is gone and its DEALER full, or its application does not read the pipe and that is
  full, the actor blocks in a send and `destroy` hangs (lines 145 and 884); `DestroyReturns` excepts exactly this.
* PORT answers with the outcome of the last BIND command; a bind by CONFIGURE is not noted.
* The setters of strings take a format, and callers pass names and addresses as that format
  (`zccp_server.c:235`).

## 6. Not modelled

* The Java and Go codecs: they are generated from the same description, and nothing in the repository
  builds or runs them. One Go codec lacks SUBSCRIBE_OK, the other has an earlier protocol. A peer
  that uses them is among the arbitrary peers of `ZccpServerPeers` and the `Foreign` frames of `ZccpMsg`.
* In the C codec: `zccp_msg_command`, `zccp_msg_print` and the getters, which only read; numbers of
  8 octets, which no message has.
* `disconnecting_state` and `close_connection` of the client, and `direct` as a command: no API command
  raises the events. `external_state` of the broker: nothing enters it.
* PING: the broker never sends one; the client's answer to it is modelled.
* Interrupts (a NULL from `zstr_recv`), memory exhaustion, logging and printing.
* The main programs and tests: they make calls that the models make in any order.
* The codecs without messages, the build scripts: no behaviour.
