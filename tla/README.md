# Verification of the Tmix / DelayBox / TCP evaluation suite for ns-3

The repository ports the TCP evaluation suite to ns-3. It replays recorded TCP
conversations ("connection vectors") with *Tmix*, delays their packets per flow
with *DelayBox*, and measures links and sockets with *tcp-suite*. This directory
holds TLA+ models of that code, the TLC configurations that check them on small
instances, and proofs checked by TLAPS.

All of it runs inside the ns-3 simulator: one thread, events executed in the
order of their times (equal times in the order of scheduling), callbacks run to
completion. Concurrency is the interleaving of events: receipts at either
side, timers of either side, packets of several flows.

## 1. Inventory

### Tmix connection (`src/tmix/model/tmix.cc`, `tmix.h`)
`Worker` with its subclasses `Initiator` and `Acceptor`. State of a side:
`m_adusToSend`, `m_adusToRecv`, `m_lastSendTime`, `m_lastRecvTime`, `m_closed`,
and the `DoSend` events it has in the simulator. Operations: `Start`,
`ConnectionComplete`, `ConnectionFailed`, `NewConnectionCreated`, `Receive` (data
or FIN), `Closed`, `ScheduleNextSend`, `DoSend`, `CloseIfDone`. The two sides
interact through TCP only; they call back to the user (`m_notifyCvecComplete`)
and to the port allocator (`m_deallocate`). Hard: two receipts before an answer is
sent; a FIN with data on the way; both sides waiting for the other to close; who
notifies. Correct means: no assertion fails, sockets close after all data, an
ADU goes out after the wait the vector gives it and after the ADUs it answers,
every vector completes. Data is a stream of bytes that TCP cuts anywhere: a receipt
may complete several ADUs, or none; a send may find the buffer full.

### Tmix application, helper and port allocator (`tmix.cc` 593-637, `tmix/helper/tmix-helper.cc`)
`StartConnectionVector` of the helper allocates a port, clears loss rates if
asked to, and starts the acceptor and the initiator with a `DelayBox` rule each.
`PortAllocator` keeps a min-heap of returned ports and a next new one; nothing ever
returns one. Correct means: no port of a pair is given to two vectors, since rules and
flows of the first one stay; ports last for as many vectors as there are.

### Connection vector parser (`tmix.cc` 639-756)
Reads an `S` or `C` header and its lines up to the next header; the helper calls it
on one vector and one stream until it returns false. State: the place in the
stream, whether a read failed, the letter `x` read last. Hard: comment and blank
lines, the end of the file, malformed lines, a letter that is stale because the read
failed. Correct means: what is not damaged is read as it was written, nothing is
mixed up, and reading ends.

### DelayBox (`src/delaybox/model/delaybox.cc`, `delaybox.h`, `delaybox-net-device.*`)
A net device hands every packet to `DelayBox::Delay`, which classifies it,
looks its rule up and gives it to a flow of the flow table or sends it at once.
State: the table of flows, per flow its drawn delay, loss rate and link speed, the
end of the last packet, the queue of event ids, the cancelled mark. Hard: the
queue of ids against the simulator's own list of events, cancellation by a FIN
in the middle of a delivery, pruning, reused flow ids. Correct means: order,
delay and link speed are respected, no event runs on a cancelled or erased flow,
every packet is accounted for.

### Rules, keys and classifier (`delaybox.cc` 51-98, 235-273, 388-401; `tcp-flow-classifier.*`)
Maps from endpoints to rules and to flow ids; symmetric mode puts the two
directions in one canonical order. Hard: wildcards against the canonical order, a
change of mode, a second rule with the key of the first.

### Topology and trace helper (`tmix-topology.cc`, `tmix-ns2-style-trace-helper.cc`)
Node pairs on two routers; the trace helper hooks the devices a packet passes and
filters by addresses. Correct means: each packet of a pair yields the nine lines
of its path, in order.

### tcp-suite (`evalstats.cc`, `driver.h`, `create-graph.h`)
`LinkStats`, `SocketStats` and `SinkStats` sample and report every second; `Driver`
reads two files and runs a simulation for each TCP and each value; `PlotGraph`
reads the data files back. Hard: windows that are empty or start with stale
samples, loops that need an end mark.

## 2. Modules

| module | what it is |
|---|---|
| `AduExchange` | abstract: the ADUs of a vector are exchanged, then both sides close |
| `TmixConnection` | one connection in whole ADUs: both workers, TCP between them, the clock |
| `TmixBytes` | the same in bytes and packets, with a send buffer that may fill up |
| `MCTmixConnection`, `MCTmixBytes` | families of connection vectors for TLC |
| `TmixConnection_proofs` | inductive invariants and theorems about `TmixConnection`; it implements `AduExchange`; answers, waits and times of sending |
| `TmixBytes_proofs` | bytes are conserved; `TmixBytes` implements `TmixConnection`, and what follows from it |
| `CvecParser`, `MCCvecParser` | the parser of connection vectors; files for TLC |
| `CvecParser_proofs` | inductive invariant and theorems about `CvecParser` |
| `TmixPorts`, `MCTmixPorts` | helper, port allocator, start of a vector, its DelayBox rules |
| `TmixPorts_proofs` | inductive invariant and theorems about `TmixPorts` |
| `DelayBox`, `MCDelayBox` | flows, flow table, net device, the simulator's events |
| `DelayBox_proofs` | inductive invariants and theorems about queues, events, order, delays, link speed and accounts |
| `DelayBoxRules`, `MCDelayBoxRules` | rule keys, rule lookup, flow classifier; rules and packets for TLC |
| `DelayBoxRules_proofs` | inductive invariant and theorems about `DelayBoxRules` |
| `TmixTrace` | node pairs, the way of a packet, the ns-2 style trace |
| `TmixTrace_proofs` | theorems about the lines of the trace |
| `Evaluation`, `MCEvaluation` | statistics, driver and graphs of tcp-suite |
| `Evaluation_proofs` | inductive invariant and theorems about `Evaluation` |

The three modules of a connection are a tower: `TmixBytes` implements `TmixConnection`
(`ReplaysAdus`: whole ADUs are counted in its bytes), which implements `AduExchange`
(`ExchangesAdus`: ADUs sent and received are counted, waits are forgotten). TLC checks
both steps, and both are theorems, so that what is proved of whole ADUs holds in bytes.

The modules meet where the code does:

* `CvecParser` yields the vectors that `TmixPorts` adds and `TmixConnection` replays.
* `TmixPorts` starts a vector on a port; `TmixConnection` replays it and says when
  it is complete, and that its port is never given back: the branch at `tmix.cc:483`
  cannot be reached.
* `TmixPorts` writes rules; `DelayBoxRules` says which rule and flow a packet gets;
  `DelayBox` takes the flow and what it draws from its rule, and delays.
* `TmixTrace` has the whole way of a packet, through the DelayBox, in which it may
  be dropped or stay for a while.
* `Evaluation` stands apart: it observes a network, which it takes as external.

### State and actions against the code

**TmixConnection.** A side `s` is `"I"` or `"A"`; `toSend[s]`, `toRecv[s]`, `lastSend[s]`,
`lastRecv[s]`, `closed[s]` are the members of its `Worker`. `timers[s]` are the `DoSend`
events it has in the simulator, `inflight[s]` what TCP has not delivered, `fin[s]` the
FIN of its peer. `Receive` is a receipt of any number of ADUs with
`ScheduleNextSend` and `CloseIfDone` as the code calls them; `DoSend` sends a burst: the
first ADU and all that follow it immediately (`DoSend` and `ScheduleNextSend` call
each other). `ReceiveFin` and `Closed` are the callbacks at the end, `ConnectionFailed`
the retry. ADUs are whole: `size` only tells a data ADU from the closing one.

**TmixBytes.** The same variables, read in bytes: `inflight[s]` is what TCP still has for
`s`, and the size of the first ADU of `toRecv[s]` is what is missing of it, as in the code.
`ReceiveBytes` is the loop of `Worker::Receive` on one packet of any length: it takes
off the ADUs the packet completes, and the rest from the next one. `SendBytes` writes
a burst; `BufferFull` is the socket refusing a packet (`tmix.cc:380`), which ends the
program (`full`). The buffer holds at least what has not arrived and at most all that was
written, since when acknowledgements arrive is up to TCP. The other handlers are
those of `TmixConnection`, taken over as they are.

**AduExchange.** `Send`, `Deliver`, `Close` and `End` say what may happen to the numbers of
ADUs sent and received and to the sockets, whatever the reason.

**CvecParser.** Each action is what `ParseConnectionVector` does from one read of `x` to
the next (`at` is the place in it); `ReturnTrue` and `ReturnFalse` are its returns, after
which the loop of `AddConnectionVectors` adds the vector or ends. Text is a sequence of
tokens; a stream is a place in it (`pos`) and a mark that a read failed, and `x` keeps its
letter when one does. `Skip`, `Words` and `EndOfLine` are what `operator>>` and `ignore` do to
the place. A file is its text, the vectors it was written from, and marks: places in the
text with the number of the vector and of the line that comes next. `FilesAssumption` says
what a text is, without the parser: from each mark to the next there is a comment or the
very line (`Follows`, `IsLine`), and at the last mark no line can be read (`NoLine`), as the text
ends there or the line is damaged.

**TmixPorts.** `AddConnectionVector` schedules, `StartConnectionVector` runs at that
time: allocate, drop loss rates, add both rules. `Complete` is the end of a
connection, which leaves the allocator as it is. `top` and `available` are `m_topPort`
and `m_availablePorts`; `started` is a history of all vectors that got a port.

**DelayBox.** `SendAtOnce`, `Lose` and `Enqueue` are the three outcomes of
`DelayBox::Delay` with the net device in front; `Dequeue(e)` is a simulator event
with, for a FIN, `Cancel`. `table` is `m_flows`, `pending` the simulator's own list of
those events. `TablesFor` is find, create and prune. A `Stray` event would be the
failed assertion or the use of an erased flow.

**DelayBoxRules.** `KeyOf`, `Lookup`, `FlowTuple` and `FlowIdOf` are the constructors of
keys, the four lookups with wildcards, and the classifiers, one for each mode;
`AddRule`, `Delay` and `SetSymmetric` the operations, all of them possible at any time.
Which packets a rule speaks of when it was added in one mode and is looked up in the
other is `Covers`.

**TmixTrace.** `NewPair` and `Install` are those functions; `HooksAt` what `Install`
connects to a trace source; `Send`, `Move`, `Drop` a packet on its way, step by step
through the trace sources `MacTx`, `PhyTxBegin` and `PhyRxEnd` of three links.

**Evaluation.** `phase` is where `Driver::Run` is. `SetUp` is the body of the loop up to
`Simulator::Run`, with the `calendar` of events in the order in which they are
scheduled; `SizeReset`, `DynamicSocketFitter`, `ThroughputFinder` run from it;
`ForwardElsewhere`, `ForwardToBottleneck`, `Deliver` and `Change` are the network (a
socket changes its values from its start at 1 s on, whether it is hooked or not);
`Stop` ends the run and the objects of the turn; `CreateGraph` makes one graph. `Sorted`
is `std::sort`, defined by its result: the elements of a list in an ascending order.

## 3. Runs

| run | expected | what it asks |
|---|---|---|
| `any` | pass | vectors of up to four ADUs, whatever their waits: no assertion fails, closes are graceful, no more answers than receipts, concurrent vectors keep their schedule, ADUs are exchanged as `AduExchange` says |
| `bytes` | pass | bytes cut into packets anywhere: the workers still do what `TmixConnection` says; vectors of alternating turns that fit in the buffer: no stray `DoSend`, answers after their requests and their wait, replayed to the end and notified once |
| `turns_close` | violation | turns of several ADUs: "it will be the other side's job to initiate the close" |
| `turns_sendwait` | violation | turns of several ADUs: an ADU goes out before "the earliest time at which the data may be sent" |
| `cvecs` | pass | files with comments, blank lines or one damaged line: what is in front of it is read, nothing is mixed up, reading ends |
| `ports` | pass | ports last as long as they should and none is given out twice; every vector has its own rules |
| `delaybox` | pass | order, delays, link speed, cancellation, pruning, accounts |
| `delaybox_pruned` | violation | after its FIN a flow delays nothing |
| `rules` | pass | lookup and classification against their definition by matching, with the mode changed at any time |
| `trace` | pass | lines are true, in order, complete where they can be, and tell pairs apart |
| `trace_right` | violation | all pairs are traced on all links |
| `evaluation` | pass | reports, files and graphs of several simulations; the program ends |

Runs that expect a violation check one sentence of a comment or a document of the
repository; the counterexample is a behaviour of the code. They are listed under
"findings" in `PROJECT.json`.

### Bounds

* `any`: all vectors of up to three ADUs with waits 0..2 and of four ADUs with waits
  0..1 that `VectorsAssumption` admits, and some in which an answer is overdue
  when it is scheduled, one request with three answers, waits up to 2. Two sides, two
  ADUs of each and two different waits are enough for each pair of ADUs to race. One
  failed attempt to connect. The theorems below need none of these bounds.
* `bytes`: alternating turns of one to three ADUs of one or two bytes and of five of one
  byte, waits 1..2, with and without a closing ADU; turns of several ADUs, three of up
  to three bytes each, so that packets begin and end anywhere in and across ADUs. The
  send buffer has 3 bytes where the code has 2000000000, so that it fills up for some
  vectors and not for others. One failed attempt to connect.
* `cvecs`: two vectors out of three (sequential, concurrent, without ADUs) in five
  layouts, with nothing between the lines in one of them, and every text with one damage:
  cut off at any token, one token lost, one put in, one replaced, a comment in the middle of
  a line or of a header block. One damage is enough to reach each return of the parser.
  Not among them are those that leave another text that is right: a number for a number,
  `I` for `A`. The theorems need none of these bounds but that.
* `ports`: two pairs, two of 64511 ports (1024 to 65534), up to four vectors, so that
  ports run out and one port is in use by two pairs at a time.
* `delaybox`: three flows, one of them without a rule and one with losses; pruning
  above one flow where the code has 100 (`delaybox.cc:214`), so that it happens at
  each size of table; three packets in the first flow: one in front of a FIN, the
  FIN, one behind it.
* `rules`: two addresses, two ports and the wildcard in six patterns, upward, downward and
  within one address, where a wildcard decides the order of the ends; two rules, three
  packets out of five (both directions of two conversations and one of a third), and any
  number of changes of the mode. The theorems need none of these bounds.
* `trace`: two pairs a side, two packets at a time, all types of nodes.
* `evaluation`: two seconds where the code has ten, one stale zero where it has 200,
  the 60th percentile where it has the 95th: lists of up to three samples are too short for
  a place, or have it in the middle or at the end; values 6 and 7 (halves) share
  the name of their files; one change of the socket before it is hooked and one after.

Counters are bounded by the guards that name these constants (`MaxRetries`,
`MaxPackets`, `MaxTime`, `MaxAdded`, `MaxRules`, `MaxPairs`, `MaxChanges`, `MaxVariables`).
`CHECK_DEADLOCK` is off in all runs: a simulation ends when its last event has run, and
the bounded models stop when a bound is reached.

### Fairness

`FairSpec` of `TmixConnection` and of `Evaluation` is weak fairness of `Next`: the
simulator runs until it has no event left, and a packet in flight is such an event.
TCP loses nothing (it retransmits), and an attempt to connect fails only finitely
often. Nothing is assumed about which event comes first beyond the order of
times. `BytesSpec` and the specification of `CvecParser` state the same of their `Next`;
the parser is one call that runs until it returns. `bytes`, `cvecs` and `evaluation` check
liveness with it; so does the counterexample of `turns_close`, which ends in a state
where no event is left.

## 4. Proofs

All theorems hold for every value of the constants that the named assumptions
(`VectorsAssumption`, `MaxRetriesAssumption`, `RulesAssumption`, `BoundsAssumption`,
`PortsAssumption`, `TraceAssumption`, `EvaluationAssumption`, `FilesAssumption`) allow: any set
of well-formed vectors, any flows, rules, addresses, sizes, ports,
pruning limits and times, any number of pairs, packets, simulations, seconds and changes, any
percentile, files of any vectors in any layout with any line damaged. TLC evaluates each
assumption in the runs.

`VectorsAssumption` is stronger than what the constructor of `Worker` checks. That only the
last ADU of a side has size 0 (`Accepted`) is that check. That one of the two waits is zero
(`OneWait`) is the comment at `tmix.cc:269`, which no code enforces, and that the first ADU of
a side has no send wait (`FirstDoesNotFollowASend`) is left to `ScheduleNextSend`: with
a send wait there, the program ends with the fatal error at `tmix.cc:274`. What is
stated of connections is stated of vectors that keep to all three.

Two things come back in several modules. *Recursive functions*: that a sum over a sequence
obeys its recursive definition is a theorem about the existence of such a function,
proved for the prefixes of the sequence (`SumsExist`, `BytesUpToDef`). *Induction*: the
induction theorems of the library take an operator, so `NatInd` is stated for the set of
numbers for which something holds, and follows from the least element of a set of
numbers (`NatMin`) and `NatLessThanWellFounded`.

**`TmixConnection_proofs`.** `TypeCorrectness`, `NeverFatal` (`NoFatal`) and `GracefulClose`
(`CloseIsGraceful`) follow from `Invariance`. `NoFatal` is not inductive: the extra-bytes
assertion needs to know how much is on its way. The invariant adds
`Conserved` (data to send and in flight is data to receive), `QueuesAccepted` (a closing
ADU stays last), `ClosedDrained` and `CloserSentAll` (who closed has sent and
received all), `FinIsLast` (a FIN comes behind all data) and `WaitsAfterASend` (an ADU
that waits after a send has one in front of it).

`Implementation` (`ExchangesAdus`): the numbers of ADUs sent and
received, the closed sockets and the ends seen make every run of `TmixConnection` one of
`AduExchange`. The initial states map to initial states, and on the invariant above each
handler maps to one abstract step or a stutter: a burst to `Send`, a receipt to
`Deliver`, `ReceiveFin` to `End`; `Conserved` says that nothing is delivered that was
not sent, and `ClosedDrained` and `FinIsLast` that a socket closes when `Close` or `End` may.

The second half of the module is about times. All handlers are first reduced to five things that may happen to a
side (`SideStep`: `Rests`, `TimePasses`, `Opens`, `Hears`, `Wakes`). `PlaceInv` says that what a side
has to send is the rest of its ADUs. `NoFreeReplies` (`RepliesPaid`) needs a balance, `Paid`:
answers sent, events pending and a receipt not yet used are no more than the receipts
and the event of an ADU that follows a send; "no more answers than receipts" alone is not
inductive, as a second event may send an answer. `Scheduled` (`SentOnSchedule`) needs that
a side of a concurrent vector has exactly one event, at the time of its next ADU,
and that this time has not passed (`OnSchedule`).

The other two theorems are about vectors of alternating turns. `OneWaitAtATime`
(`NoStrayDoSend`) needs that what a side heard is what its peer sent less what is on its
way (`Heard`): with the places of a side's ADUs in the whole vector (`AlternatingAdus`: all are
answers but the very first, and only the last sender closes) a side with an event pending
has heard all it may hear until it sends, so that no receipt adds a second one.
`AnswersAreLate` (`RecvWaitRespected`, an action property) adds that `m_lastRecvTime` is when the
last ADU came and that no event is due before that and the wait of the answer it
would send (`Answers`).

**`CvecParser_proofs`.** First come the operators of the stream: the places of words lie in the
text and ascend (`SkipIs`, `WordsAscend`, `WordsBehind`), and reading a letter with its numbers
succeeds exactly where they are (`ReadIs`). The parser goes from mark to mark. The invariant
`IInv` says that it is in one of three situations: at a mark, with all vectors in front of it
added or read so far, number for number (`Parsing`, the lemma `MarkStep` with one lemma for each
place in the code); behind the last one on a way out on which no more vector can be added
(`Ended`, `StopStep`); or in the loop over ADUs with a failed stream, about to add the vector it
has (`Leaving`, `LeaveStep`). `NeverMixedUp` alone is not inductive, for two reasons: it does not
know what the vector under construction has of the one in the text, and it does not know
that behind the damage the letter `x`, which is stale when the read failed, sends the parser out
and not on. `Stops` names the letters that do. The theorems are `NoVectorIsMixedUp`
(`NeverMixedUp`), `SoundVectorsAreAdded` (`SoundAreAdded`) and `TypeCorrectness`; all three for
any number of vectors, ADUs, comments and blanks, and whatever is behind the damaged line. `EveryStepIsProgress` gives a measure, `Left`, that
each step lessens: the tokens left, then whether the stream has failed, then the place in the
code. No run of the parser is longer than that, a stale `#` or `I` at the end of the file
included; that it does not stop before its end is left to `EventuallyRead`.

What `FilesAssumption` excludes is damage that leaves another text that is right up to its end,
such as a number in place of a number or a whole ADU line lost: what is read then
is what is written there, and nobody could tell.

**`TmixBytes_proofs`.** `NoByteLost` (`BytesConserved`): what a side has still to receive is what its
peer has still to send and what is in flight, byte for byte. It is not inductive: the loop
of `Receive` takes off whole ADUs, so the invariant `BytesInv` says that what is expected
are the last ADUs of the peer, of which the first may lack a part but not all (`Partial`),
and takes over the invariant of whole ADUs. `ReplayOfAdus` (`ReplaysAdus`) maps each handler to one of
`TmixConnection` or a stutter: a packet that ends k ADUs is a receipt of these k, a packet that
ends none is no step, and a full buffer stops the program. `BytesAreSafe` (`NoFatal`,
`CloseIsGraceful` and `RepliesPaid`), `OneWaitInBytes` and `AnswersWaitInBytes` carry the theorems about
whole ADUs over to bytes.

**`DelayBox_proofs`.** The simulator keeps a list of events, each flow a queue of ids;
the invariant `IInv` says that they are the same: every pending event is in the queue of
a live flow (`EventsLive`), each queue lists pending events of its flow in the
order in which they run and none after the tail's end (`QueuesOf`), and ids are unique
(`IdsUnique`). The key facts are `EndOfBound` (a transfer ends no earlier than the one in
front of it, so a new event goes to the back) and `FrontRuns` (the event that runs is at
the front). They give `TypeCorrectness`, `NoStrayEvent` (`NoFatal`) and `QueuesMatchEvents`
(`QueuesArePending`). `OrderInv` adds the numbers of packets: what was sent is older than
what waits, and events of a flow run in the order of their packets; so `SentOrder`
(`SentInOrder`): cancellation and pruning never let a packet overtake another.

`DelaysKept` (`DelayRespected`) is about the past, so that
`TimingInv` says of each pending event what will be asked of it when it has run: it is due
no earlier than delay and transfer allow (`DueAfterDelay`), behind all the flow has sent
and all in front of it by its own transfer (`LinkFree`), and events neither run late nor
before their time (`NowBetween`). `NoneUnaccounted` (`PacketsAccounted`) counts: what a flow
enqueued was sent, waits or was discarded by the FIN; it needs `IInv`, which says that
cancelling and pruning touch no queue of another flow.

**`DelayBoxRules_proofs`.** `BestMatch` (`LookupIsBestMatch`): the four lookups find the most
specific of all rules that cover a packet, whatever the mode was when they were added
and is when the packet comes. It needs that the table has each key that was made, with
the first rule that made it (`RulesByKey`); the rest is about one key. `Conversations`
(`FlowsAreConversations`) needs that each classifier numbers its tuples (`IdsNumbered`) and that a
packet's flow has the number of its tuple in the mode of the packet (`FlowsById`). `GoOn`
(`FlowsGoOn`): a packet that once was covered is covered from then on, in either direction
(`StillCovered`), as rules are only added; so no later packet of a conversation is passed on
without a flow. `OwnRule` (`PacketsUnderTheirRule`) says that the rule of a flow was found for
the packet that created it (`TableByCreator`), and covers every other packet of the
conversation, which is the creator or its reverse. Where packets of both modes share a flow
id nothing is claimed.

**`TmixPorts_proofs`.** `Distinct`, `OwnRules`, `Exhaustion` and `TypeCorrectness` are conjuncts
of `IInv` or follow from it. It adds that no port is free again (`NothingFree`), that ports
of vectors and ports in rules lie below the next new one (`StartedBelowTop`, `RulesBelowTop`), so
that a new port is one nobody had and no rule has, and that each port below it was
given to some vector (`AssignedOnce`). For `Exhaustion` the vectors of a pair are then
counted by a bijection with the ports below the next new one.

**`TmixTrace_proofs`.** The lemma `EventLines` says what the hooks of all pairs together
print for one event on the way of one packet: its own line, or nothing if the pair is
not hooked or if it is an event on the center channel and the initiator is on the
right. It rests on `HooksFor` (the hooks with a packet's addresses are those of one
route) and `LinkMatch` (a hook of a link runs for the events of this link and direction
only). The invariant then follows the packets: every line tells of an event that
happened, and none but those is missing. It gives `LeftTraced` (`LeftPairsTraced`),
`EndsTraced` (`EndLinksTraced`), `PairsIdentified` (`LinesIdentifyPair`) and `TypeCorrectness`;
and `NothingFalse` (`NoFalseLine`), which says of pairs on the right, too, that no line is
printed twice or out of order.

**`Evaluation_proofs`.** Nothing bounds the traffic between two reports, so that the
invariant has to know what the simulator will run next. `EInv` says that the calendar has
each event that is due once and no other (`InOrder`, `Due`: the reports that are left, the end,
the start of the application and the search for its socket), that none of them is late
(`Timely`), and that the files have the lines of the reports made so far and of the
changes since the socket was hooked (`Logged`). Two numbers count the reports, as `LinkStats` and `SinkStats` report one after
the other at the same time: the files of a simulation are complete when `Stop` runs
because the calendar has it behind both. From it follow `TypeCorrectness`, `Reported`
(`ReportsPartitionRun`, the conjunct `Partition`), and `LoggedFromHook` (`LoggedOnceHooked`: the socket is
hooked exactly from time 3 on, another conjunct of `Timely`, since the application starts
at 2 and the search for its socket is at 3). Between two simulations
nothing is left of one (`AtRest`). `FilesOfLastWriter` (`FilesAreComplete`) needs `Written`, which
names for each simulation the last one of its name (`IsWriter`); `GraphsMade` (`GraphsShowFiles`) needs
`Plotted`, that the graphs made so far, in the order of `CreateGraphs`, show their files, and that
no later one undoes it. `PercentileReported` (`PercentileCovers`, an action property) is about lists of any
length: that a sorted order exists is a lemma (`OrderExists`, by induction over the
length), and the rest is the arithmetic of the place in it.

Model-checked only:

* Liveness (`EventuallyReplayed`, `EventuallyRead`, `EventuallyDone`): it needs `ENABLED`, which
  is out of reach of the proof system.

All other properties of the passing runs are theorems. `TypeOK` of `DelayBox`, of
`DelayBoxRules` and of `CvecParser` is proved and in no run.

## 5. What was found

Each of these is a run with a counterexample.

1. `tmix.cc:352`: with turns of several ADUs both sides can pop their closing ADU with
   data in flight. `CloseIfDone` does nothing then, and nobody calls it again: the
   vector never completes (`turns_close`).
2. `tmix.cc:205`, `342`: each received ADU of a turn schedules a `DoSend`, and each sends
   what is first then, so that an ADU goes out before its wait is over
   (`turns_sendwait`). For the same reason an answer may be sent with half of a turn
   received, against `tmix.rst:91`.
3. `delaybox.cc:222`: pruning makes a flow forget that it was cancelled, and packets
   behind the FIN are delayed again (`delaybox_pruned`).
4. `tmix-ns2-style-trace-helper.cc:222`: for pairs whose initiator is on the right the
   hooks of the center link sit on the wrong devices (`trace_right`).

Seen while modelling, without a run:

* `tmix.cc:483`: the branch that gives the port back cannot be reached, as `CloseIfDone` was
  called just before; the FIXME at `tmix.cc:488` knows that "ports stay allocated forever".
  After 64511 vectors on one pair the program stops for lack of ports, even if they came
  one after the other; the message at `tmix-helper.cc:160` asks "Too many concurrent
  connections?" (`ExhaustedByCount`).
* `tmix.cc:750`: a malformed ADU line makes `ParseConnectionVector` return true with the ADUs
  in front of it, and the rest of the file is lost; `tmix.h:152` says "true if successful,
  false if parsing failed". `NeverMixedUp` states what still holds.
* `tmix.cc:639` says that comments at the end of a line are not tolerated: behind ADUs and
  loss rates they are. A comment inside the header block ends the reading of the file.
  A line of loss rates that cannot be read gives a vector without ADUs. The numbers of
  ADUs in a header are never compared with what follows.

* `AddConnectionVector` passes the start time of a vector to `Simulator::Schedule`, which
  counts from now; `tmix.h:114` says it is absolute. Equal as long as vectors are added
  before the simulation starts.
* If ports were given back, `AddRule`, which does not overwrite, would leave a vector
  with the rule of the one that had its port before (so the mutant of `Complete` in `ports`).
* `AddRule` makes a key in the mode at the time (`delaybox.cc:398`), while `delaybox.h:288`
  only asks that the mode is not changed after packets: a rule added downward in
  non-symmetric mode is found by no packet once the mode is symmetric, against
  `delaybox.h:291-294` (each rule matches both directions, "the arguments to AddRule may be
  given in either order"); one added in symmetric mode is found in the other for the upward
  direction only. `Covers` states this. In symmetric mode a tie between a
  rule for any source and one for any destination is broken by the direction of the packet.
* After a change of mode between packets a flow of one mode may get packets of the other,
  as the two classifiers count on their own (`delaybox.cc:113`); `delaybox.h:288` warns of it.
* `evalstats.cc:154` says that `CwndChange` "is called whenever the congestion window changes".
  It is connected at 1.000001 s (`evalstats.cc:204`), and the application starts at 1 s: changes
  in between, such as the first value set by `Connect`, are in no file (`LoggedOnceHooked`).
* A vector with closing ADUs on both sides is closed by both at a time and
  notified twice.
* In the trace the delay of the DelayBox appears between `r` at the router and the next
  `+`, not where `trace-helper.h:76` says; a dropped packet gives no `d` line.
* `tmix-helper.cc:129` uses `m_rng`, which is never set.
* `driver.h:117-131`: `compare` is used as if it meant equal, so that "tahoe" runs TcpReno
  and "reno" TcpTahoe. The model has this as it is (`GetTcpTypeId`).
* `driver.h:168`: for the types RTT and FTP the bandwidth is never set; `evalstats.cc:55`
  divides by the bandwidth truncated to an integer.
* `evalstats.cc:36`: the first report counts 200 zeros as samples, and a report on a single
  sample is 0 (`PercentileCovers` states both).
* `create-graph.h:135`: the first point of a flattened graph is drawn at the last x value
  of the graph before it (`GraphsShowFiles` leaves out this point only).

## 6. Not modelled

* Text: how numbers are written (the parser has tokens), printing of vectors but for its order, formatting
  of traces and reports, gnuplot output. `AddConnectionVectorsLazy` only stops the
  program ("Not implemented.").
* Numbers in floating point: transfer times are multiples of a unit, a loss rate is
  the choice whether a flow may lose packets; utilization, means and drop
  rates are left out.
* The lifetime of objects: raw pointers to workers and flows, references into vectors.
* A conversation on a pair of ports used before: no port is used again (`PortsDistinct`), and
  the classifier is not composed with the connections.
* ns-3 itself: TCP, IP, devices, queues, the simulator; each is modelled by what the code
  sees of it (marked external in the map).
* Scenarios (`src/scratch`, examples), tests, generated helpers, build files, plot scripts.

## 7. Plan

Done: the modules above, with the two refinements of a connection and the proofs of
section 4: all invariants and action properties of the passing runs are theorems. What would
come next is the composition of `TmixPorts` with `TmixConnection`, so that `Complete` is the end
of an actual replay and not an action of its own.
