------------------------------ MODULE Evaluation ------------------------------
(***************************************************************************)
(* The evaluation of TCPs in src/tcp-suite/model: Driver::Run of driver.h  *)
(* reads the values to vary and runs one simulation for each TCP and each  *)
(* value; LinkStats, SocketStats and SinkStats of evalstats.cc write what  *)
(* they see into files named after both; PlotGraph of create-graph.h reads *)
(* the files back.                                                         *)
(*                                                                         *)
(* Statistics live on the events they schedule at their installation, one  *)
(* report per second, and on callbacks from the network.  The network is   *)
(* not modelled: it transmits packets, puts them into the queue of the     *)
(* bottleneck, delivers them and changes the state of the socket.  Of a    *)
(* report, files keep the time and the simulation that wrote it.           *)
(*                                                                         *)
(* Second i is time 2i, and 1.000001 s is time 3.  Values come in halves,  *)
(* of which the name of a file has the integer part.                       *)
(***************************************************************************)
EXTENDS Integers, Sequences, FiniteSets, SequencesExt

CONSTANTS
    TCPs,          \* what SetTCPs was called with, in order
    RunFiles,      \* what tcpeval.run may hold
    GraphChoices,  \* the graphs that tcpeval.conf may leave enabled
    Seconds,       \* how long a simulation lasts: 10 in the code
    StaleSamples,  \* zeros in the list of queue lengths at first: 200
    Percent,       \* which percentile is reported: 95
    MaxQueue,      \* bound on the queue of the bottleneck
    MaxPackets,    \* bound on the packets of a simulation
    MaxChanges,    \* bound on the changes of a socket in a simulation, those
                   \* before 1.000001 s and the later ones
    MaxVariables   \* bound on the values read

\* The last word of every file.
EndMark == -1

Types == {"BANDWIDTH", "RTT", "FTP"}

LinkKinds   == {"l", "q", "p", "d"}
SocketKinds == {"cw", "rtt", "sq"}
Kinds       == LinkKinds \cup SocketKinds \cup {"thr"}

ASSUME EvaluationAssumption ==
    /\ TCPs \in Seq(STRING) /\ TCPs # <<>>
    /\ \A r \in RunFiles : r.type \in STRING /\ r.words \in Seq(Nat \cup {EndMark})
    /\ GraphChoices \subseteq SUBSET Kinds
    /\ Seconds \in Nat \ {0, 1} /\ StaleSamples \in Nat /\ Percent \in 1..99
    /\ {MaxQueue, MaxPackets, MaxChanges, MaxVariables} \subseteq Nat

VARIABLES
    phase,      \* where Run is
    words,      \* the words of tcpeval.run that were not read yet
    val,        \* the word read last
    variables,  \* the values to vary
    enabled,    \* the kinds of graphs to make
    socketType, \* the default of ns3::TcpL4Protocol::SocketType
    turn,       \* the number of the simulation, or of the one plotted
    calendar,   \* the events of the simulator, in the order of scheduling
    now,        \* Simulator::Now()
    socket,     \* the application has its socket
    hooked,     \* SocketStats is connected to it
    link,       \* the counters of LinkStats
    sink,       \* those of SinkStats
    files,      \* the data files
    kindNo,     \* the number of the kind of graph that is made next
    oldX,       \* the static variable of FeedData
    plots,      \* the points of the graphs made
    seen        \* history: what happened in this simulation

parsing  == <<words, val, variables, enabled>>
plotting == <<kindNo, oldX, plots>>
sim      == <<socketType, calendar, now, socket, hooked, link, sink, seen>>
vars     == <<phase, parsing, turn, sim, files, plotting>>

\* The order of CreateGraphs, and the graphs it draws as steps.
GraphOrder == <<"l", "q", "p", "cw", "rtt", "sq", "thr", "d">>
Flattened  == {"l", "q", "p"}

\* A line of a file: the time it starts with and who wrote it.
Line == [at: Nat, run: Nat]

End == [at |-> 0, run |-> 0]

\* f with y for x, a new or an old one.
Put(f, x, y) == [n \in DOMAIN f \cup {x} |-> IF n = x THEN y ELSE f[n]]

\* The loops over TCPs and values.
Turns      == Len(TCPs) * Len(variables)
TcpOf(k)   == TCPs[((k - 1) \div Len(variables)) + 1]
ValueOf(k) == variables[((k - 1) % Len(variables)) + 1]

\* The value is printed as a uint32_t.
NameOf(k) == <<TcpOf(k), ValueOf(k) \div 2>>

TypeOK ==
    /\ phase \in {"runfile", "values", "config", "setup", "simulate", "plot",
                  "done", "exit"}
    /\ val \in Nat \cup {EndMark}
    /\ variables \in Seq(Nat)
    /\ enabled \subseteq Kinds
    /\ turn \in 0..Turns
    /\ phase \in {"setup", "simulate", "plot"} => turn > 0
    /\ socketType \in {"none", "TcpTahoe", "TcpReno"}
    /\ now \in 0..2 * Seconds
    /\ socket \in BOOLEAN /\ hooked \in BOOLEAN
    /\ link \in [bytesOut: Nat, avgQueueLength: Nat, nthSampleInInterval: Nat,
                 listOfQueueLengths: Seq(Nat)]
    /\ sink \in [total: Nat, prevThru: Nat]
    /\ \A n \in DOMAIN files : files[n] \in [Kinds -> Seq(Line)]
    /\ kindNo \in 1..Len(GraphOrder)
    /\ oldX \in 0..2 * Seconds

-----------------------------------------------------------------------------
(* The parsers.                                                            *)

\* Counters as they are after a report, and those of a new simulation.
Cleared == [bytesOut |-> 0, avgQueueLength |-> 0, nthSampleInInterval |-> 0,
            listOfQueueLengths |-> <<>>]

NewSink == [total |-> 0, prevThru |-> 0]

\* Of the changes of the socket, how many came before the time at which
\* SocketStats looks for it, and the later ones as lines of their files.
NothingYet == [transmitted |-> 0, bytes |-> 0, reports |-> 0, delivered |-> 0,
               early |-> 0, changes |-> [k \in SocketKinds |-> <<>>],
               percentile |-> 0]

Init ==
    /\ phase = "runfile"
    /\ words = <<>> /\ val = 0 /\ variables = <<>> /\ enabled = Kinds
    /\ turn = 0 /\ socketType = "none"
    /\ calendar = <<>> /\ now = 0 /\ socket = FALSE /\ hooked = FALSE
    /\ link = Cleared /\ sink = NewSink /\ seen = NothingYet
    /\ files = <<>>
    /\ kindNo = 1 /\ oldX = 0 /\ plots = <<>>

\* The word that operator>> leaves in val: at the end of the file, the one
\* that is there.
Read(from, old) == IF from = <<>> THEN old ELSE Head(from)

After(from) == IF from = <<>> THEN <<>> ELSE Tail(from)

\* A file that cannot be opened ends the program.
NoFile ==
    /\ phase \in {"runfile", "config"}
    /\ phase' = "exit"
    /\ UNCHANGED <<parsing, turn, sim, files, plotting>>

\* The type and the first value.  A word that is no number is read as 0.
ReadType ==
    /\ phase = "runfile"
    /\ \E r \in RunFiles :
          IF r.type \in Types
          THEN /\ phase' = "values"
               /\ val' = Read(r.words, 0)
               /\ words' = After(r.words)
          ELSE phase' = "exit" /\ UNCHANGED <<val, words>>
    /\ UNCHANGED <<variables, enabled, turn, sim, files, plotting>>

ReadValue ==
    /\ phase = "values"
    /\ val # EndMark /\ Len(variables) < MaxVariables
    /\ variables' = Append(variables, val)
    /\ val' = Read(words, val)
    /\ words' = After(words)
    /\ UNCHANGED <<phase, enabled, turn, sim, files, plotting>>

ReadEnd ==
    /\ phase = "values" /\ val = EndMark
    /\ phase' = "config"
    /\ UNCHANGED <<parsing, turn, sim, files, plotting>>

\* Mutated: the first turn is made without a look at the end.
StartUntested(what) == turn' = 1 /\ phase' = what

\* The first turn of a loop, which may have none.
StartLoop(what) ==
    IF Turns = 0 THEN turn' = 0 /\ phase' = "done"
                 ELSE turn' = 1 /\ phase' = what

ParseConfigfile ==
    /\ phase = "config"
    /\ enabled' \in GraphChoices
    /\ StartLoop("setup")
    /\ UNCHANGED <<words, val, variables, sim, files, plotting>>

-----------------------------------------------------------------------------
(* One simulation.                                                         *)

Event(at, what) == [at |-> at, what |-> what]

EverySecond(what) == [i \in 1..Seconds |-> Event(2 * i, what)]

\* Mutated: Stop first, and the socket looked for when the application
\* starts.
StopFirst ==
    <<Event(2 * Seconds, "stop")>> \o EverySecond("SizeReset")
      \o <<Event(3, "DynamicSocketFitter")>>
      \o EverySecond("ThroughputFinder") \o <<Event(2, "start")>>

FitterAtStart ==
    EverySecond("SizeReset") \o <<Event(2, "DynamicSocketFitter")>>
      \o EverySecond("ThroughputFinder")
      \o <<Event(2 * Seconds, "stop"), Event(2, "start")>>

\* compare is 0, and the condition false, if the names are equal.
GetTcpTypeId(name) == IF name # "tahoe" THEN "TcpTahoe" ELSE "TcpReno"

\* What is scheduled in front of Simulator::Run.  The application schedules
\* its start when it is initialised, in the run.
FirstCalendar ==
    EverySecond("SizeReset") \o <<Event(3, "DynamicSocketFitter")>>
      \o EverySecond("ThroughputFinder")
      \o <<Event(2 * Seconds, "stop"), Event(2, "start")>>

\* Files are created, or emptied, by the constructors.
FreshFiles == Put(files, NameOf(turn), [k \in Kinds |-> <<>>])

\* Nodes, application, statistics: everything in front of Simulator::Run.
SetUp ==
    /\ phase = "setup"
    /\ phase' = "simulate"
    /\ socketType' = GetTcpTypeId(TcpOf(turn))
    /\ files' = FreshFiles
    /\ calendar' = FirstCalendar
    /\ now' = 0
    /\ link' = [Cleared EXCEPT !.listOfQueueLengths =
                    [i \in 1..StaleSamples |-> 0]]
    /\ UNCHANGED <<parsing, turn, socket, hooked, sink, seen, plotting>>

\* The event that runs next: the first one of the earliest time.
IsNext(i) ==
    \A j \in DOMAIN calendar :
        \/ calendar[i].at < calendar[j].at
        \/ calendar[i].at = calendar[j].at /\ i <= j

\* The simulator runs an event called what.
Runs(what) ==
    /\ phase = "simulate"
    /\ \E i \in DOMAIN calendar :
          /\ calendar[i].what = what /\ IsNext(i)
          /\ now' = calendar[i].at
          /\ calendar' = RemoveAt(calendar, i)

\* One more line in the files of some kinds.
Write(kinds, at) ==
    files' = [files EXCEPT ![NameOf(turn)] =
                [k \in Kinds |-> IF k \in kinds
                                 THEN Append(@[k], [at |-> at, run |-> turn])
                                 ELSE @[k]]]

StartApplication ==
    /\ Runs("start")
    /\ socket' = TRUE
    /\ UNCHANGED <<phase, parsing, turn, socketType, hooked, link, sink, seen,
                   files, plotting>>

DynamicSocketFitter ==
    /\ Runs("DynamicSocketFitter")
    /\ hooked' = socket
    /\ UNCHANGED <<phase, parsing, turn, socketType, socket, link, sink, seen,
                   files, plotting>>

\* The router transmits a packet on some interface.
Transmits ==
    /\ phase = "simulate" /\ socket /\ seen.transmitted < MaxPackets
    /\ UNCHANGED <<phase, parsing, turn, socketType, calendar, now, socket,
                   hooked, sink, files, plotting>>

\* AggregateOverInterval is called, and AggregateQueue if the interface is
\* that of the bottleneck and its queue takes the packet.
ForwardElsewhere ==
    /\ Transmits
    /\ link' = [link EXCEPT !.bytesOut = @ + 1]
    /\ seen' = [seen EXCEPT !.transmitted = @ + 1]

ForwardToBottleneck ==
    /\ Transmits
    /\ \E length \in 0..MaxQueue :
          link' = [bytesOut |-> link.bytesOut + 1,
                   avgQueueLength |-> link.avgQueueLength + length,
                   nthSampleInInterval |-> link.nthSampleInInterval + 1,
                   listOfQueueLengths |->
                       Append(link.listOfQueueLengths, length)]
    /\ seen' = [seen EXCEPT !.transmitted = @ + 1]

\* The sink gets what a packet carried.
Deliver ==
    /\ phase = "simulate" /\ socket
    /\ sink.total < seen.transmitted
    /\ sink' = [sink EXCEPT !.total = @ + 1]
    /\ UNCHANGED <<phase, parsing, turn, socketType, calendar, now, socket,
                   hooked, link, seen, files, plotting>>

\* The socket changes a value that SocketStats logs, from its start on:
\* Connect sets the congestion window before anything is connected to it.
Change(k) ==
    /\ phase = "simulate" /\ socket
    /\ \/ /\ now < 3 /\ seen.early < MaxChanges
          /\ seen' = [seen EXCEPT !.early = @ + 1]
       \/ /\ now >= 3
          /\ FoldFunction(LAMBDA a, b : Len(a) + b, 0, seen.changes) < MaxChanges
          /\ seen' = [seen EXCEPT !.changes[k] =
                        Append(@, [at |-> now, run |-> turn])]
    /\ IF hooked THEN Write({k}, now) ELSE UNCHANGED files
    /\ UNCHANGED <<phase, parsing, turn, socketType, calendar, now, socket,
                   hooked, link, sink, plotting>>

\* Mutated: the samples in the order in which they came.
PercentileUnsorted(list) ==
    LET length == (Len(list) * Percent) \div 100
    IN IF length = 0 THEN 0 ELSE list[length + 1]

\* p names the elements of list in the order of their values.
Ascends(list, p) ==
    /\ IsInjective(p)
    /\ \A i, j \in DOMAIN list : i < j => list[p[i]] <= list[p[j]]

Sorted(list) ==
    LET p == CHOOSE p \in [DOMAIN list -> DOMAIN list] : Ascends(list, p)
    IN [i \in DOMAIN list |-> list[p[i]]]

\* The element at place length, counted from 0, of the sorted list.
Percentile(list) ==
    LET length == (Len(list) * Percent) \div 100
    IN IF length = 0 THEN 0 ELSE Sorted(list)[length + 1]

\* Mutated: the number of samples is not reset.
ClearedButCount(counters) ==
    [counters EXCEPT !.bytesOut = 0, !.avgQueueLength = 0,
                 !.listOfQueueLengths = <<>>]

\* The counters of LinkStats after a report.
ClearedAfter(counters) == Cleared

SizeReset ==
    /\ Runs("SizeReset")
    /\ Write(LinkKinds, now')
    /\ link' = ClearedAfter(link)
    /\ seen' = [seen EXCEPT !.bytes = @ + link.bytesOut,
                            !.reports = @ + 1,
                            !.percentile = Percentile(link.listOfQueueLengths)]
    /\ UNCHANGED <<phase, parsing, turn, socketType, socket, hooked, sink,
                   plotting>>

ThroughputFinder ==
    /\ Runs("ThroughputFinder")
    /\ Write({"thr"}, now')
    /\ sink' = [sink EXCEPT !.prevThru = sink.total]
    /\ seen' = [seen EXCEPT !.delivered = @ + (sink.total - sink.prevThru)]
    /\ UNCHANGED <<phase, parsing, turn, socketType, socket, hooked, link,
                   plotting>>

\* Mutated: SocketStats has no destructor that marks the end.
EndedButSocket(f) ==
    [k \in Kinds |-> IF k \in SocketKinds THEN f[k] ELSE Append(f[k], End)]

\* What the destructors of the statistics leave of the files f.
Ended(f) == [k \in Kinds |-> Append(f[k], End)]

\* Run returns, Destroy drops the events that are left, and the nodes and
\* the statistics are destroyed at the end of the turn.
Stop ==
    /\ phase = "simulate"
    /\ \E i \in DOMAIN calendar : calendar[i].what = "stop" /\ IsNext(i)
    /\ calendar' = <<>> /\ now' = 0 /\ socket' = FALSE /\ hooked' = FALSE
    /\ link' = Cleared /\ sink' = NewSink /\ seen' = NothingYet
    /\ files' = [files EXCEPT ![NameOf(turn)] = Ended(@)]
    /\ IF turn < Turns THEN turn' = turn + 1 /\ phase' = "setup"
                       ELSE StartLoop("plot")
    /\ UNCHANGED <<parsing, socketType, plotting>>

-----------------------------------------------------------------------------
(* The graphs.                                                             *)

\* The lines that FeedData reads: those in front of the first end.
LinesOf(file) ==
    LET ends == {i \in DOMAIN file : file[i] = End}
    IN SubSeq(file, 1, (CHOOSE i \in ends : \A j \in ends : i <= j) - 1)

\* A point, named by its x value and the line its y value comes from.
Point(x, line) == [x |-> x, line |-> line]

\* Mutated: oldX is not updated.
StepsFromOld(lines) ==
    [i \in 1..2 * Len(lines) |->
        LET n == (i + 1) \div 2
        IN Point(IF i % 2 = 0 THEN lines[n].at ELSE oldX, lines[n])]

\* In a flattened graph each line adds a point at the x value of the line
\* before it, too: at first, of the last line of another file.
Steps(lines) ==
    [i \in 1..2 * Len(lines) |->
        LET n == (i + 1) \div 2
        IN Point(IF i % 2 = 0 THEN lines[n].at
                 ELSE IF n = 1 THEN oldX ELSE lines[n-1].at, lines[n])]

Feed(k) ==
    LET lines == LinesOf(files[NameOf(turn)][k])
        id    == <<NameOf(turn), k>>
    IN IF k \in Flattened
       THEN /\ plots' = Put(plots, id, Steps(lines))
            /\ oldX' = IF lines = <<>> THEN oldX ELSE Last(lines).at
       ELSE /\ plots' = Put(plots, id, [i \in DOMAIN lines |->
                                            Point(lines[i].at, lines[i])])
            /\ UNCHANGED oldX

NextGraph ==
    IF kindNo < Len(GraphOrder)
    THEN kindNo' = kindNo + 1 /\ UNCHANGED <<turn, phase>>
    ELSE /\ kindNo' = 1
         /\ IF turn < Turns THEN turn' = turn + 1 /\ UNCHANGED phase
                            ELSE phase' = "done" /\ UNCHANGED turn

\* One graph of CreateGraphs.  A file without an end is read for ever: the
\* program makes no further step.
CreateGraph ==
    LET k == GraphOrder[kindNo]
    IN /\ phase = "plot"
       /\ \/ /\ k \notin enabled
             /\ NextGraph
             /\ UNCHANGED <<oldX, plots>>
          \/ /\ k \in enabled
             /\ End \in Range(files[NameOf(turn)][k])
             /\ Feed(k)
             /\ NextGraph
       /\ UNCHANGED <<parsing, sim, files>>

Next ==
    \/ NoFile \/ ReadType \/ ReadValue \/ ReadEnd \/ ParseConfigfile
    \/ SetUp
    \/ StartApplication \/ DynamicSocketFitter \/ SizeReset
    \/ ThroughputFinder \/ Stop
    \/ ForwardElsewhere \/ ForwardToBottleneck \/ Deliver
    \/ \E k \in SocketKinds : Change(k)
    \/ CreateGraph

Spec == Init /\ [][Next]_vars

\* The program is one thread, and the network sends no packets for ever.
FairSpec == Spec /\ WF_vars(Next)

-----------------------------------------------------------------------------
(* Safety.                                                                 *)

\* The sum of the first n elements of list, for each n.
SumUpTo(list) ==
    LET sum[n \in 0..Len(list)] == IF n = 0 THEN 0 ELSE sum[n - 1] + list[n]
    IN sum

Sum(list) == SumUpTo(list)[Len(list)]

\* The counters of LinkStats speak of the same interval, the one since the
\* last report: what was reported and what they hold is all that happened.
\* The list starts with the zeros of its constructor in the first interval.
ReportsPartitionRun ==
    phase = "simulate" =>
      /\ seen.bytes + link.bytesOut = seen.transmitted
      /\ Len(link.listOfQueueLengths) =
            link.nthSampleInInterval
              + (IF seen.reports = 0 THEN StaleSamples ELSE 0)
      /\ link.avgQueueLength = Sum(link.listOfQueueLengths)
      /\ seen.delivered = sink.prevThru

\* At most 100 - Percent in 100 samples of an interval are longer than the
\* length reported, which is one of them; but a list too short to have such
\* a place is reported as 0.
PercentileCovers ==
    [][LET list == link.listOfQueueLengths
           longer == {i \in DOMAIN list : list[i] > seen'.percentile}
       IN seen'.reports > seen.reports =>
            IF Len(list) * Percent < 100 THEN seen'.percentile = 0
            ELSE /\ seen'.percentile \in Range(list)
                 /\ Cardinality(longer) * 100 <= Len(list) * (100 - Percent)
                 /\ Cardinality({i \in DOMAIN list : list[i] <= seen'.percentile})
                      * 100 > Len(list) * Percent]_vars

\* From 1.000001 s on every change of the socket is in its file, once and in
\* order; the changes before it are not, nor is any of the simulations before
\* this one.  The application starts after Install and the call that connects
\* SocketStats is at a fixed time: at 1 s it would run before the start, find
\* no socket, and not look again.
LoggedOnceHooked ==
    phase = "simulate" => \A k \in SocketKinds :
        files[NameOf(turn)][k] = seen.changes[k]

\* The number of the last simulation up to k that wrote the files of k.
Writer(k, upto) ==
    CHOOSE m \in 1..upto :
        /\ NameOf(m) = NameOf(k)
        /\ \A j \in m+1..upto : NameOf(j) # NameOf(k)

Reports(run) == [i \in 1..Seconds |-> [at |-> 2 * i, run |-> run]]

\* A simulation that is over has reported on every second, the last one
\* included, in order, and marked the end.  If the names of two simulations
\* are equal the files are those of the later one, with nothing in between.
FilesAreComplete ==
    LET over == IF phase \in {"setup", "simulate"} THEN turn - 1
                ELSE IF phase \in {"plot", "done"} THEN Turns ELSE 0
    IN \A k \in 1..over :
         \/ phase = "simulate" /\ NameOf(k) = NameOf(turn)
         \/ \A kind \in LinkKinds \cup {"thr"} :
                files[NameOf(k)][kind] = Append(Reports(Writer(k, over)), End)

\* In the end there is a graph of each kind asked for and each simulation;
\* it shows the whole of one file, and flattened it has a point below the
\* end of each step, but for the first one.
GraphsShowFiles ==
    phase = "done" => \A k \in 1..Turns, kind \in enabled :
        LET id    == <<NameOf(k), kind>>
            lines == LinesOf(files[NameOf(k)][kind])
            each  == IF kind \in Flattened THEN 2 ELSE 1
        IN /\ id \in DOMAIN plots
           /\ Len(plots[id]) = each * Len(lines)
           /\ \A i \in DOMAIN plots[id] :
                 /\ plots[id][i].line = lines[(i + each - 1) \div each]
                 /\ plots[id][i].x = IF i % each = 0 THEN plots[id][i].line.at
                                     ELSE IF i = 1 THEN plots[id][1].x
                                     ELSE plots[id][i-1].x

-----------------------------------------------------------------------------
(* Liveness.                                                               *)

\* If tcpeval.run has the word "end" every loop ends: reading it, all the
\* simulations, and reading the data files.
EventuallyDone ==
    (phase = "values" /\ EndMark \in {val} \cup Range(words))
        ~> (phase \in {"done", "exit"})
=============================================================================
