----------------------------- MODULE TabletMode -----------------------------
(***************************************************************************)
(* tablet-mode (src/tablet-mode/tablet-mode.c): finds the input device with*)
(* the tablet mode switch, creates a uinput device, tells it the state of  *)
(* the switch and then passes every change on as the state of a lid.       *)
(*                                                                         *)
(* The input layer (external) queues what the device reports for the       *)
(* descriptor, packet by packet.  When the queue is full it drops all of   *)
(* it but the newest event.  EVIOCGSW returns the state and takes the      *)
(* changes that are still queued out of the queue.                         *)
(***************************************************************************)
EXTENDS Integers, Sequences

CONSTANTS
    Nodes,         \* /dev/input: from names to what is there, see NodeKinds
    QueueSize,     \* events the queue of a descriptor has room for, and one
    MaxTurns       \* bound: events of the device

\* A node that is no event node, cannot be opened, does not answer, has no tablet
\* mode switch, has one.
NodeKinds == {"other", "unopenable", "silent", "plain", "switch"}

ASSUME ModeAssumption ==
    /\ \A n \in DOMAIN Nodes : Nodes[n] \in NodeKinds
    /\ QueueSize \in Nat /\ QueueSize > 3
    /\ MaxTurns \in Nat

None == "none"

\* Events: a change of the switch and when it happened, another event, the end of a
\* packet, and what stands for events that were dropped.
Switched(value, turn) == [kind |-> "switch", value |-> value, turn |-> turn]
Event(kind) == [kind |-> kind, value |-> 0, turn |-> 0]

\* iev before the first read: nobody knows.
Garbage == {Switched(7, 0), Event("other")}

VARIABLES
    left,          \* entries that readdir has not returned yet
    open,          \* nodes that are open: descriptors are never closed again
    ifd,           \* the node of ifd
    switch, turn,  \* the switch, and how many events there were
    gone,          \* the device has gone
    queue,
    dropped,       \* history: the newest change was among events dropped
    pc,            \* "openfd", "uinput", "initial", "read", "handle", "exited"
    iev,
    created,       \* the uinput device is there
    lid, lidTurn   \* what uinput was told last; history: when the switch was so

device == <<switch, turn, gone>>
told == <<lid, lidTurn>>
vars == <<left, open, ifd, device, queue, dropped, pc, iev, created, told>>

-----------------------------------------------------------------------------
(* The input layer                                                          *)

Pass(q, e) == IF Len(q) + 1 = QueueSize THEN <<Event("dropped"), e>> ELSE Append(q, e)
PassPacket(q, e) == Pass(Pass(q, e), Event("syn"))

HasSwitch(q) == \E i \in DOMAIN q : q[i].kind = "switch"

\* Only a descriptor that is open has a queue.
Queues(e) ==
    IF ifd = None THEN UNCHANGED <<queue, dropped>>
    ELSE /\ queue' = PassPacket(queue, e)
         /\ dropped' = \/ (e.kind = "switch" \/ HasSwitch(queue)) /\ ~HasSwitch(queue')
                       \/ dropped /\ ~HasSwitch(queue')

\* All but the changes of the switch stay in the queue, in their order.
SwitchFlushed ==
    LET others == {k \in DOMAIN queue : queue[k].kind # "switch"} IN
    \E n \in 0..Len(queue) : \E at \in [1..n -> others] :
        /\ \A i \in 2..n : at[i - 1] < at[i]
        /\ \A k \in others : \E i \in 1..n : at[i] = k
        /\ queue' = [i \in 1..n |-> queue[at[i]]]

SwitchTurns ==
    /\ ~gone /\ turn < MaxTurns
    /\ turn' = turn + 1
    /\ switch' = 1 - switch
    /\ Queues(Switched(switch', turn'))
    /\ UNCHANGED <<left, open, ifd, gone, pc, iev, created, told>>

\* The device has other keys as well.
OtherEvent ==
    /\ ~gone /\ turn < MaxTurns
    /\ turn' = turn + 1
    /\ Queues(Event("other"))
    /\ UNCHANGED <<left, open, ifd, switch, gone, pc, iev, created, told>>

DeviceGoes ==
    /\ ~gone /\ gone' = TRUE
    /\ UNCHANGED <<left, open, ifd, switch, turn, queue, dropped, pc, iev, created, told>>

-----------------------------------------------------------------------------
(* tablet-mode                                                              *)

\* How a node answers: the device with the switch may have gone before it is opened,
\* or before it is asked.
Answers(n) == IF Nodes[n] = "switch" /\ gone THEN {"unopenable", "silent"} ELSE {Nodes[n]}

\* openfd looks at one entry of the directory.
OpenFd ==
    /\ pc = "openfd"
    /\ \E n \in left : \E kind \in Answers(n) :
         /\ left' = left \ {n}
         /\ open' = IF kind \in {"silent", "switch"} THEN open \cup {n} ELSE open
         /\ IF kind = "switch"
            THEN ifd' = n /\ pc' = "uinput"
            ELSE UNCHANGED <<ifd, pc>>
    /\ UNCHANGED <<device, queue, dropped, iev, created, told>>

\* The directory has been read, or could not be.
OpenFdFails ==
    /\ pc = "openfd" /\ left = {}
    /\ pc' = "exited"
    /\ UNCHANGED <<left, open, ifd, device, queue, dropped, iev, created, told>>

\* After ten seconds: only the opening of uinput is looked at.
CreateUinput ==
    /\ pc = "uinput"
    /\ \/ created' \in BOOLEAN /\ pc' = "initial"
       \/ pc' = "exited" /\ UNCHANGED created
    /\ UNCHANGED <<left, open, ifd, device, queue, dropped, iev, told>>

\* Mutant of SendSwitch: the state is passed on as it is.
SendSwitchRaw(state, when) ==
    IF created THEN lid' = state /\ lidTurn' = when ELSE UNCHANGED told

\* send_switch: !!state.
SendSwitch(state, when) ==
    IF created THEN lid' = (IF state = 0 THEN 0 ELSE 1) /\ lidTurn' = when
    ELSE UNCHANGED told

\* Mutant of InitialState: the state is asked for through another descriptor, whose
\* queue is not the one that is read.
InitialStateElsewhere ==
    /\ pc = "initial"
    /\ IF gone THEN UNCHANGED told ELSE SendSwitch(switch, turn)
    /\ pc' = "read"
    /\ UNCHANGED <<left, open, ifd, device, queue, dropped, iev, created>>

\* EVIOCGSW and the first report.
InitialState ==
    /\ pc = "initial"
    /\ IF gone
       THEN UNCHANGED <<queue, dropped, told>>
       ELSE /\ SwitchFlushed
            /\ dropped' = FALSE
            /\ SendSwitch(switch, turn)
    /\ pc' = "read"
    /\ UNCHANGED <<left, open, ifd, device, iev, created>>

\* An event is read, or iev is left as it was: -1 passes for enough data.
Read ==
    /\ pc = "read"
    /\ \/ gone /\ UNCHANGED <<iev, queue>>
       \/ ~gone /\ queue # << >> /\ iev' = Head(queue) /\ queue' = Tail(queue)
    /\ pc' = "handle"
    /\ UNCHANGED <<left, open, ifd, device, dropped, created, told>>

\* Mutant of Concerns: a switch that was set back is not passed on.
ConcernsSet(e) == e.kind = "switch" /\ e.value # 0

Concerns(e) == e.kind = "switch"

Handle ==
    /\ pc = "handle"
    /\ IF Concerns(iev) THEN SendSwitch(iev.value, iev.turn) ELSE UNCHANGED told
    /\ pc' = "read"
    /\ UNCHANGED <<left, open, ifd, device, queue, dropped, iev, created>>

Init ==
    /\ left \in {DOMAIN Nodes, {}} /\ open = {} /\ ifd = None
    /\ switch \in {0, 1} /\ turn = 0 /\ gone = FALSE
    /\ queue = << >> /\ dropped = FALSE
    /\ pc = "openfd"
    /\ iev \in Garbage
    /\ created = FALSE
    /\ lid = 0 /\ lidTurn = 0

Program == OpenFd \/ OpenFdFails \/ CreateUinput \/ InitialState \/ Read \/ Handle

Next == Program \/ SwitchTurns \/ OtherEvent \/ DeviceGoes

Spec == Init /\ [][Next]_vars

\* The process runs whenever it can.
FairSpec == Spec /\ WF_vars(Program)

-----------------------------------------------------------------------------
(* Properties                                                               *)

\* Every variable holds a value of its type; uinput is told 0 or 1, and no more than
\* the node in use and those that did not answer stay open.
TypeOK ==
    /\ left \subseteq DOMAIN Nodes
    /\ open \subseteq {n \in DOMAIN Nodes : "silent" \in Answers(n)} \cup {ifd}
    /\ ifd \in DOMAIN Nodes \cup {None}
    /\ switch \in {0, 1} /\ turn \in 0..MaxTurns /\ lidTurn \in 0..MaxTurns
    /\ {gone, dropped, created} \subseteq BOOLEAN
    /\ Len(queue) < QueueSize
    /\ pc \in {"openfd", "uinput", "initial", "read", "handle", "exited"}
    /\ lid \in {0, 1}

\* The lid never goes back to a state that is older than one it was told before;
\* unless the device went before anything was read from it, when iev is garbage.
NeverBackward == [][lidTurn' >= lidTurn \/ (gone /\ iev.turn = 0)]_told

\* A switch that has stopped turning is shown as it is in the end, by a program that
\* found it and has a uinput device.
LidFollows ==
    <>[](\/ lid = switch \/ dropped \/ gone \/ pc = "exited"
         \/ pc \in {"read", "handle"} /\ ~created)
=============================================================================
