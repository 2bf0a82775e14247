--------------------------------- MODULE LebRun ---------------------------------
(***************************************************************************)
(* The data path of leb after start-up: the front-end tasks (DTArecbe,     *)
(* "avants", src/dtarecbe.cxx) and the builder (DTeb, src/dteb.cxx) inside *)
(* their st_running, the in-process ZMQ pipes between them, the counter    *)
(* g_avant_depth of buffers that are not freed yet, and the commands that  *)
(* start and stop a run (src/leb.cxx).  The threads' state machine is the  *)
(* one of DAQTask; the handlers `running' are refined here.                *)
(*                                                                         *)
(* A buffer is a pair <<n, k>>: the k-th that avant n allocated.  What the *)
(* builder does with a fragment is EventBuilder's subject; here it only    *)
(* takes the message, may have to send, and frees it.                      *)
(***************************************************************************)
EXTENDS DAQTask

CONSTANTS
    Avant,      \* the front-end tasks
    eb,         \* the builder task
    PipeCap,    \* messages a pipe takes before send blocks (m_quelen)
    MaxBuf,     \* bound of the model: buffers an avant allocates
    Share,      \* bound of the model: buffers each avant allocates
    MaxErrors,  \* bound of the model: failing reads and sends, in all
    Silent,     \* avants whose front end may stop sending for good
    Consumer    \* TRUE: somebody is, sooner or later, connected to ebserver

ASSUME TaskAssumption == Task = Avant \cup {eb} /\ eb \notin Avant /\ IsFiniteSet(Avant)
ASSUME BoundAssumption ==
    /\ PipeCap \in Nat \ {0} /\ MaxErrors \in Nat
    /\ MaxBuf \in Nat /\ Share \in [Avant -> 0 .. MaxBuf]
    /\ Silent \subseteq Avant /\ Consumer \in BOOLEAN

VARIABLES
    at,             \* where avant n is inside st_running, or "out"
    made,           \* buffers avant n has allocated
    link,           \* the sender of avant n: "none", "pending", "up" or "cut"
    queue,          \* buffers in the pipes
    eat,            \* where the builder is inside st_running, or "out"
    hand,           \* the buffer the builder works on
    leaked,         \* buffers nobody will free
    g_avant_depth,
    errors,         \* failed reads and sends so far
    decided,        \* history: `made' when the builder last decided to leave
    main            \* "command", "join" or "done"

avantvars == <<at, made, link>>
ebvars == <<eat, hand, decided>>
vars == <<taskvars, avantvars, queue, ebvars, leaked, g_avant_depth, errors, main>>

Buffer == Avant \X (1 .. MaxBuf)
Current(n) == <<n, made[n]>>
Queued(n) == {m \in queue : m[1] = n}

\* Buffers that exist: being filled, in a pipe, at the builder, or leaked.
Filling == {Current(n) : n \in {x \in Avant : at[x] \in {"read", "send"}}}
Alive == Filling \cup queue \cup hand \cup leaked

Init ==
    /\ c_state = "SM_IDLE"
    /\ pc = [t \in Task |-> "switch"]
    /\ m_is_done = [t \in Task |-> TRUE] /\ m_is_good = [t \in Task |-> TRUE]
    /\ at = [n \in Avant |-> "out"]
    /\ made = [n \in Avant |-> 0]
    /\ link = [n \in Avant |-> "none"]
    /\ queue = {} /\ hand = {} /\ leaked = {}
    /\ eat = "out"
    /\ g_avant_depth = 0 /\ errors = 0
    /\ decided = [n \in Avant |-> 0]
    /\ main = "command"

--------------------------------------------------------------------------------
\* DTArecbe::st_running.

Goes(n, place) == at' = [at EXCEPT ![n] = place]

\* The sender is created and connected.  While no receiver is bound ZMQ keeps
\* the connection pending, and queues.
Enter(n) ==
    /\ pc[n] = "running" /\ at[n] = "out"
    /\ link' = [link EXCEPT ![n] = IF eat = "out" THEN "pending" ELSE "up"]
    /\ Goes(n, "check")
    /\ UNCHANGED <<taskvars, made, queue, ebvars, leaked, g_avant_depth, errors, main>>

\* `if (c_state != SM_RUNNING) break;'
CheckState(n) ==
    /\ at[n] = "check"
    /\ Goes(n, IF c_state # "SM_RUNNING" THEN "leave" ELSE "alloc")
    /\ UNCHANGED <<taskvars, made, link, queue, ebvars, leaked, g_avant_depth, errors, main>>

\* A buffer is allocated and counted.
Alloc(n) ==
    /\ at[n] = "alloc" /\ made[n] < Share[n]
    /\ made' = [made EXCEPT ![n] = @ + 1]
    /\ g_avant_depth' = g_avant_depth + 1
    /\ Goes(n, "read")
    /\ UNCHANGED <<taskvars, link, queue, ebvars, leaked, errors, main>>

\* `new' fails, or, at the model's bound, the front end has no more data.
AllocFails(n) ==
    /\ at[n] = "alloc"
    /\ Goes(n, "leave")
    /\ UNCHANGED <<taskvars, made, link, queue, ebvars, leaked, g_avant_depth, errors, main>>

\* Header and body arrive.
Read(n) ==
    /\ at[n] = "read"
    /\ Goes(n, "send")
    /\ UNCHANGED <<taskvars, made, link, queue, ebvars, leaked, g_avant_depth, errors, main>>

\* tcp->read throws: the loop is left, the buffer stays allocated and counted.
ReadFails(n) ==
    /\ at[n] = "read" /\ errors < MaxErrors
    /\ errors' = errors + 1
    /\ leaked' = leaked \cup {Current(n)}
    /\ Goes(n, "leave")
    /\ UNCHANGED <<taskvars, made, link, queue, ebvars, g_avant_depth, main>>

\* send blocks when the pipe is full or its receiver is gone.
CanSend(n) == link[n] \in {"pending", "up"} /\ Cardinality(Queued(n)) < PipeCap
Send(n) ==
    /\ at[n] = "send" /\ CanSend(n)
    /\ queue' = queue \cup {Current(n)}
    /\ Goes(n, "check")
    /\ UNCHANGED <<taskvars, made, link, ebvars, leaked, g_avant_depth, errors, main>>

\* send throws: st_running returns -1, and the message that goes out of scope
\* with it frees the buffer (buf_free).
SendFails(n) ==
    /\ at[n] = "send" /\ errors < MaxErrors
    /\ errors' = errors + 1
    /\ g_avant_depth' = g_avant_depth - 1
    /\ Goes(n, "leave")
    /\ UNCHANGED <<taskvars, made, link, queue, ebvars, leaked, main>>

\* st_running returns and its sender is closed.  What is in the pipe to a bound
\* receiver stays there; what waits for a receiver is kept or freed by ZMQ.
Leave(n) ==
    /\ at[n] = "leave"
    /\ \E freed \in {{}} \cup (IF link[n] = "pending" THEN {Queued(n)} ELSE {}) :
        /\ queue' = queue \ freed
        /\ g_avant_depth' = g_avant_depth - Cardinality(freed)
    /\ link' = [link EXCEPT ![n] = "none"]
    /\ Goes(n, "out")
    /\ Return(n, FALSE)
    /\ UNCHANGED <<made, ebvars, leaked, errors, main>>

--------------------------------------------------------------------------------
\* DTeb::st_running.

\* The receiver is bound; pending connections come up.
EbEnter ==
    /\ pc[eb] = "running" /\ eat = "out"
    /\ link' = [n \in Avant |-> IF link[n] = "pending" THEN "up" ELSE link[n]]
    /\ eat' = "check"
    /\ UNCHANGED <<taskvars, at, made, queue, hand, decided, leaked, g_avant_depth, errors, main>>

\* `if ((c_state != SM_RUNNING) && (g_avant_depth <= 0)) break;': two reads.
EbState ==
    /\ eat = "check"
    /\ eat' = IF c_state # "SM_RUNNING" THEN "depth" ELSE "recv"
    /\ UNCHANGED <<taskvars, avantvars, queue, hand, decided, leaked, g_avant_depth, errors, main>>

Drained_never == g_avant_depth < 0
Drained_ignored == TRUE
Drained == g_avant_depth <= 0
EbDepth ==
    /\ eat = "depth"
    /\ IF Drained THEN eat' = "leave" /\ decided' = made
                  ELSE eat' = "recv" /\ UNCHANGED decided
    /\ UNCHANGED <<taskvars, avantvars, queue, hand, leaked, g_avant_depth, errors, main>>

\* recv(ZMQ_NOBLOCK): a message of some pipe, or nothing when all are empty.
EbRecv ==
    /\ eat = "recv"
    /\ \/ \E m \in queue : /\ queue' = queue \ {m} /\ hand' = {m}
                           /\ eat' = "build"
       \/ /\ queue = {}
          /\ eat' = "check" /\ UNCHANGED <<queue, hand>>
    /\ UNCHANGED <<taskvars, avantvars, decided, leaked, g_avant_depth, errors, main>>

\* The fragment completes no event, or it makes the builder send.
EbBuild ==
    /\ eat = "build"
    /\ eat' \in {"free", "send"}
    /\ UNCHANGED <<taskvars, avantvars, queue, hand, decided, leaked, g_avant_depth, errors, main>>

\* ebserver.send blocks while nobody is connected: how long, Fairness says.
EbSend ==
    /\ eat = "send"
    /\ eat' = "free"
    /\ UNCHANGED <<taskvars, avantvars, queue, hand, decided, leaked, g_avant_depth, errors, main>>

\* The message goes out of scope: buf_free.
EbFree_kept ==
    /\ eat = "free"
    /\ g_avant_depth' = g_avant_depth - 1
    /\ eat' = "check"
    /\ UNCHANGED <<taskvars, avantvars, queue, hand, decided, leaked, errors, main>>
EbFree ==
    /\ eat = "free"
    /\ hand' = {}
    /\ g_avant_depth' = g_avant_depth - 1
    /\ eat' = "check"
    /\ UNCHANGED <<taskvars, avantvars, queue, decided, leaked, errors, main>>

\* st_running returns: the receiver is closed, what is still in its pipes is
\* freed, and a sender that was connected to it has nobody to send to.
EbLeave_uncounted ==
    /\ eat = "leave"
    /\ queue' = {}
    /\ link' = [n \in Avant |-> IF link[n] = "up" THEN "cut" ELSE link[n]]
    /\ eat' = "out"
    /\ Return(eb, FALSE)
    /\ UNCHANGED <<at, made, hand, decided, leaked, g_avant_depth, errors, main>>
EbLeave ==
    /\ eat = "leave"
    /\ queue' = {}
    /\ g_avant_depth' = g_avant_depth - Cardinality(queue)
    /\ link' = [n \in Avant |-> IF link[n] = "up" THEN "cut" ELSE link[n]]
    /\ eat' = "out"
    /\ Return(eb, FALSE)
    /\ UNCHANGED <<at, made, hand, decided, leaked, errors, main>>

--------------------------------------------------------------------------------
\* The part of the state machine outside st_running.
rest == <<avantvars, queue, ebvars, leaked, g_avant_depth, errors, main>>

\* `case SM_INIT'.  A thread whose flag was cleared calls st_init, where an avant
\* opens its connection again, which no buffer, pipe or place here depends on:
\* the flags and st_init are in DAQMain, and the branch is one step here.
Initialise(t) ==
    /\ pc[t] = "test"
    /\ Goto(t, "check")
    /\ UNCHANGED <<c_state, m_is_done, m_is_good>>

StateMachine(t) ==
    /\ \/ Switch(t) \/ Initialise(t) \/ Check(t)
       \/ pc[t] \in {"idle", "end"} /\ Return(t, FALSE)
    /\ UNCHANGED rest

\* remote_command_loop, then SM_EXIT and the joins.  Of `init' it is the state
\* that a run sees, also in the middle of it.
Command ==
    /\ main = "command"
    /\ \E s \in {"SM_RUNNING", "SM_IDLE", "SM_INIT", "SM_END"} : SetState(s)
    /\ UNCHANGED rest
Quit ==
    /\ main = "command"
    /\ SetState("SM_EXIT")
    /\ main' = "join"
    /\ UNCHANGED <<avantvars, queue, ebvars, leaked, g_avant_depth, errors>>
Join ==
    /\ main = "join" /\ \A t \in Task : pc[t] = "stopped"
    /\ main' = "done"
    /\ UNCHANGED <<taskvars, avantvars, queue, ebvars, leaked, g_avant_depth, errors>>

AvantStep(n) == \/ Enter(n) \/ CheckState(n) \/ Alloc(n) \/ AllocFails(n)
                \/ Read(n) \/ ReadFails(n) \/ Send(n) \/ SendFails(n) \/ Leave(n)
EbInside == EbEnter \/ EbState \/ EbDepth \/ EbRecv \/ EbBuild \/ EbFree \/ EbLeave
EbStep == EbInside \/ EbSend

Next == \/ \E n \in Avant : AvantStep(n)
        \/ EbStep
        \/ \E t \in Task : StateMachine(t)
        \/ Command \/ Quit \/ Join

Spec == Init /\ [][Next]_vars

\* Every thread is scheduled; a read returns unless its front end is silent, a
\* send of the builder returns unless no consumer is certain.
Runs(n) == \/ Enter(n) \/ CheckState(n) \/ Alloc(n) \/ AllocFails(n)
           \/ (n \notin Silent /\ Read(n)) \/ Send(n) \/ Leave(n)
Fairness == /\ \A n \in Avant : WF_vars(Runs(n))
            /\ WF_vars(EbInside \/ (Consumer /\ EbSend))
            /\ \A t \in Task : WF_vars(StateMachine(t))
            /\ WF_vars(Join)
FairSpec == Spec /\ Fairness

--------------------------------------------------------------------------------
\* The types, and how the position inside st_running and the state machine, the
\* sockets and the buffer at hand go together.
TypeOK ==
    /\ TaskTypeOK
    /\ at \in [Avant -> {"out", "check", "alloc", "read", "send", "leave"}]
    /\ made \in [Avant -> 0 .. MaxBuf]
    /\ link \in [Avant -> {"none", "pending", "up", "cut"}]
    /\ queue \subseteq Buffer /\ hand \subseteq Buffer /\ leaked \subseteq Buffer
    /\ eat \in {"out", "check", "depth", "recv", "build", "send", "free", "leave"}
    /\ g_avant_depth \in Int
    /\ errors \in 0 .. MaxErrors
    /\ decided \in [Avant -> 0 .. MaxBuf]
    /\ main \in {"command", "join", "done"}
    /\ \A n \in Avant : at[n] # "out" => pc[n] = "running" /\ link[n] # "none"
    /\ eat # "out" => pc[eb] = "running" /\ \A n \in Avant : link[n] # "pending"
    /\ IF eat \in {"build", "send", "free"} THEN \E m \in Buffer : hand = {m}
                                            ELSE hand = {}

\* g_avant_depth counts exactly the buffers that exist, over every interleaving
\* of the avants that allocate, the builder that frees and the sockets that are
\* closed under them or throw (dtarecbe.cxx:38, 158, 216): it is never too low, so that the
\* builder cannot take a busy pipeline for an empty one (dteb.cxx:220).
DepthExact == g_avant_depth = Cardinality(Alive)

\* When the builder leaves its loop and closes the receiver, all it can discard
\* are buffers that were allocated after it found g_avant_depth at 0
\* (dteb.cxx:220): the fragments of the run that was stopped have all been
\* received.  The race that remains is an avant that read SM_RUNNING before the
\* command and allocates after the builder's test.
DropsOnlyLate ==
    eat = "leave" => \A m \in queue \cup Filling : m[2] > decided[m[1]]

\* What can keep main in its joins for ever (leb.cxx:290).
LeakedBuffer == leaked # {}                     \* a failed read (dtarecbe.cxx:173, 197)
BlockedSender == \E n \in Avant : at[n] = "send" /\ ~ CanSend(n)
                                                \* its receiver left, or never came
SilentFrontEnd == \E n \in Silent : at[n] = "read"
NoConsumer == ~ Consumer /\ eat = "send"

\* After exit every thread stops and main ends, or one of these four holds from
\* some time on: nothing else in the two st_running loops can hang the exit.
ExitTerminates ==
    <>(main = "join") =>
        \/ <>(main = "done")
        \/ <>[]LeakedBuffer \/ <>[]BlockedSender \/ <>[]SilentFrontEnd \/ <>[]NoConsumer
================================================================================
