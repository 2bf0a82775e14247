-------------------------------- MODULE DAQMain --------------------------------
(***************************************************************************)
(* The mains that drive DAQTask threads: leb (src/leb.cxx), dtmain         *)
(* (src/dtmain.cxx) and the test program of src/daqtask.cxx.  Each is a    *)
(* straight line of calls, most of them in a loop over the tasks, with a   *)
(* command loop in it: a main is a sequence of operations, the place of    *)
(* the next one (ip) and the loop variable (k).                            *)
(***************************************************************************)
EXTENDS DAQTask

CONSTANTS
    Program,        \* "leb", "dtmain" or "test"
    TaskSeq,        \* the vector `tasks'
    MayFail,        \* tasks whose st_init connects to a front end and may fail
    MaxResets       \* bound of the model: `init' commands

ASSUME ProgramAssumption ==
    /\ Program \in {"leb", "dtmain", "test"}
    /\ TaskSeq \in Seq(Task) /\ TaskSeq # <<>>
    /\ \A t \in Task : \E j \in 1 .. Len(TaskSeq) : TaskSeq[j] = t
    /\ MayFail \subseteq Task
    /\ MaxResets \in Nat

VARIABLES
    ip,             \* the operation main executes next
    sub,            \* the operation of init_sequence main executes, or 0
    k,              \* the task of the loop main is in, or 1
    resets,         \* `init' commands so far
    clears, inits,  \* histories: per task, clear_is_done and st_init calls
    failed,         \* history: tasks whose last st_init failed
    forgot,         \* history: tasks whose failure clear_is_good wiped out
    tcp             \* tasks whose connection was opened at least once

histories == <<clears, inits, failed, forgot, tcp>>
vars == <<taskvars, ip, sub, k, resets, histories>>

\* What main calls, once or for each task.
StartUp == << <<"run", "each">>, <<"clear_is_done", "each">>, <<"clear_is_good", "each">>,
              <<"set_state", "SM_INIT">>, <<"wait", "each">>, <<"good", "once">>,
              <<"set_state", "SM_IDLE">>, <<"set_state", "SM_RUNNING">>, <<"command", "once">> >>
EndLeb == << <<"set_state", "SM_EXIT">>, <<"join", "each">> >>
EndDtmain == << <<"set_state", "SM_IDLE">>, <<"set_state", "SM_END">>, <<"join", "each">> >>
Test == << <<"run", "each">>, <<"clear_is_done", "each">>, <<"set_state", "SM_INIT">>,
           <<"wait", "each">>, <<"set_state", "SM_IDLE">>, <<"set_state", "SM_RUNNING">> >>
Script == CASE Program = "leb"    -> StartUp \o EndLeb
            [] Program = "dtmain" -> StartUp \o EndDtmain
            [] Program = "test"   -> Test \o EndDtmain

\* init_sequence of leb.cxx.
InitSequence == << <<"clear_is_done", "each">>, <<"clear_is_good", "each">>,
                   <<"set_state", "SM_INIT">>, <<"poll", "each">> >>

\* The last set_state before the joins, where a failed initialisation goes.
LastState == Len(Script) - 1
MainDone == ip > Len(Script)

Init ==
    /\ TaskInit
    /\ ip = 1 /\ sub = 0 /\ k = 1 /\ resets = 0
    /\ clears = [t \in Task |-> 0] /\ inits = [t \in Task |-> 0]
    /\ failed = {} /\ forgot = {} /\ tcp = {}

--------------------------------------------------------------------------------
\* One call of main, for task t if it is in a loop; `wait' and `join' block.
Call(op, t) ==
    \/ /\ op[1] = "run" /\ Run(t)
       /\ UNCHANGED histories
    \/ /\ op[1] = "clear_is_done" /\ ClearIsDone(t)
       /\ clears' = [clears EXCEPT ![t] = @ + 1]
       /\ UNCHANGED <<inits, failed, forgot, tcp>>
    \/ /\ op[1] = "clear_is_good" /\ ClearIsGood(t)
       /\ forgot' = forgot \cup (failed \cap {t})
       /\ UNCHANGED <<clears, inits, failed, tcp>>
    \/ /\ op[1] = "set_state" /\ SetState(op[2])
       /\ UNCHANGED histories
    \/ /\ op[1] = "wait" /\ m_is_done[t]
       /\ UNCHANGED <<taskvars, histories>>
    \/ /\ op[1] = "join" /\ pc[t] = "stopped"
       /\ UNCHANGED <<taskvars, histories>>

\* Whether the operation is done after this call, and the loop variable then.
Last(op) == op[2] # "each" \/ k = Len(TaskSeq)
NextTask(op) == k' = IF Last(op) THEN 1 ELSE k + 1

\* One iteration of the poll of init_sequence: a task that is done is reported
\* as `initialize fail !' and ends the loop, a task that is not done is given up.
Poll_past(t) ==
    /\ IF m_is_done[t]
         THEN sub' = 0 /\ k' = 1
         ELSE /\ k' = k + 1
              /\ sub' = IF k > Len(TaskSeq) THEN 0 ELSE sub
    /\ UNCHANGED <<taskvars, ip, resets, histories>>
Poll(t) ==
    /\ IF m_is_done[t]
         THEN sub' = 0 /\ k' = 1
         ELSE /\ NextTask(InitSequence[sub])
              /\ sub' = IF Last(InitSequence[sub]) THEN 0 ELSE sub
    /\ UNCHANGED <<taskvars, ip, resets, histories>>

MainCalls ==
    /\ sub = 0 /\ ~ MainDone
    /\ Call(Script[ip], TaskSeq[k])
    /\ NextTask(Script[ip])
    /\ ip' = IF Last(Script[ip]) THEN ip + 1 ELSE ip
    /\ UNCHANGED <<sub, resets>>

\* `if (is_good_init)'
AllGood_last == m_is_good[TaskSeq[Len(TaskSeq)]]
AllGood == \A t \in Task : m_is_good[t]
MainTests ==
    /\ sub = 0 /\ ~ MainDone /\ Script[ip][1] = "good"
    /\ ip' = IF AllGood THEN ip + 1 ELSE LastState
    /\ UNCHANGED <<taskvars, sub, k, resets, histories>>

AtCommand == sub = 0 /\ ~ MainDone /\ Script[ip][1] = "command"

\* `run', `idle', `stop' and, in leb, `end'.
SetCommand ==
    /\ AtCommand
    /\ \E s \in {"SM_RUNNING", "SM_IDLE"} \cup
                (IF Program = "leb" THEN {"SM_END"} ELSE {}) : SetState(s)
    /\ UNCHANGED <<ip, sub, k, resets, histories>>

\* `exit', `quit', `q' and, in dtmain, `end' and `stop'.
QuitCommand ==
    /\ AtCommand
    /\ ip' = ip + 1
    /\ UNCHANGED <<taskvars, sub, k, resets, histories>>

\* `init', only in leb.
InitCommand ==
    /\ AtCommand /\ Program = "leb" /\ resets < MaxResets
    /\ sub' = 1 /\ resets' = resets + 1
    /\ UNCHANGED <<taskvars, ip, k, histories>>

InitCalls ==
    /\ sub > 0
    /\ \/ /\ Call(InitSequence[sub], TaskSeq[k])
          /\ NextTask(InitSequence[sub])
          /\ sub' = IF Last(InitSequence[sub]) THEN sub + 1 ELSE sub
          /\ UNCHANGED <<ip, resets>>
       \/ /\ InitSequence[sub][1] = "poll"
          /\ Poll(TaskSeq[k])

Main == MainCalls \/ MainTests \/ InitCalls
Command == SetCommand \/ QuitCommand \/ InitCommand

--------------------------------------------------------------------------------
Base == Program = "test"

\* Bound of the model: `inits' is counted up to one more than InitsBounded allows.
InitCap == MaxResets + 3

TaskInits(t) ==
    /\ \E good \in {TRUE} \cup (IF t \in MayFail THEN {FALSE} ELSE {}) :
        /\ StInit(t, good, Base)
        /\ failed' = IF good THEN failed \ {t} ELSE failed \cup {t}
        /\ tcp' = IF good THEN tcp \cup {t} ELSE tcp
    /\ inits' = [inits EXCEPT ![t] = IF @ < InitCap THEN @ + 1 ELSE @]
    /\ UNCHANGED <<clears, forgot>>

\* A handler may return at any time: st_running does so on an error.
Returns(t) == Return(t, Base) /\ UNCHANGED histories
Leaves(t) == Returns(t) /\ (pc[t] = "running" => Base \/ c_state # "SM_RUNNING")

StateMachine(t) ==
    \/ (Switch(t) \/ TestDone(t) \/ SetDone(t) \/ Check(t)) /\ UNCHANGED histories
    \/ TaskInits(t)
Thread(t) == (StateMachine(t) \/ Returns(t)) /\ UNCHANGED <<ip, sub, k, resets>>

Next == Main \/ Command \/ \E t \in Task : Thread(t)

Spec == Init /\ [][Next]_vars

\* The threads are scheduled; idle and end return after their sleep; running
\* returns when c_state has changed (LebRun looks into when that is so).  The
\* operator need not give any command.
Fairness ==
    /\ WF_vars(Main)
    /\ \A t \in Task :
        /\ WF_vars(StateMachine(t) /\ UNCHANGED <<ip, sub, k, resets>>)
        /\ WF_vars(Leaves(t) /\ UNCHANGED <<ip, sub, k, resets>>)
FairSpec == Spec /\ Fairness

--------------------------------------------------------------------------------
TypeOK ==
    /\ TaskTypeOK
    /\ ip \in 1 .. Len(Script) + 1
    /\ sub \in 0 .. Len(InitSequence)
    /\ k \in 1 .. Len(TaskSeq)
    /\ resets \in 0 .. MaxResets
    /\ clears \in [Task -> Nat] /\ inits \in [Task -> Nat]
    /\ failed \subseteq Task /\ forgot \subseteq Task /\ tcp \subseteq Task

\* leb.cxx:261-263 starts the threads and then clears their flags, so a thread
\* may run st_init (and open its connection) again; it does so at most once
\* more than main cleared m_is_done.
InitsBounded == \A t \in Task : inits[t] <= clears[t] + 1

\* A task runs without a connection only if its failure was wiped out by the
\* clear_is_good that main executes while the thread is already running
\* (leb.cxx:264): every other failure keeps all tasks out of SM_RUNNING.
NoBlindRun ==
    \A t \in MayFail : pc[t] = "running" => t \in tcp \cup forgot

\* The wait of leb.cxx:266 ends, although main itself clears the flags it waits
\* for: a thread in SM_INIT sets m_is_done in every turn, whether its st_init
\* failed or not.
WaitAt == CHOOSE j \in DOMAIN Script : Script[j][1] = "wait"
InitCompletes == <>(ip > WaitAt)

\* Once main is at its joins every thread stops and main ends (leb.cxx:284-291),
\* provided st_running returns.
JoinsEnd == ip > LastState ~> MainDone

\* The test program of daqtask.cxx reaches its end: `main end' (daqtask.cxx:256).
TestEnds == <>MainDone
================================================================================
