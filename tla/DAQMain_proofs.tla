----------------------------- MODULE DAQMain_proofs -----------------------------
(***************************************************************************)
(* Proofs about DAQMain for leb and dtmain, with any number of tasks and   *)
(* of init commands.                                                       *)
(*                                                                         *)
(* Main and the threads share only flags, so the invariant says what each  *)
(* flag is worth: m_is_done means that st_init was called (Known), a task  *)
(* that was called has a connection or is recorded as failed, and a        *)
(* failure that m_is_good does not show was wiped out by main.  Main's own *)
(* place says for which tasks it has waited (Waited) and that it was past  *)
(* `if (is_good_init)' before anything could run (Tested).                 *)
(***************************************************************************)
EXTENDS DAQMain, TLAPS

\* The programs that are delivered.
Shipped == Program \in {"leb", "dtmain"}

\* st_init calls against clear_is_done: a task that is neither done nor about to
\* say so has been called at most as often as it was cleared.
Counted == \A t \in Task :
    /\ inits[t] <= clears[t] + 1
    /\ pc[t] # "done" /\ ~ m_is_done[t] => inits[t] <= clears[t]
    /\ pc[t] = "init" => ~ m_is_done[t]

\* What is known of a task that is done, that was called, that has failed.
Known == \A t \in Task :
    /\ m_is_done[t] \/ pc[t] = "done" => inits[t] >= 1
    /\ inits[t] >= 1 => t \in tcp \cup failed
    /\ t \in failed /\ m_is_good[t] => t \in forgot

\* The tasks main has waited for were called.
Waited == \A j \in 1 .. Len(TaskSeq) :
    (ip > 5 \/ (ip = 5 /\ j < k)) => inits[TaskSeq[j]] >= 1

\* init_sequence is only called from the command loop.
Inside == sub > 0 => ip = 9

\* Past `if (is_good_init)' every task has a connection or a forgotten failure.
Opened == \A t \in Task : t \in tcp \cup forgot
Tested == (ip \in 7 .. 9 \/ c_state = "SM_RUNNING" \/ \E t \in Task : pc[t] = "running") => Opened

IInv == TypeOK /\ Counted /\ Known /\ Waited /\ Inside /\ Tested

--------------------------------------------------------------------------------
\* The places of the operations in the two mains.
LEMMA ScriptShape ==
    ASSUME Shipped
    PROVE  /\ Script[1] = <<"run", "each">>
           /\ Script[2] = <<"clear_is_done", "each">>
           /\ Script[3] = <<"clear_is_good", "each">>
           /\ Script[4] = <<"set_state", "SM_INIT">>
           /\ Script[5] = <<"wait", "each">>
           /\ Script[6] = <<"good", "once">>
           /\ Script[7] = <<"set_state", "SM_IDLE">>
           /\ Script[8] = <<"set_state", "SM_RUNNING">>
           /\ Script[9] = <<"command", "once">>
           /\ \/ /\ Program = "leb" /\ Len(Script) = 11
                 /\ Script[10] = <<"set_state", "SM_EXIT">>
                 /\ Script[11] = <<"join", "each">>
              \/ /\ Program = "dtmain" /\ Len(Script) = 12
                 /\ Script[10] = <<"set_state", "SM_IDLE">>
                 /\ Script[11] = <<"set_state", "SM_END">>
                 /\ Script[12] = <<"join", "each">>
<1>1. CASE Program = "leb"
  BY <1>1 DEF Script, StartUp, EndLeb
<1>2. CASE Program = "dtmain"
  BY <1>2 DEF Script, StartUp, EndDtmain
<1> QED
  BY <1>1, <1>2 DEF Shipped

\* The same by operation.
LEMMA ScriptFacts ==
    ASSUME NEW j \in 1 .. Len(Script), Shipped
    PROVE  /\ Script[j][1] = "set_state" => Script[j][2] \in RunState
           /\ Script[j][1] = "set_state" /\ Script[j][2] = "SM_RUNNING" => j = 8
           /\ Script[j][1] = "good" => j = 6
           /\ Script[j][1] = "command" => j = 9
           /\ j = 4 => Script[j][2] # "each"
           /\ j = 5 => Script[j] = <<"wait", "each">>
           /\ j = 6 => Script[j][1] = "good"
<1>0. Len(Script) = 11 \/ Len(Script) = 12
  BY ScriptShape
<1>a. j \in 1 .. 12
  <2>1. CASE Len(Script) = 11
    BY <2>1
  <2>2. CASE Len(Script) = 12
    BY <2>2
  <2> QED
    BY <1>0, <2>1, <2>2
<1>1. CASE j = 1
  <2>1. Script[j] = <<"run", "each">>
    BY <1>1, ScriptShape
  <2> QED
    BY <1>1, <2>1 DEF RunState
<1>2. CASE j = 2
  <2>1. Script[j] = <<"clear_is_done", "each">>
    BY <1>2, ScriptShape
  <2> QED
    BY <1>2, <2>1 DEF RunState
<1>3. CASE j = 3
  <2>1. Script[j] = <<"clear_is_good", "each">>
    BY <1>3, ScriptShape
  <2> QED
    BY <1>3, <2>1 DEF RunState
<1>4. CASE j = 4
  <2>1. Script[j] = <<"set_state", "SM_INIT">>
    BY <1>4, ScriptShape
  <2> QED
    BY <1>4, <2>1 DEF RunState
<1>5. CASE j = 5
  <2>1. Script[j] = <<"wait", "each">>
    BY <1>5, ScriptShape
  <2> QED
    BY <1>5, <2>1 DEF RunState
<1>6. CASE j = 6
  <2>1. Script[j] = <<"good", "once">>
    BY <1>6, ScriptShape
  <2> QED
    BY <1>6, <2>1 DEF RunState
<1>7. CASE j = 7
  <2>1. Script[j] = <<"set_state", "SM_IDLE">>
    BY <1>7, ScriptShape
  <2> QED
    BY <1>7, <2>1 DEF RunState
<1>8. CASE j = 8
  <2>1. Script[j] = <<"set_state", "SM_RUNNING">>
    BY <1>8, ScriptShape
  <2> QED
    BY <1>8, <2>1 DEF RunState
<1>9. CASE j = 9
  <2>1. Script[j] = <<"command", "once">>
    BY <1>9, ScriptShape
  <2> QED
    BY <1>9, <2>1 DEF RunState
<1>10. CASE j = 10
  <2>1. Script[10] = <<"set_state", "SM_EXIT">> \/ Script[10] = <<"set_state", "SM_IDLE">>
    BY ScriptShape
  <2>2. /\ Script[10][1] = "set_state" /\ Script[10][2] \in {"SM_EXIT", "SM_IDLE"}
    BY <2>1
  <2> QED
    BY <1>0, <1>10, <2>2 DEF RunState
<1>11. CASE j = 11
  <2>1. Script[j] = <<"join", "each">> \/ Script[j] = <<"set_state", "SM_END">>
    BY <1>11, ScriptShape
  <2> QED
    BY <1>11, <2>1 DEF RunState
<1>12. CASE j = 12
  <2>1. Len(Script) = 12
    <3>1. Len(Script) # 11
      <4>1. SUFFICES ASSUME Len(Script) = 11 PROVE FALSE
        OBVIOUS
      <4> QED
        BY <4>1, <1>12
    <3> QED
      BY <1>0, <3>1
  <2>2. Script[12] = <<"join", "each">>
    BY <2>1, ScriptShape
  <2> QED
    BY <1>0, <1>12, <2>2
<1> QED
  BY <1>a, <1>1, <1>2, <1>3, <1>4, <1>5, <1>6, <1>7, <1>8, <1>9, <1>10, <1>11, <1>12

LEMMA InitFacts ==
    ASSUME NEW j \in 1 .. 4
    PROVE  /\ InitSequence[j][1] = "set_state" => j = 3 /\ InitSequence[j][2] = "SM_INIT"
           /\ InitSequence[j][1] = "poll" => j = 4
           /\ j = 4 => InitSequence[j] = <<"poll", "each">>
<1>1. j \in {1, 2, 3, 4}
  OBVIOUS
<1> QED
  BY <1>1 DEF InitSequence

LEMMA Lengths ==
    ASSUME Shipped
    PROVE  /\ Len(InitSequence) = 4 /\ Len(Script) \in 11 .. 12 /\ LastState \in 10 .. Len(Script)
           /\ Len(TaskSeq) \in Nat \ {0} /\ \A j \in 1 .. Len(TaskSeq) : TaskSeq[j] \in Task
<1>1. Len(InitSequence) = 4
  BY DEF InitSequence
<1>2. Len(TaskSeq) \in Nat \ {0} /\ \A j \in 1 .. Len(TaskSeq) : TaskSeq[j] \in Task
  BY ProgramAssumption DEF ProgramAssumption
<1>3. CASE Len(Script) = 11
  BY <1>1, <1>2, <1>3 DEF LastState
<1>4. CASE Len(Script) = 12
  BY <1>1, <1>2, <1>4 DEF LastState
<1>5. Len(Script) = 11 \/ Len(Script) = 12
  BY ScriptShape
<1> QED
  BY <1>3, <1>4, <1>5

--------------------------------------------------------------------------------
LEMMA InitInv == ASSUME Shipped, Init PROVE IInv
<1>1. TypeOK
  BY Lengths, ProgramAssumption DEF ProgramAssumption, Init, TypeOK, TaskTypeOK, TaskInit, RunState, Places
<1>2. Counted /\ Known
  BY DEF Init, TaskInit, Counted, Known
<1>3. Waited /\ Inside /\ Tested
  BY DEF Init, TaskInit, Waited, Inside, Tested
<1> QED
  BY <1>1, <1>2, <1>3 DEF IInv

\* One call of main keeps the types, for every operation the two scripts and
\* init_sequence contain.
LEMMA CallTypes ==
    ASSUME TypeOK, NEW op, NEW t \in Task, Call(op, t),
           op[1] = "set_state" => op[2] \in RunState
    PROVE  /\ TaskTypeOK'
           /\ clears' \in [Task -> Nat] /\ inits' \in [Task -> Nat]
           /\ failed' \subseteq Task /\ forgot' \subseteq Task /\ tcp' \subseteq Task
<1> USE DEF Call, TypeOK, TaskTypeOK, taskvars, histories
<1>1. CASE op[1] = "run"
  BY <1>1 DEF Places, Run, Goto
<1>2. CASE op[1] = "clear_is_done"
  <2>1. clears \in [Task -> Nat] /\ clears' = [clears EXCEPT ![t] = clears[t] + 1]
    BY <1>2
  <2>2. clears' \in [Task -> Nat]
    BY <2>1
  <2> QED
    BY <1>2, <2>2 DEF ClearIsDone
<1>3. CASE op[1] = "clear_is_good"
  BY <1>3 DEF ClearIsGood
<1>4. CASE op[1] = "set_state"
  BY <1>4 DEF SetState
<1>5. CASE op[1] \in {"wait", "join"}
  BY <1>5
<1> QED
  BY <1>1, <1>2, <1>3, <1>4, <1>5

LEMMA TypeStep ==
    ASSUME Shipped, TypeOK, [Next]_vars
    PROVE  TypeOK'
<1>0. ip \in 1 .. Len(Script) + 1 /\ sub \in 0 .. 4 /\ k \in 1 .. Len(TaskSeq)
  BY Lengths DEF TypeOK
<1>1. ASSUME MainCalls PROVE TypeOK'
  <2>1. ip \in 1 .. Len(Script) /\ TaskSeq[k] \in Task /\ Call(Script[ip], TaskSeq[k])
    BY <1>0, <1>1, Lengths DEF MainCalls, MainDone
  <2>2. Script[ip][1] = "set_state" => Script[ip][2] \in RunState
    <3>1. ip \in 1 .. Len(Script)
      BY <2>1
    <3> QED
      BY <3>1, ScriptFacts
  <2>3. /\ TaskTypeOK'
        /\ clears' \in [Task -> Nat] /\ inits' \in [Task -> Nat]
        /\ failed' \subseteq Task /\ forgot' \subseteq Task /\ tcp' \subseteq Task
    BY <2>1, <2>2, CallTypes
  <2>4. ip' \in 1 .. Len(Script) + 1 /\ k' \in 1 .. Len(TaskSeq) /\ sub' = sub /\ resets' = resets
    BY <1>0, <1>1, <2>1, Lengths DEF MainCalls, NextTask, Last
  <2> QED
    BY <1>0, <2>3, <2>4 DEF TypeOK
<1>2. ASSUME MainTests PROVE TypeOK'
  <2>1. ip' \in 1 .. Len(Script) + 1
    BY <1>0, <1>2, Lengths DEF MainTests, MainDone
  <2> QED
    BY <1>2, <2>1 DEF MainTests, TypeOK, TaskTypeOK, taskvars, histories
<1>3. ASSUME InitCalls PROVE TypeOK'
  <2>1. sub \in 1 .. 4 /\ TaskSeq[k] \in Task
    BY <1>0, <1>3, Lengths DEF InitCalls
  <2>2. CASE Call(InitSequence[sub], TaskSeq[k]) /\ NextTask(InitSequence[sub])
             /\ sub' = (IF Last(InitSequence[sub]) THEN sub + 1 ELSE sub)
             /\ UNCHANGED <<ip, resets>>
    <3>1. InitSequence[sub][1] = "set_state" => InitSequence[sub][2] \in RunState
      BY <2>1, InitFacts DEF RunState
    <3>2. /\ TaskTypeOK'
          /\ clears' \in [Task -> Nat] /\ inits' \in [Task -> Nat]
          /\ failed' \subseteq Task /\ forgot' \subseteq Task /\ tcp' \subseteq Task
      BY <2>1, <2>2, <3>1, CallTypes
    <3>3. sub # 4
      BY <2>1, <2>2, InitFacts DEF Call
    <3>4. sub' \in 0 .. 4 /\ k' \in 1 .. Len(TaskSeq)
      BY <1>0, <2>1, <2>2, <3>3, Lengths DEF NextTask, Last
    <3> QED
      BY <1>0, <2>2, <3>2, <3>4, Lengths DEF TypeOK
  <2>3. CASE Poll(TaskSeq[k])
    <3>1. sub' \in 0 .. 4 /\ k' \in 1 .. Len(TaskSeq)
      BY <1>0, <2>3, Lengths DEF Poll, NextTask, Last
    <3> QED
      BY <2>3, <3>1, Lengths DEF Poll, TypeOK, TaskTypeOK, taskvars, histories
  <2> QED
    BY <1>3, <2>2, <2>3 DEF InitCalls
<1>4. ASSUME Command PROVE TypeOK'
  <2>1. CASE SetCommand
    BY <2>1 DEF SetCommand, SetState, TypeOK, TaskTypeOK, RunState, histories
  <2>2. CASE QuitCommand
    BY <1>0, <2>2, Lengths DEF QuitCommand, AtCommand, MainDone, TypeOK, TaskTypeOK, taskvars, histories
  <2>3. CASE InitCommand
    <3>1. resets' \in 0 .. MaxResets /\ sub' \in 0 .. 4
      BY <2>3, ProgramAssumption DEF ProgramAssumption, InitCommand, TypeOK
    <3> QED
      BY <2>3, <3>1, Lengths DEF InitCommand, TypeOK, TaskTypeOK, taskvars, histories
  <2> QED
    BY <1>4, <2>1, <2>2, <2>3 DEF Command
<1>5. ASSUME NEW t \in Task, Thread(t) PROVE TypeOK'
  <2>1. TaskTypeOK'
    <3> USE <1>5 DEF TypeOK, TaskTypeOK, Goto, Places, Handlers
    <3>1. CASE Switch(t)
      <4>1. Branch[c_state] \in Places
        BY DEF Branch, RunState
      <4> QED
        BY <3>1, <4>1 DEF Switch
    <3>2. CASE TestDone(t) \/ SetDone(t) \/ Check(t)
      BY <3>2 DEF TestDone, SetDone, Check
    <3>3. CASE TaskInits(t)
      BY <3>3 DEF TaskInits, StInit, Base
    <3>4. CASE Returns(t)
      BY <3>4 DEF Returns, Return, Base
    <3> QED
      BY <3>1, <3>2, <3>3, <3>4 DEF Thread, StateMachine
  <2>2. CASE TaskInits(t)
    <3>1. inits \in [Task -> Nat]
      BY DEF TypeOK
    <3>2. inits' = [inits EXCEPT ![t] = IF inits[t] < InitCap THEN inits[t] + 1 ELSE inits[t]]
      BY <2>2 DEF TaskInits
    <3>3. inits' \in [Task -> Nat]
      BY <3>1, <3>2
    <3>4. failed' \subseteq Task /\ tcp' \subseteq Task
      BY <2>2 DEF TaskInits, TypeOK
    <3> QED
      BY <1>5, <2>1, <2>2, <3>3, <3>4 DEF TaskInits, Thread, TypeOK
  <2>3. CASE UNCHANGED histories
    BY <1>5, <2>1, <2>3 DEF histories, Thread, TypeOK
  <2> QED
    BY <1>5, <2>2, <2>3 DEF Thread, StateMachine, Returns
<1>6. ASSUME UNCHANGED vars PROVE TypeOK'
  BY <1>6 DEF vars, taskvars, histories, TypeOK, TaskTypeOK
<1> QED
  BY <1>1, <1>2, <1>3, <1>4, <1>5, <1>6 DEF Next, Main

--------------------------------------------------------------------------------
\* Counted and Known speak of one task at a time: main's calls.
LEMMA CallKnown ==
    ASSUME TypeOK, Counted, Known, NEW op, NEW t \in Task, Call(op, t)
    PROVE  Counted' /\ Known'
<1>0. /\ pc \in [Task -> Places] /\ m_is_done \in [Task -> BOOLEAN] /\ m_is_good \in [Task -> BOOLEAN]
      /\ clears \in [Task -> Nat] /\ inits \in [Task -> Nat]
  BY DEF TypeOK, TaskTypeOK
<1>1. CASE op[1] = "run"
  BY <1>0, <1>1 DEF Call, Run, Goto, histories, Counted, Known
<1>2. CASE op[1] = "clear_is_done"
  <2>1. /\ clears' = [clears EXCEPT ![t] = clears[t] + 1]
        /\ m_is_done' = [m_is_done EXCEPT ![t] = FALSE]
        /\ UNCHANGED <<pc, m_is_good, inits, failed, forgot, tcp>>
    BY <1>2 DEF Call, ClearIsDone
  <2>2. Known'
    BY <1>0, <2>1 DEF Known
  <2>3. Counted'
    BY <1>0, <2>1 DEF Counted
  <2> QED
    BY <2>2, <2>3
<1>3. CASE op[1] = "clear_is_good"
  <2>1. /\ forgot' = forgot \cup (failed \cap {t})
        /\ m_is_good' = [m_is_good EXCEPT ![t] = TRUE]
        /\ UNCHANGED <<pc, m_is_done, clears, inits, failed, tcp>>
    BY <1>3 DEF Call, ClearIsGood
  <2> QED
    BY <1>0, <2>1 DEF Known, Counted
<1>4. CASE op[1] \in {"set_state", "wait", "join"}
  BY <1>4 DEF Call, SetState, taskvars, histories, Counted, Known
<1> QED
  BY <1>1, <1>2, <1>3, <1>4 DEF Call

\* The same for a step of a thread.
LEMMA ThreadKnown ==
    ASSUME Shipped, TypeOK, Counted, Known, NEW t \in Task, Thread(t)
    PROVE  Counted' /\ Known'
<1>0. /\ pc \in [Task -> Places] /\ m_is_done \in [Task -> BOOLEAN] /\ m_is_good \in [Task -> BOOLEAN]
      /\ clears \in [Task -> Nat] /\ inits \in [Task -> Nat] /\ MaxResets \in Nat
  BY ProgramAssumption DEF TypeOK, TaskTypeOK, ProgramAssumption
<1>a. ~ Base
  BY DEF Shipped, Base
<1>1. CASE Switch(t) /\ UNCHANGED histories
  <2>1. Branch[c_state] \notin {"init", "done"}
    BY DEF Branch, TypeOK, TaskTypeOK, RunState
  <2> QED
    BY <1>0, <1>1, <2>1 DEF Switch, Goto, histories, Counted, Known
<1>2. CASE TestDone(t) /\ UNCHANGED histories
  BY <1>0, <1>2 DEF TestDone, Goto, histories, Counted, Known
<1>3. CASE (SetDone(t) \/ Check(t)) /\ UNCHANGED histories
  BY <1>0, <1>3 DEF SetDone, Check, Goto, histories, Counted, Known
<1>4. CASE TaskInits(t)
  <2>1. PICK good \in BOOLEAN :
          /\ pc[t] = "init" /\ pc' = [pc EXCEPT ![t] = "done"]
          /\ m_is_good' = [m_is_good EXCEPT ![t] = m_is_good[t] /\ good]
          /\ m_is_done' = [m_is_done EXCEPT ![t] = m_is_done[t]]
          /\ failed' = IF good THEN failed \ {t} ELSE failed \cup {t}
          /\ tcp' = IF good THEN tcp \cup {t} ELSE tcp
    <3>1. PICK good \in BOOLEAN :
            /\ StInit(t, good, Base)
            /\ failed' = IF good THEN failed \ {t} ELSE failed \cup {t}
            /\ tcp' = IF good THEN tcp \cup {t} ELSE tcp
      BY <1>4 DEF TaskInits
    <3>2. (m_is_done[t] \/ Base) = m_is_done[t]
      BY <1>0, <1>a
    <3>3. m_is_done' = [m_is_done EXCEPT ![t] = m_is_done[t]]
      BY <3>1, <3>2 DEF StInit
    <3> QED
      BY <3>1, <3>3 DEF StInit, Goto
  <2>2. /\ inits' = [inits EXCEPT ![t] = IF inits[t] < InitCap THEN inits[t] + 1 ELSE inits[t]]
        /\ UNCHANGED <<clears, forgot>>
    BY <1>4 DEF TaskInits
  <2>3. inits'[t] \in inits[t] .. inits[t] + 1 /\ inits'[t] >= 1
    BY <1>0, <2>2 DEF InitCap
  <2>4. \A u \in Task \ {t} : /\ inits'[u] = inits[u] /\ pc'[u] = pc[u]
                              /\ m_is_done'[u] = m_is_done[u] /\ m_is_good'[u] = m_is_good[u]
                               /\ (u \in failed' <=> u \in failed) /\ (u \in tcp' <=> u \in tcp)
    BY <1>0, <2>1, <2>2
  <2>5. pc'[t] = "done" /\ m_is_done'[t] = m_is_done[t]
    BY <1>0, <2>1
  <2>6. Counted'
    BY <1>0, <2>1, <2>2, <2>3, <2>4, <2>5 DEF Counted
  <2>7. /\ t \in tcp' \cup failed'
        /\ t \in failed' => ~ m_is_good'[t]
    BY <1>0, <2>1
  <2>8. Known'
    BY <2>2, <2>3, <2>4, <2>7 DEF Known
  <2> QED
    BY <2>6, <2>8
<1>5. CASE Returns(t)
  BY <1>0, <1>a, <1>5 DEF Returns, Return, Goto, Handlers, histories, Counted, Known
<1> QED
  BY <1>1, <1>2, <1>3, <1>4, <1>5 DEF Thread, StateMachine

LEMMA KnownStep ==
    ASSUME Shipped, TypeOK, Counted, Known, [Next]_vars
    PROVE  Counted' /\ Known'
<1>0. ip \in 1 .. Len(Script) + 1 /\ k \in 1 .. Len(TaskSeq) /\ TaskSeq[k] \in Task
  BY Lengths DEF TypeOK
<1>1. ASSUME MainCalls PROVE Counted' /\ Known'
  BY <1>0, <1>1, CallKnown DEF MainCalls
<1>2. ASSUME InitCalls PROVE Counted' /\ Known'
  <2>1. CASE Call(InitSequence[sub], TaskSeq[k])
    BY <1>0, <2>1, CallKnown
  <2>2. CASE Poll(TaskSeq[k])
    BY <2>2 DEF Poll, taskvars, histories, Counted, Known
  <2> QED
    BY <1>2, <2>1, <2>2 DEF InitCalls
<1>3. ASSUME UNCHANGED <<pc, m_is_done, m_is_good, histories>> PROVE Counted' /\ Known'
  BY <1>3 DEF histories, Counted, Known
<1>4. ASSUME MainTests \/ Command PROVE Counted' /\ Known'
  BY <1>3, <1>4 DEF MainTests, Command, SetCommand, QuitCommand, InitCommand, SetState, taskvars
<1>5. ASSUME UNCHANGED vars PROVE Counted' /\ Known'
  BY <1>3, <1>5 DEF vars, taskvars
<1> QED
  BY <1>1, <1>2, <1>4, <1>5, ThreadKnown DEF Next, Main

--------------------------------------------------------------------------------
\* Main stays in its command loop while init_sequence runs.
LEMMA InsideStep ==
    ASSUME Shipped, TypeOK, Inside, [Next]_vars
    PROVE  Inside'
<1>1. CASE MainCalls \/ MainTests
  BY <1>1 DEF MainCalls, MainTests, Inside
<1>2. CASE InitCalls
  BY <1>2 DEF InitCalls, Poll, Inside
<1>3. CASE Command
  <2>1. AtCommand => ip \in 1 .. Len(Script) /\ Script[ip][1] = "command" /\ sub = 0
    BY Lengths DEF AtCommand, MainDone, TypeOK
  <2>2. AtCommand => ip = 9
    BY <2>1, ScriptFacts
  <2> QED
    BY <1>3, <2>1, <2>2 DEF Command, SetCommand, QuitCommand, InitCommand, Inside
<1>4. CASE UNCHANGED <<ip, sub>>
  BY <1>4 DEF Inside
<1> QED
  BY <1>1, <1>2, <1>3, <1>4 DEF Next, Main, Thread, vars

\* st_init calls, connections and forgotten failures are only added.
LEMMA Monotone ==
    ASSUME Shipped, TypeOK, [Next]_vars
    PROVE  /\ tcp \subseteq tcp' /\ forgot \subseteq forgot'
           /\ \A t \in Task : inits[t] >= 1 => inits'[t] >= 1
<1>0. inits \in [Task -> Nat]
  BY DEF TypeOK
<1>1. CASE UNCHANGED <<tcp, inits>> /\ forgot \subseteq forgot'
  BY <1>1
<1>2. CASE \E t \in Task : TaskInits(t)
  <2>1. PICK t \in Task : TaskInits(t)
    BY <1>2
  <2>2. /\ inits' = [inits EXCEPT ![t] = IF inits[t] < InitCap THEN inits[t] + 1 ELSE inits[t]]
        /\ forgot' = forgot /\ tcp \subseteq tcp'
    BY <2>1 DEF TaskInits
  <2> QED
    BY <1>0, <2>2
<1>3. ASSUME NEW op, NEW t \in Task, Call(op, t)
      PROVE  UNCHANGED <<tcp, inits>> /\ forgot \subseteq forgot'
  BY <1>3 DEF Call, histories
<1>4. TaskSeq[k] \in Task
  BY Lengths DEF TypeOK
<1>5. CASE MainCalls \/ InitCalls
  BY <1>1, <1>3, <1>4, <1>5 DEF MainCalls, InitCalls, Poll, histories
<1>6. CASE MainTests \/ Command \/ UNCHANGED vars
  BY <1>1, <1>6 DEF MainTests, Command, SetCommand, QuitCommand, InitCommand, vars, histories
<1>7. CASE \E t \in Task : Thread(t)
  BY <1>1, <1>2, <1>7 DEF Thread, StateMachine, Returns, histories
<1> QED
  BY <1>5, <1>6, <1>7 DEF Next, Main

LEMMA WaitedStep ==
    ASSUME Shipped, TypeOK, Known, Inside, Waited, [Next]_vars
    PROVE  Waited'
<1>0. /\ ip \in 1 .. Len(Script) + 1 /\ k \in 1 .. Len(TaskSeq) /\ Len(Script) \in Nat
      /\ Len(TaskSeq) \in Nat \ {0} /\ \A j \in 1 .. Len(TaskSeq) : TaskSeq[j] \in Task
  BY Lengths DEF TypeOK
<1>1. \A j \in 1 .. Len(TaskSeq) : inits[TaskSeq[j]] >= 1 => inits'[TaskSeq[j]] >= 1
  BY <1>0, Monotone
<1>2. CASE UNCHANGED <<ip, k>>
  BY <1>1, <1>2 DEF Waited
<1>3. CASE ip > 5
  BY <1>0, <1>1, <1>3 DEF Waited
<1>4. CASE MainCalls /\ ip < 4
  BY <1>0, <1>4 DEF MainCalls, Waited
<1>5. CASE MainCalls /\ ip = 4
  <2>1. Script[4][2] # "each"
    BY <1>0, <1>5, ScriptFacts DEF MainCalls, MainDone
  <2>2. ip' = 5 /\ k' = 1
    BY <1>5, <2>1 DEF MainCalls, NextTask, Last
  <2> QED
    BY <2>2 DEF Waited
<1>6. CASE MainCalls /\ ip = 5
  <2>1. Script[5] = <<"wait", "each">>
    BY <1>0, <1>6, ScriptFacts DEF MainCalls, MainDone
  <2>2. m_is_done[TaskSeq[k]]
    BY <1>6, <2>1 DEF MainCalls, Call
  <2>3. inits[TaskSeq[k]] >= 1
    BY <1>0, <2>2 DEF Known
  <2>4. \A j \in 1 .. k : inits'[TaskSeq[j]] >= 1
    BY <1>0, <1>1, <1>6, <2>3 DEF Waited
  <2>5. (ip' = 6 /\ k = Len(TaskSeq)) \/ (ip' = 5 /\ k' = k + 1)
    BY <1>6, <2>1 DEF MainCalls, NextTask, Last
  <2> QED
    BY <1>0, <2>4, <2>5 DEF Waited
<1>7. CASE InitCalls
  BY <1>3, <1>7 DEF InitCalls, Inside
<1>8. CASE MainTests
  <2>1. ip = 6
    <3>1. ~ MainDone /\ Script[ip][1] = "good"
      BY <1>8 DEF MainTests
    <3>2. ip \in 1 .. Len(Script)
      BY <1>0, <3>1 DEF MainDone
    <3> QED
      BY <1>0, <3>1, <3>2, ScriptFacts
  <2> QED
    BY <2>1, <1>3
<1>9. CASE Command
  <2>1. AtCommand => ip = 9
    BY <1>0, ScriptFacts DEF AtCommand, MainDone
  <2> QED
    BY <1>3, <1>9, <2>1 DEF Command, SetCommand, QuitCommand, InitCommand
<1>10. CASE MainCalls
  BY <1>0, <1>3, <1>4, <1>5, <1>6, <1>10
<1> QED
  BY <1>2, <1>7, <1>8, <1>9, <1>10 DEF Next, Main, Thread, vars

\* Main passes `if (is_good_init)' only when every task has opened its connection
\* or has had its failure forgotten, and nothing else leads to SM_RUNNING.
LEMMA TestedStep ==
    ASSUME Shipped, TypeOK, Known, Waited, Inside, Tested, [Next]_vars
    PROVE  Tested'
<1>0. /\ ip \in 1 .. Len(Script) + 1 /\ k \in 1 .. Len(TaskSeq) /\ Len(Script) \in Nat
      /\ Len(TaskSeq) \in Nat \ {0} /\ \A j \in 1 .. Len(TaskSeq) : TaskSeq[j] \in Task
      /\ pc \in [Task -> Places] /\ c_state \in RunState
  BY Lengths DEF TypeOK, TaskTypeOK
<1>a. Opened => Opened'
  BY Monotone DEF Opened
<1>b. CASE Opened
  BY <1>a, <1>b DEF Tested
<1>c. CASE ~ Opened /\ UNCHANGED <<ip, c_state, pc>>
  BY <1>a, <1>c DEF Tested
<1>d. ASSUME ~ Opened
      PROVE  ip \notin 7 .. 9 /\ c_state # "SM_RUNNING" /\ \A t \in Task : pc[t] # "running"
  BY <1>d DEF Tested
<1>1. CASE ~ Opened /\ MainCalls
  <2>1. ip \in 1 .. Len(Script) /\ Call(Script[ip], TaskSeq[k]) /\ TaskSeq[k] \in Task
    BY <1>0, <1>1 DEF MainCalls, MainDone
  <2>2. ip # 6
    BY <2>1, ScriptFacts DEF Call
  <2>3. ip' \notin 7 .. 9
    BY <1>0, <1>1, <1>d, <2>2 DEF MainCalls
  <2>4. /\ \A t \in Task : pc'[t] # "running"
        /\ c_state' = c_state \/ (Script[ip][1] = "set_state" /\ c_state' = Script[ip][2])
    BY <1>0, <1>1, <1>d, <2>1
       DEF Call, Run, Goto, ClearIsDone, ClearIsGood, SetState, taskvars
  <2>5. c_state' # "SM_RUNNING"
    <3>1. SUFFICES ASSUME Script[ip][1] = "set_state", Script[ip][2] = "SM_RUNNING" PROVE FALSE
      BY <1>1, <1>d, <2>4
    <3>2. ip = 8
      BY <3>1, <2>1, ScriptFacts
    <3> QED
      BY <3>2, <1>1, <1>d
  <2> QED
    BY <2>3, <2>4, <2>5 DEF Tested
<1>2. CASE ~ Opened /\ MainTests
  <2>1. ip = 6
    <3>1. ip \in 1 .. Len(Script)
      BY <1>0, <1>2 DEF MainTests, MainDone
    <3>2. Script[ip][1] = "good"
      BY <1>2 DEF MainTests
    <3> QED
      BY <3>1, <3>2, ScriptFacts
  <2>2. CASE AllGood
    <3>1. \A t \in Task : inits[t] >= 1
      BY <2>1, ProgramAssumption DEF Waited, ProgramAssumption
    <3>2. Opened
      BY <2>2, <3>1 DEF Known, AllGood, Opened
    <3> QED
      BY <1>2, <3>2
  <2>3. CASE ~ AllGood
    <3>1. ip' \notin 7 .. 9
      BY <1>2, <2>3, Lengths DEF MainTests
    <3> QED
      BY <1>2, <1>d, <3>1 DEF MainTests, taskvars, Tested
  <2> QED
    BY <2>2, <2>3
<1>3. CASE ~ Opened /\ InitCalls
  BY <1>3, <1>d DEF InitCalls, Inside
<1>4. CASE ~ Opened /\ Command
  <2>1. AtCommand => ip = 9
    BY <1>0, ScriptFacts DEF AtCommand, MainDone
  <2> QED
    BY <1>4, <1>d, <2>1 DEF Command, SetCommand, QuitCommand, InitCommand
<1>5. ASSUME ~ Opened, NEW t \in Task, Thread(t) PROVE Tested'
  <2>1. c_state' = c_state /\ ip' = ip
    BY <1>5 DEF Thread, StateMachine, TaskInits, Returns, Switch, TestDone, SetDone, Check, StInit, Return
  <2>2. Branch[c_state] # "running"
    BY <1>0, <1>5, <1>d DEF Branch, RunState
  <2>3. \E place \in Places \ {"running"} : pc' = [pc EXCEPT ![t] = place]
    <3>1. CASE Switch(t)
      <4>1. Branch[c_state] \in Places
        BY <1>0 DEF Branch, RunState, Places, Handlers
      <4> QED
        BY <2>2, <3>1, <4>1 DEF Switch, Goto
    <3>2. CASE TestDone(t) \/ SetDone(t) \/ Check(t)
      BY <3>2 DEF TestDone, SetDone, Check, Goto, Places, Handlers
    <3>3. CASE TaskInits(t) \/ Returns(t)
      BY <3>3 DEF TaskInits, StInit, Returns, Return, Goto, Places, Handlers
    <3> QED
      BY <1>5, <3>1, <3>2, <3>3 DEF Thread, StateMachine
  <2>4. \A u \in Task : pc'[u] # "running"
    BY <1>0, <1>5, <1>d, <2>3
  <2> QED
    BY <1>5, <1>d, <2>1, <2>4 DEF Tested
<1> QED
  BY <1>b, <1>c, <1>1, <1>2, <1>3, <1>4, <1>5 DEF Next, Main, vars, taskvars

--------------------------------------------------------------------------------
LEMMA Invariance == ASSUME Shipped PROVE Spec => []IInv
<1>1. Init => IInv
  BY InitInv
<1>2. IInv /\ [Next]_vars => IInv'
  BY TypeStep, KnownStep, InsideStep, WaitedStep, TestedStep DEF IInv
<1> QED
  BY <1>1, <1>2, PTL DEF Spec

\* The types; main's place and its loop variable stay inside the script and the
\* vector of tasks (leb.cxx:240-290, dtmain.cxx:77-117).
THEOREM MainTyping == ASSUME Shipped PROVE Spec => []TypeOK
<1>1. IInv => TypeOK
  BY DEF IInv
<1> QED
  BY <1>1, Invariance, PTL

\* However many tasks there are, each is initialised at most once more than main
\* cleared its m_is_done (leb.cxx:261-263).
THEOREM FewInits == ASSUME Shipped PROVE Spec => []InitsBounded
<1>1. IInv => InitsBounded
  BY DEF IInv, Counted, InitsBounded
<1> QED
  BY <1>1, Invariance, PTL

\* A task runs without ever having had a connection only if main forgot that its
\* st_init failed (leb.cxx:264-271).
THEOREM NoBlindTask == ASSUME Shipped PROVE Spec => []NoBlindRun
<1>1. IInv => NoBlindRun
  BY ProgramAssumption DEF IInv, Tested, Opened, NoBlindRun, ProgramAssumption
<1> QED
  BY <1>1, Invariance, PTL
================================================================================
