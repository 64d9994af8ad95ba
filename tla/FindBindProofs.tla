--------------------------- MODULE FindBindProofs ---------------------------
(***************************************************************************)
(* Proofs about FindBind: commissioning is never left busy, finding &      *)
(* binding is never left without something to take it on, one address is   *)
(* asked for at a time, and the types.                                     *)
(***************************************************************************)
EXTENDS FindBind, TLAPS

\* What the arguments need of the types.
Shape ==
  /\ bdb \in Bdb
  /\ tasks \in Seq(Task)
  /\ air = [queries |-> air.queries, simple |-> air.simple, ieee |-> air.ieee]

\* A task that is appended is scheduled, and so is every earlier one.
LEMMA Appended ==
  ASSUME NEW s \in Seq(Task), NEW t \in Task
  PROVE  /\ Append(s, t) \in Seq(Task)
         /\ \E i \in DOMAIN Append(s, t) : Append(s, t)[i] = t
         /\ \A u : (\E i \in DOMAIN s : s[i] = u)
                     => \E i \in DOMAIN Append(s, t) : Append(s, t)[i] = u
<1>1. Append(s, t) \in Seq(Task) /\ DOMAIN Append(s, t) = 1..(Len(s) + 1)
  OBVIOUS
<1>2. Append(s, t)[Len(s) + 1] = t
  OBVIOUS
<1>3. \A i \in DOMAIN s : i \in DOMAIN Append(s, t) /\ Append(s, t)[i] = s[i]
  OBVIOUS
<1> QED BY <1>1, <1>2, <1>3

\* When the first task is done, every other one is still scheduled.
LEMMA Remaining ==
  ASSUME NEW s \in Seq(Task), s # <<>>
  PROVE  /\ Tail(s) \in Seq(Task)
         /\ \A u : u # Head(s) /\ (\E i \in DOMAIN s : s[i] = u)
                     => \E i \in DOMAIN Tail(s) : Tail(s)[i] = u
<1>1. Tail(s) \in Seq(Task)
  OBVIOUS
<1>2. ASSUME NEW u, u # Head(s), NEW i \in DOMAIN s, s[i] = u
      PROVE  \E j \in DOMAIN Tail(s) : Tail(s)[j] = u
  <2>1. i # 1
    BY <1>2
  <2>2. i - 1 \in DOMAIN Tail(s) /\ Tail(s)[i - 1] = s[i]
    BY <2>1
  <2> QED BY <2>2, <1>2
<1> QED BY <1>1, <1>2

\* The initial state has the shape.
LEMMA ShapeInit == Init => Shape
BY DEF Init, Shape, Bdb, IDLE, STEER, FINDORBIND

\* Every step keeps the shape.
LEMMA ShapeStep == Shape /\ [Next]_vars => Shape'
<1> SUFFICES ASSUME Shape, [Next]_vars PROVE Shape'
  OBVIOUS
<1> USE DEF Shape
<1>t. {"START", "REJOIN_DONE", "STEER_FINISH", "SIMPLE_DESC_REQ", "FINISH", "SEND"}
        \subseteq Task
  BY DEF Task
<1>a. \A t \in Task : Append(tasks, t) \in Seq(Task)
  BY Appended
<1>1. ASSUME NEW n \in Presses, buttonPressed(n) PROVE Shape'
  BY <1>1 DEF buttonPressed
<1>2. CASE find_and_bind_clear_flag
  BY <1>2 DEF find_and_bind_clear_flag
<1>3. CASE app_bdbFindAndBindStart
  <2> DEFINE moded == [bdb EXCEPT !.steer = FALSE, !.find = TRUE]
  <2>1. moded \in Bdb /\ [moded EXCEPT !.role = "initiator", !.busy = TRUE] \in Bdb
    BY DEF Bdb
  <2>2. bdb' \in Bdb /\ (tasks' = tasks \/ tasks' = Append(tasks, "START"))
    BY <1>3, <2>1 DEF app_bdbFindAndBindStart, Started
  <2>3. air' = air
    BY <1>3 DEF app_bdbFindAndBindStart
  <2> QED BY <2>2, <2>3, <1>t, <1>a
<1>4. CASE app_bdbNetworkSteerStart
  <2> DEFINE moded == [bdb EXCEPT !.steer = TRUE, !.find = FALSE]
  <2>1. moded \in Bdb /\ [moded EXCEPT !.role = "target", !.busy = TRUE] \in Bdb
    BY DEF Bdb
  <2>2. bdb' \in Bdb /\ (tasks' = tasks \/ tasks' = Append(tasks, "START"))
    BY <1>4, <2>1 DEF app_bdbNetworkSteerStart, Started
  <2>3. air' = air
    BY <1>4 DEF app_bdbNetworkSteerStart
  <2> QED BY <2>2, <2>3, <1>t, <1>a
<1>5. CASE Rejoined
  BY <1>5, <1>t, <1>a DEF Rejoined
<1>6. CASE RunTask
  <2>0. tasks # <<>> /\ Tail(tasks) \in Seq(Task)
    BY <1>6, Remaining DEF RunTask, Due
  <2>a. \A t \in Task : Append(Tail(tasks), t) \in Seq(Task)
    BY <2>0, Appended
  <2>1. CASE bdb_task_start
    BY <2>1, <2>0 DEF bdb_task_start, FindBindStarted, Confirmed, Bdb, IDLE, STEER, FINDORBIND
  <2>2. CASE bdb_task_rejoinDone
    BY <2>2, <2>0 DEF bdb_task_rejoinDone, Bdb
  <2>3. CASE bdb_task_steerFinish
    BY <2>3, <2>0 DEF bdb_task_steerFinish, FindBindStarted, Confirmed, Bdb, IDLE, STEER, FINDORBIND
  <2>4. CASE bdb_task_simpleDescReq
    BY <2>4, <2>0 DEF bdb_task_simpleDescReq
  <2>5. CASE bdb_task_finish
    BY <2>5, <2>0 DEF bdb_task_finish, Confirmed, Bdb, IDLE, STEER, FINDORBIND
  <2>6. CASE bdb_simpleDescReqSend
    BY <2>6, <2>a, <1>t DEF bdb_simpleDescReqSend
  <2> QED BY <1>6, <2>1, <2>2, <2>3, <2>4, <2>5, <2>6 DEF RunTask
<1>7. ASSUME NEW ok \in BOOLEAN, SteerDone(ok) PROVE Shape'
  BY <1>7, <1>t, <1>a DEF SteerDone, Bdb
<1>7a. CASE KeyExchanged
  BY <1>7a DEF KeyExchanged
<1>8. CASE Timeout
  BY <1>8, <1>t, <1>a DEF Timeout, bdb_findBindIdentifyQueryTimeout,
     bdb_simpleDescReqTimeoutCb, bdb_findBindIdentifyTimeout
<1>9. ASSUME NEW q \in air.queries, app_zclIdentifyQueryRspCmdHandler(q) PROVE Shape'
  BY <1>9 DEF app_zclIdentifyQueryRspCmdHandler, Arrived
<1>10. ASSUME NEW r \in air.simple,
              bdb_SimpleDescResp_error(r) \/ bdb_SimpleDescResp_ignored(r)
                \/ bdb_SimpleDescResp_nothing(r)
       PROVE  Shape'
  BY <1>10, <1>t, <1>a DEF bdb_SimpleDescResp_error, bdb_SimpleDescResp_ignored,
     bdb_SimpleDescResp_nothing, Arrived
<1>11. ASSUME NEW r \in air.simple, NEW known \in BOOLEAN, NEW full \in BOOLEAN,
              bdb_SimpleDescResp(r, known, full)
       PROVE  Shape'
  BY <1>11, <1>t, <1>a DEF bdb_SimpleDescResp, bdb_binding, Bind, Arrived
<1>12. ASSUME NEW d \in air.ieee, NEW full \in BOOLEAN, bdb_ieeeAddrResp(d, full)
       PROVE  Shape'
  BY <1>12, <1>t, <1>a DEF bdb_ieeeAddrResp, bdb_binding, Bind, Arrived
<1>13. CASE UNCHANGED vars
  BY <1>13 DEF vars
<1> QED BY <1>1, <1>2, <1>3, <1>4, <1>5, <1>6, <1>7, <1>7a, <1>8, <1>9, <1>10, <1>11, <1>12,
        <1>13 DEF Next

-----------------------------------------------------------------------------
\* What a step does to the tasks that are scheduled.
LEMMA AppendSchedules ==
  ASSUME NEW t \in Task
  PROVE  Shape /\ tasks' = Append(tasks, t)
           => Scheduled(t)' /\ \A u : Scheduled(u) => Scheduled(u)'
<1> SUFFICES ASSUME Shape, tasks' = Append(tasks, t)
             PROVE  Scheduled(t)' /\ \A u : Scheduled(u) => Scheduled(u)'
  OBVIOUS
<1>1. tasks \in Seq(Task)
  BY DEF Shape
<1>2. Scheduled(t)'
  BY <1>1, Appended DEF Scheduled
<1>3. ASSUME NEW u, Scheduled(u) PROVE Scheduled(u)'
  BY <1>1, <1>3, Appended DEF Scheduled
<1> QED BY <1>2, <1>3

\* A task that is run leaves every other one scheduled.
LEMMA TailSchedules ==
  Shape /\ tasks # <<>> /\ tasks' = Tail(tasks)
    => \A u : u # Head(tasks) /\ Scheduled(u) => Scheduled(u)'
<1> SUFFICES ASSUME Shape, tasks # <<>>, tasks' = Tail(tasks),
                    NEW u, u # Head(tasks), Scheduled(u)
             PROVE  Scheduled(u)'
  OBVIOUS
<1>1. tasks \in Seq(Task)
  BY DEF Shape
<1> QED BY <1>1, Remaining DEF Scheduled

\* A task that is run and schedules another one.
LEMMA TailAppendSchedules ==
  ASSUME NEW t \in Task
  PROVE  Shape /\ tasks # <<>> /\ tasks' = Append(Tail(tasks), t)
           => /\ Scheduled(t)'
              /\ \A u : u # Head(tasks) /\ Scheduled(u) => Scheduled(u)'
<1> SUFFICES ASSUME Shape, tasks # <<>>, tasks' = Append(Tail(tasks), t)
             PROVE  /\ Scheduled(t)'
                    /\ \A u : u # Head(tasks) /\ Scheduled(u) => Scheduled(u)'
  OBVIOUS
<1>1. Tail(tasks) \in Seq(Task)
  BY Remaining DEF Shape
<1>2. Scheduled(t)'
  BY <1>1, Appended DEF Scheduled
<1>3. ASSUME NEW u, u # Head(tasks), Scheduled(u) PROVE Scheduled(u)'
  <2>1. \E i \in DOMAIN Tail(tasks) : Tail(tasks)[i] = u
    BY <1>3, Remaining DEF Shape, Scheduled
  <2> QED BY <2>1, <1>1, Appended DEF Scheduled
<1> QED BY <1>2, <1>3

\* A step other than running a task leaves every task scheduled.
LEMMA OthersKeep ==
  Shape /\ [Next]_vars /\ ~RunTask => \A u : Scheduled(u) => Scheduled(u)'
<1> SUFFICES ASSUME Shape, [Next]_vars, ~RunTask
             PROVE  \A u : Scheduled(u) => Scheduled(u)'
  OBVIOUS
<1>1. tasks' = tasks \/ \E t \in Task : tasks' = Append(tasks, t)
  <2>t. {"START", "REJOIN_DONE", "STEER_FINISH", "SIMPLE_DESC_REQ", "FINISH", "SEND"}
          \subseteq Task
    BY DEF Task
  <2>1. ASSUME NEW n \in Presses, buttonPressed(n) PROVE tasks' = tasks
    BY <2>1 DEF buttonPressed
  <2>2. CASE find_and_bind_clear_flag \/ (\E q \in air.queries : app_zclIdentifyQueryRspCmdHandler(q))
               \/ (\E r \in air.simple : bdb_SimpleDescResp_ignored(r)) \/ KeyExchanged
               \/ UNCHANGED vars
    BY <2>2 DEF find_and_bind_clear_flag, app_zclIdentifyQueryRspCmdHandler,
       bdb_SimpleDescResp_ignored, KeyExchanged, vars
  <2>3. CASE app_bdbFindAndBindStart \/ app_bdbNetworkSteerStart \/ Rejoined
    BY <2>3, <2>t DEF app_bdbFindAndBindStart, app_bdbNetworkSteerStart, Started, Rejoined
  <2>4. CASE Timeout \/ (\E ok \in BOOLEAN : SteerDone(ok))
    BY <2>4, <2>t DEF Timeout, SteerDone, bdb_findBindIdentifyQueryTimeout,
       bdb_simpleDescReqTimeoutCb, bdb_findBindIdentifyTimeout
  <2>5. CASE \E r \in air.simple : bdb_SimpleDescResp_error(r) \/ bdb_SimpleDescResp_nothing(r)
    BY <2>5, <2>t DEF bdb_SimpleDescResp_error, bdb_SimpleDescResp_nothing
  <2>6. CASE \E r \in air.simple, known, full \in BOOLEAN : bdb_SimpleDescResp(r, known, full)
    BY <2>6, <2>t DEF bdb_SimpleDescResp, bdb_binding
  <2>7. CASE \E d \in air.ieee, full \in BOOLEAN : bdb_ieeeAddrResp(d, full)
    BY <2>7, <2>t DEF bdb_ieeeAddrResp, bdb_binding
  <2> QED BY <2>1, <2>2, <2>3, <2>4, <2>5, <2>6, <2>7 DEF Next
<1> QED BY <1>1, AppendSchedules DEF Scheduled

-----------------------------------------------------------------------------
\* A commissioning that ends gives its status back; a step that sets the status
\* also schedules START.
LEMMA BusyStep == Shape /\ BusyReleased /\ [Next]_vars => BusyReleased'
<1> SUFFICES ASSUME Shape, BusyReleased, [Next]_vars PROVE BusyReleased'
  OBVIOUS
<1> USE DEF IDLE, STEER, FINDORBIND
<1>s. "START" \in Task
  BY DEF Task
<1>1. CASE RunTask
  <2>0. tasks # <<>>
    BY <1>1 DEF RunTask, Due
  <2>1. CASE Due("START") /\ bdb_task_start
    BY <2>1 DEF bdb_task_start, BusyReleased, Confirmed, Shape, Bdb
  <2>2. CASE Due("REJOIN_DONE") /\ bdb_task_rejoinDone
    <3>1. Scheduled("START") => Scheduled("START")'
      BY <2>2, <2>0, TailSchedules DEF bdb_task_rejoinDone, Due
    <3> QED BY <2>2, <3>1 DEF bdb_task_rejoinDone, BusyReleased, Shape, Bdb
  <2>3. CASE Due("STEER_FINISH") /\ bdb_task_steerFinish
    <3>1. Scheduled("START") => Scheduled("START")'
      BY <2>3, <2>0, TailSchedules DEF bdb_task_steerFinish, Due
    <3> QED BY <2>3, <3>1 DEF bdb_task_steerFinish, Confirmed, BusyReleased, Shape, Bdb
  <2>4. CASE Due("SIMPLE_DESC_REQ") /\ bdb_task_simpleDescReq
    <3>1. Scheduled("START") => Scheduled("START")'
      BY <2>4, <2>0, TailSchedules DEF bdb_task_simpleDescReq, Due
    <3> QED BY <2>4, <3>1 DEF bdb_task_simpleDescReq, BusyReleased
  <2>5. CASE Due("FINISH") /\ bdb_task_finish
    <3>1. Scheduled("START") => Scheduled("START")'
      BY <2>5, <2>0, TailSchedules DEF bdb_task_finish, Due
    <3> QED BY <2>5, <3>1 DEF bdb_task_finish, Confirmed, BusyReleased, Shape, Bdb
  <2>6. CASE Due("SEND") /\ bdb_simpleDescReqSend
    <3>1. {"SIMPLE_DESC_REQ", "FINISH"} \subseteq Task
      BY DEF Task
    <3>2. Scheduled("START") => Scheduled("START")'
      BY <2>6, <2>0, <3>1, TailAppendSchedules DEF bdb_simpleDescReqSend, Due
    <3> QED BY <2>6, <3>2 DEF bdb_simpleDescReqSend, BusyReleased
  <2> QED BY <1>1, <2>1, <2>2, <2>3, <2>4, <2>5, <2>6 DEF RunTask
<1>2. CASE ~RunTask
  <2>0. Scheduled("START") => Scheduled("START")'
    BY <1>2, OthersKeep
  <2>1. CASE app_bdbFindAndBindStart
    <3> DEFINE moded == [bdb EXCEPT !.steer = FALSE, !.find = TRUE]
    <3>1. bdb' = moded \/ tasks' = Append(tasks, "START")
      BY <2>1 DEF app_bdbFindAndBindStart, Started
    <3>2. moded.busy = bdb.busy /\ moded.state = bdb.state
      BY DEF Shape, Bdb
    <3> QED BY <3>1, <3>2, <2>0, <1>s, AppendSchedules DEF BusyReleased
  <2>2. CASE app_bdbNetworkSteerStart
    <3> DEFINE moded == [bdb EXCEPT !.steer = TRUE, !.find = FALSE]
    <3>1. bdb' = moded \/ tasks' = Append(tasks, "START")
      BY <2>2 DEF app_bdbNetworkSteerStart, Started
    <3>2. moded.busy = bdb.busy /\ moded.state = bdb.state
      BY DEF Shape, Bdb
    <3> QED BY <3>1, <3>2, <2>0, <1>s, AppendSchedules DEF BusyReleased
  <2>3. ASSUME NEW ok \in BOOLEAN, SteerDone(ok) PROVE BusyReleased'
    BY <2>3, <2>0 DEF SteerDone, BusyReleased, Shape, Bdb
  <2>4. CASE bdb' = bdb
    BY <2>4, <2>0 DEF BusyReleased
  <2>5. ASSUME NEW n \in Presses, buttonPressed(n) PROVE bdb' = bdb
    BY <2>5 DEF buttonPressed
  <2>6. CASE find_and_bind_clear_flag \/ Rejoined \/ KeyExchanged \/ UNCHANGED vars \/ Timeout
    BY <2>6, <2>4 DEF find_and_bind_clear_flag, Rejoined, KeyExchanged, vars, Timeout,
       bdb_findBindIdentifyQueryTimeout, bdb_simpleDescReqTimeoutCb,
       bdb_findBindIdentifyTimeout
  <2>7. ASSUME NEW q \in air.queries, app_zclIdentifyQueryRspCmdHandler(q) PROVE bdb' = bdb
    BY <2>7 DEF app_zclIdentifyQueryRspCmdHandler
  <2>8. ASSUME NEW r \in air.simple,
               bdb_SimpleDescResp_error(r) \/ bdb_SimpleDescResp_ignored(r)
                 \/ bdb_SimpleDescResp_nothing(r)
        PROVE  bdb' = bdb
    BY <2>8 DEF bdb_SimpleDescResp_error, bdb_SimpleDescResp_ignored,
       bdb_SimpleDescResp_nothing
  <2>9. ASSUME NEW r \in air.simple, NEW known \in BOOLEAN, NEW full \in BOOLEAN,
               bdb_SimpleDescResp(r, known, full)
        PROVE  bdb' = bdb
    BY <2>9 DEF bdb_SimpleDescResp
  <2>10. ASSUME NEW d \in air.ieee, NEW full \in BOOLEAN, bdb_ieeeAddrResp(d, full)
         PROVE  bdb' = bdb
    BY <2>10 DEF bdb_ieeeAddrResp
  <2> QED BY <1>2, <2>1, <2>2, <2>3, <2>4, <2>5, <2>6, <2>7, <2>8, <2>9, <2>10 DEF Next
<1> QED BY <1>1, <1>2

\* While an address is awaited, a descriptor changes nothing; otherwise it asks for
\* one address.
LEMMA AddressStep == Shape /\ OneAddressAwaited /\ [Next]_vars => OneAddressAwaited'
<1> SUFFICES ASSUME Shape, OneAddressAwaited, [Next]_vars PROVE OneAddressAwaited'
  OBVIOUS
<1> USE DEF OneAddressAwaited
<1>0. CASE match' = match /\ air'.ieee = air.ieee
  BY <1>0
<1>1. ASSUME NEW n \in Presses, buttonPressed(n) PROVE OneAddressAwaited'
  BY <1>1 DEF buttonPressed
<1>2. CASE find_and_bind_clear_flag \/ Rejoined \/ KeyExchanged \/ UNCHANGED vars
  <2>1. match' = match /\ air' = air
    BY <1>2 DEF find_and_bind_clear_flag, Rejoined, KeyExchanged, vars
  <2> QED BY <2>1
<1>2a. CASE app_bdbFindAndBindStart
  BY <1>2a DEF app_bdbFindAndBindStart
<1>2b. CASE app_bdbNetworkSteerStart
  BY <1>2b DEF app_bdbNetworkSteerStart
<1>3. ASSUME NEW ok \in BOOLEAN, SteerDone(ok) PROVE OneAddressAwaited'
  BY <1>3 DEF SteerDone
<1>4. CASE Timeout
  BY <1>4 DEF Timeout, bdb_findBindIdentifyQueryTimeout,
     bdb_simpleDescReqTimeoutCb, bdb_findBindIdentifyTimeout
<1>5. CASE RunTask
  <2>1. match' = match
    BY <1>5 DEF RunTask
  <2>2. air'.ieee = air.ieee
    BY <1>5 DEF RunTask, bdb_task_start, bdb_task_rejoinDone, bdb_task_steerFinish,
       bdb_task_simpleDescReq, bdb_task_finish, bdb_simpleDescReqSend, FindBindStarted, Shape
  <2> QED BY <2>1, <2>2, <1>0
<1>6. ASSUME NEW q \in air.queries, app_zclIdentifyQueryRspCmdHandler(q)
      PROVE  OneAddressAwaited'
  BY <1>6, <1>0 DEF app_zclIdentifyQueryRspCmdHandler, Arrived, Shape
<1>7. ASSUME NEW r \in air.simple,
             bdb_SimpleDescResp_error(r) \/ bdb_SimpleDescResp_ignored(r)
               \/ bdb_SimpleDescResp_nothing(r)
      PROVE  OneAddressAwaited'
  <2>1. match' = match
    BY <1>7 DEF bdb_SimpleDescResp_error, bdb_SimpleDescResp_ignored,
       bdb_SimpleDescResp_nothing
  <2>2. Arrived("simple", r)
    BY <1>7 DEF bdb_SimpleDescResp_error, bdb_SimpleDescResp_ignored,
       bdb_SimpleDescResp_nothing
  <2>3. air'.ieee = air.ieee
    BY <2>2 DEF Arrived, Shape
  <2> QED BY <2>1, <2>3, <1>0
<1>8. ASSUME NEW r \in air.simple, NEW known \in BOOLEAN, NEW full \in BOOLEAN,
             bdb_SimpleDescResp(r, known, full)
      PROVE  OneAddressAwaited'
  <2>1. ~match /\ air.ieee = {}
    BY <1>8 DEF bdb_SimpleDescResp
  <2>2. \/ match' = FALSE /\ air'.ieee = {}
        \/ match' = TRUE /\ air'.ieee = {r.addr}
    BY <1>8, <2>1 DEF bdb_SimpleDescResp, bdb_binding, Bind, Arrived, Shape
  <2> QED BY <2>2
<1>9. ASSUME NEW d \in air.ieee, NEW full \in BOOLEAN, bdb_ieeeAddrResp(d, full)
      PROVE  OneAddressAwaited'
  <2>1. match' = FALSE /\ air'.ieee = {}
    BY <1>9 DEF bdb_ieeeAddrResp, bdb_binding, Bind, Arrived, Shape
  <2> QED BY <2>1
<1> QED BY <1>1, <1>2, <1>2a, <1>2b, <1>3, <1>4, <1>5, <1>6, <1>7, <1>8, <1>9 DEF Next

\* Finding & binding is left only for state IDLE; every step in it leaves a timer,
\* an address that is awaited, or one of the two tasks that take it on.
LEMMA StrandedStep == Shape /\ Shape' /\ NeverStranded /\ [Next]_vars => NeverStranded'
<1> SUFFICES ASSUME Shape, NeverStranded, [Next]_vars, bdb'.state = FINDORBIND
             PROVE  \/ timer' # "none"
                    \/ match'
                    \/ Scheduled("SEND")'
                    \/ Scheduled("FINISH")'
  BY DEF NeverStranded
<1> USE DEF IDLE, STEER, FINDORBIND
<1> DEFINE Goal == timer' # "none" \/ match' \/ Scheduled("SEND")' \/ Scheduled("FINISH")'
<1>s. {"SEND", "FINISH", "SIMPLE_DESC_REQ"} \subseteq Task
  BY DEF Task
<1>1. CASE RunTask
  <2>0. tasks # <<>> /\ match' = match
    BY <1>1 DEF RunTask, Due
  <2>1. CASE Due("START") /\ bdb_task_start
    <3>1. \A u \in {"SEND", "FINISH"} : Scheduled(u) => Scheduled(u)'
      BY <2>1, <2>0, TailSchedules DEF bdb_task_start, Due
    <3> QED BY <2>1, <2>0, <3>1
            DEF bdb_task_start, FindBindStarted, Confirmed, NeverStranded, Shape, Bdb
  <2>2. CASE Due("REJOIN_DONE") /\ bdb_task_rejoinDone
    <3>1. \A u \in {"SEND", "FINISH"} : Scheduled(u) => Scheduled(u)'
      BY <2>2, <2>0, TailSchedules DEF bdb_task_rejoinDone, Due
    <3> QED BY <2>2, <2>0, <3>1 DEF bdb_task_rejoinDone, NeverStranded, Shape, Bdb
  <2>3. CASE Due("STEER_FINISH") /\ bdb_task_steerFinish
    <3>1. \A u \in {"SEND", "FINISH"} : Scheduled(u) => Scheduled(u)'
      BY <2>3, <2>0, TailSchedules DEF bdb_task_steerFinish, Due
    <3> QED BY <2>3, <2>0, <3>1
            DEF bdb_task_steerFinish, FindBindStarted, Confirmed, NeverStranded, Shape, Bdb
  <2>4. CASE Due("SIMPLE_DESC_REQ") /\ bdb_task_simpleDescReq
    <3>1. \A u \in {"SEND", "FINISH"} : Scheduled(u) => Scheduled(u)'
      BY <2>4, <2>0, TailSchedules DEF bdb_task_simpleDescReq, Due
    <3> QED BY <2>4, <2>0, <3>1 DEF bdb_task_simpleDescReq, NeverStranded
  <2>5. CASE Due("FINISH") /\ bdb_task_finish
    BY <2>5 DEF bdb_task_finish, Confirmed, Shape, Bdb
  <2>6. CASE Due("SEND") /\ bdb_simpleDescReqSend
    BY <2>6, <2>0, <1>s, TailAppendSchedules DEF bdb_simpleDescReqSend
  <2> QED BY <1>1, <2>1, <2>2, <2>3, <2>4, <2>5, <2>6 DEF RunTask
<1>2. CASE ~RunTask
  <2>0. \A u : Scheduled(u) => Scheduled(u)'
    BY <1>2, OthersKeep
  <2>k. CASE timer' = timer /\ match' = match /\ bdb'.state = bdb.state
    BY <2>k, <2>0 DEF NeverStranded
  <2>1. ASSUME NEW n \in Presses, buttonPressed(n) PROVE Goal
    BY <2>1, <2>k DEF buttonPressed
  <2>2. CASE find_and_bind_clear_flag \/ Rejoined \/ KeyExchanged \/ UNCHANGED vars
    BY <2>2, <2>k DEF find_and_bind_clear_flag, Rejoined, KeyExchanged, vars
  <2>3. CASE app_bdbFindAndBindStart
    <3> DEFINE moded == [bdb EXCEPT !.steer = FALSE, !.find = TRUE]
    <3>1. bdb' = moded \/ bdb' = [moded EXCEPT !.role = "initiator", !.busy = TRUE]
      BY <2>3 DEF app_bdbFindAndBindStart, Started
    <3>2. bdb'.state = bdb.state
      BY <3>1 DEF Shape, Bdb
    <3> QED BY <2>3, <3>2, <2>k DEF app_bdbFindAndBindStart
  <2>4. CASE app_bdbNetworkSteerStart
    <3> DEFINE moded == [bdb EXCEPT !.steer = TRUE, !.find = FALSE]
    <3>1. bdb' = moded \/ bdb' = [moded EXCEPT !.role = "target", !.busy = TRUE]
      BY <2>4 DEF app_bdbNetworkSteerStart, Started
    <3>2. bdb'.state = bdb.state
      BY <3>1 DEF Shape, Bdb
    <3> QED BY <2>4, <3>2, <2>k DEF app_bdbNetworkSteerStart
  <2>5. ASSUME NEW ok \in BOOLEAN, SteerDone(ok) PROVE Goal
    BY <2>5, <2>k DEF SteerDone, Shape, Bdb
  <2>6. CASE Timeout
    BY <2>6, <1>s, AppendSchedules DEF Timeout, bdb_findBindIdentifyQueryTimeout,
       bdb_simpleDescReqTimeoutCb, bdb_findBindIdentifyTimeout
  <2>7. ASSUME NEW q \in air.queries, app_zclIdentifyQueryRspCmdHandler(q) PROVE Goal
    BY <2>7, <2>k DEF app_zclIdentifyQueryRspCmdHandler
  <2>8. ASSUME NEW r \in air.simple, bdb_SimpleDescResp_ignored(r) PROVE Goal
    BY <2>8 DEF bdb_SimpleDescResp_ignored
  <2>9. ASSUME NEW r \in air.simple,
               bdb_SimpleDescResp_error(r) \/ bdb_SimpleDescResp_nothing(r)
        PROVE  Goal
    BY <2>9, <1>s, AppendSchedules DEF bdb_SimpleDescResp_error, bdb_SimpleDescResp_nothing
  <2>10. ASSUME NEW r \in air.simple, NEW known \in BOOLEAN, NEW full \in BOOLEAN,
                bdb_SimpleDescResp(r, known, full)
         PROVE  Goal
    BY <2>10, <1>s, AppendSchedules DEF bdb_SimpleDescResp, bdb_binding
  <2>11. ASSUME NEW d \in air.ieee, NEW full \in BOOLEAN, bdb_ieeeAddrResp(d, full)
         PROVE  Goal
    BY <2>11, <1>s, AppendSchedules DEF bdb_ieeeAddrResp, bdb_binding
  <2> QED BY <1>2, <2>1, <2>2, <2>3, <2>4, <2>5, <2>6, <2>7, <2>8, <2>9, <2>10, <2>11
          DEF Next
<1> QED BY <1>1, <1>2

-----------------------------------------------------------------------------
(***************************************************************************)
(* The types.                                                              *)
(***************************************************************************)

\* What is typed besides the shape.
Rest ==
  /\ network \in BOOLEAN
  /\ queue \in Seq([addr : Devices, ep : Endpoints])
  /\ Len(queue) < QueueSize
  /\ findDst \in Dst
  /\ bindDst \in Dst
  /\ match \in BOOLEAN
  /\ timer \in {"none", "query", "simple", "target"}
  /\ app \in App
  /\ air \in Air
  /\ bound \in Binding

\* The shape and the rest are the types.
LEMMA Typed == TypeOK <=> Shape /\ Rest
<1>1. air \in Air => air = [queries |-> air.queries, simple |-> air.simple, ieee |-> air.ieee]
  BY DEF Air
<1> QED
  BY <1>1 DEF TypeOK, Shape, Rest

\* A cleared entry and the devices of the queue are destinations.
LEMMA Destinations == NoDst \in Dst /\ [addr : Devices, ep : Endpoints] \subseteq Dst
BY DEF NoDst, Dst, Endpoints

\* The ring takes devices until one place is left.
LEMMA Pushed ==
  ASSUME NEW q \in Seq([addr : Devices, ep : Endpoints]), Len(q) < QueueSize,
         NEW dst \in [addr : Devices, ep : Endpoints]
  PROVE  /\ queuePush(q, dst) \in Seq([addr : Devices, ep : Endpoints])
         /\ Len(queuePush(q, dst)) < QueueSize
<1> DEFINE S == [addr : Devices, ep : Endpoints]
<1> HIDE DEF S
<1>0. q \in Seq(S) /\ dst \in S
  BY DEF S
<1>1. QueueSize \in Nat /\ Len(q) \in Nat
  BY <1>0, BoundsAssumption
<1>2. Append(q, dst) \in Seq(S) /\ Len(Append(q, dst)) = Len(q) + 1
  BY <1>0
<1>3. queuePush(q, dst) \in Seq(S) /\ Len(queuePush(q, dst)) < QueueSize
  BY <1>0, <1>1, <1>2 DEF queuePush
<1> QED
  BY <1>3 DEF S

\* Taking the first device leaves fewer.
LEMMA Popped ==
  ASSUME NEW q \in Seq([addr : Devices, ep : Endpoints]), q # <<>>
  PROVE  /\ Head(q) \in [addr : Devices, ep : Endpoints]
         /\ Tail(q) \in Seq([addr : Devices, ep : Endpoints])
         /\ Len(Tail(q)) < Len(q)
         /\ Len(Tail(q)) \in Nat /\ Len(q) \in Nat
<1> DEFINE S == [addr : Devices, ep : Endpoints]
<1> HIDE DEF S
<1>0. q \in Seq(S)
  BY DEF S
<1>1. /\ Head(q) \in S /\ Tail(q) \in Seq(S)
      /\ Len(Tail(q)) < Len(q) /\ Len(Tail(q)) \in Nat /\ Len(q) \in Nat
  BY <1>0
<1> QED
  BY <1>1 DEF S

\* Answers on their way stay of their kind when one arrives.
LEMMA ArrivedTypes ==
  ASSUME air \in Air, NEW kind \in {"queries", "simple", "ieee"}, NEW answer,
         Arrived(kind, answer)
  PROVE  air' \in Air
BY DEF Arrived, Air

\* The answers to a query are of the devices and for an endpoint of ours.
LEMMA QueriedTypes ==
  ASSUME air \in Air, app \in App, timer \in {"none", "query", "simple", "target"},
         FindBindStarted
  PROVE  air' \in Air /\ timer' \in {"none", "query", "simple", "target"}
<1> DEFINE ep  == IF app.flag THEN app.src ELSE 1
           all == {[addr |-> d, ep |-> ep] : d \in Devices}
<1>1. ep \in Endpoints
  BY DEF App, Endpoints
<1>2. all \subseteq [addr : Devices, ep : Endpoints]
  BY <1>1
<1>3. air' = IF bdb.role = "target" THEN air ELSE [air EXCEPT !.queries = all]
  BY DEF FindBindStarted
<1> HIDE DEF all
<1>4. air' \in Air
  BY <1>2, <1>3 DEF Air
<1>5. timer' \in {"none", "query", "simple", "target"}
  BY DEF FindBindStarted
<1> QED
  BY <1>4, <1>5

\* Binding a device of some address at an endpoint.
LEMMA BindTypes ==
  ASSUME app \in App, bound \in Binding, NEW dst \in Dst, NEW full \in BOOLEAN, Bind(dst, full)
  PROVE  app' \in App /\ bound' \in Binding /\ match' \in BOOLEAN
<1>1. app' \in App
  BY DEF Bind, App
<1>2. (IF app.flag THEN app.src ELSE 1) \in 0..2
  BY DEF App, Endpoints
<1>3. dst.addr \in Devices \cup {None} /\ dst.ep \in 0..2
  BY DEF Dst
<1> DEFINE src == IF app.flag THEN app.src ELSE 1
<1>4. bound' = [src |-> src, addr |-> dst.addr, ep |-> dst.ep] \/ bound' = bound
  BY DEF Bind
<1> HIDE DEF src
<1>5. bound' \in Binding
  BY <1>2, <1>3, <1>4 DEF Binding, src
<1>6. match' \in BOOLEAN
  BY DEF Bind
<1> QED
  BY <1>1, <1>5, <1>6

\* At the start.
LEMMA RestInit == Init => Rest
<1> SUFFICES ASSUME Init PROVE Rest
  OBVIOUS
<1>1. queue \in Seq([addr : Devices, ep : Endpoints]) /\ Len(queue) < QueueSize
  BY BoundsAssumption DEF Init
<1>2. app \in App
  BY DEF Init, App, Endpoints
<1>3. air \in Air
  BY DEF Init, Air
<1>4. bound \in Binding
  BY DEF Init, NoBinding, Binding
<1> QED
  BY <1>1, <1>2, <1>3, <1>4, Destinations DEF Init, Rest

\* Each task keeps the types.
LEMMA RestTask == Shape /\ Rest /\ RunTask => Rest'
<1> SUFFICES ASSUME Shape, Rest, RunTask PROVE Rest'
  OBVIOUS
<1>0. /\ network' = network /\ match' = match /\ app' = app /\ bound' = bound
      /\ network \in BOOLEAN /\ match \in BOOLEAN /\ app \in App /\ bound \in Binding
      /\ queue \in Seq([addr : Devices, ep : Endpoints]) /\ Len(queue) < QueueSize
      /\ findDst \in Dst /\ bindDst \in Dst /\ air \in Air
      /\ timer \in {"none", "query", "simple", "target"}
  BY DEF RunTask, Rest
<1>1. CASE bdb_task_start /\ UNCHANGED bindDst
  <2>1. queue' = queue /\ findDst' = findDst /\ bindDst' = bindDst
    BY <1>1 DEF bdb_task_start
  <2>2. FindBindStarted \/ UNCHANGED <<timer, air>>
    BY <1>1 DEF bdb_task_start
  <2> QED
    BY <1>0, <2>1, <2>2, QueriedTypes DEF Rest
<1>2. CASE bdb_task_rejoinDone /\ UNCHANGED bindDst
  BY <1>0, <1>2 DEF bdb_task_rejoinDone, Rest
<1>3. CASE bdb_task_steerFinish /\ UNCHANGED bindDst
  <2>1. queue' = queue /\ findDst' = findDst /\ bindDst' = bindDst
    BY <1>3 DEF bdb_task_steerFinish
  <2>2. FindBindStarted \/ (timer' \in {"none", timer} /\ air' = air)
    BY <1>3 DEF bdb_task_steerFinish
  <2> QED
    BY <1>0, <2>1, <2>2, QueriedTypes DEF Rest
<1>4. CASE bdb_task_simpleDescReq /\ UNCHANGED bindDst
  <2> DEFINE asked == [addr |-> findDst.addr, ep |-> IF app.flag THEN app.dst ELSE findDst.ep]
  <2>1. asked \in Dst
    BY <1>0 DEF Dst, App, Endpoints
  <2>2. air' \in {air, [air EXCEPT !.simple = air.simple \cup {asked}]}
    BY <1>4 DEF bdb_task_simpleDescReq
  <2> HIDE DEF asked
  <2>3. air' \in Air
    BY <1>0, <2>1, <2>2 DEF Air
  <2> QED
    BY <1>0, <1>4, <2>3 DEF bdb_task_simpleDescReq, Rest
<1>5. CASE bdb_task_finish
  <2>1. queue' \in {queue, <<>>} /\ findDst' \in {findDst, NoDst} /\ bindDst' \in {bindDst, NoDst}
        /\ timer' \in {timer, "none"} /\ air' = air
    BY <1>5 DEF bdb_task_finish
  <2>2. <<>> \in Seq([addr : Devices, ep : Endpoints]) /\ Len(<<>>) < QueueSize
    BY BoundsAssumption
  <2>3. queue' \in Seq([addr : Devices, ep : Endpoints]) /\ Len(queue') < QueueSize
    BY <1>0, <2>1, <2>2
  <2> QED
    BY <1>0, <2>1, <2>3, Destinations DEF Rest
<1>6. CASE bdb_simpleDescReqSend /\ UNCHANGED bindDst
  <2>1. CASE queue # <<>>
    <3>1. /\ findDst' = Head(queue) /\ queue' = Tail(queue) /\ timer' = "simple"
          /\ bindDst' = bindDst /\ air' = air
      BY <1>6, <2>1 DEF bdb_simpleDescReqSend
    <3>2. findDst' \in Dst
      BY <1>0, <2>1, <3>1, Popped, Destinations
    <3>3. queue' \in Seq([addr : Devices, ep : Endpoints]) /\ Len(queue') < QueueSize
      BY <1>0, <2>1, <3>1, Popped, BoundsAssumption
    <3> QED
      BY <1>0, <3>1, <3>2, <3>3 DEF Rest
  <2>2. CASE queue = <<>>
    BY <1>0, <1>6, <2>2 DEF bdb_simpleDescReqSend, Rest
  <2> QED
    BY <2>1, <2>2
<1> QED
  BY <1>1, <1>2, <1>3, <1>4, <1>5, <1>6 DEF RunTask

\* A press sets the endpoint of that press.
LEMMA SourceTypes == \A n \in Presses : SourceEp(n) \in Endpoints
BY DEF SourceEp, Endpoints

\* Every step keeps the types.
LEMMA RestStep == Shape /\ Rest /\ [Next]_vars => Rest'
<1> SUFFICES ASSUME Shape, Rest, [Next]_vars PROVE Rest'
  OBVIOUS
<1>0. /\ network \in BOOLEAN /\ match \in BOOLEAN /\ app \in App /\ bound \in Binding
      /\ queue \in Seq([addr : Devices, ep : Endpoints]) /\ Len(queue) < QueueSize
      /\ findDst \in Dst /\ bindDst \in Dst /\ air \in Air
      /\ timer \in {"none", "query", "simple", "target"}
  BY DEF Rest
<1>1. ASSUME NEW n \in Presses, buttonPressed(n) PROVE Rest'
  <2>1. PICK cut \in {FALSE, app.clear = "ended"} :
          app' = [app EXCEPT !.pending = TRUE, !.cut = cut, !.flag = TRUE,
                             !.src = SourceEp(n), !.clear = "runs"]
    BY <1>1 DEF buttonPressed
  <2>2. cut \in BOOLEAN /\ SourceEp(n) \in Endpoints
    BY SourceTypes
  <2>3. app' \in App
    BY <1>0, <2>1, <2>2 DEF App
  <2> QED
    BY <1>0, <1>1, <2>3 DEF buttonPressed, Rest
<1>2. CASE find_and_bind_clear_flag
  <2>1. app' \in App
    BY <1>0, <1>2 DEF find_and_bind_clear_flag, App
  <2> QED
    BY <1>0, <1>2, <2>1 DEF find_and_bind_clear_flag, Rest
<1>3. CASE app_bdbFindAndBindStart
  <2>1. app' = app \/ app' = [app EXCEPT !.pending = FALSE]
    BY <1>3 DEF app_bdbFindAndBindStart
  <2>2. app' \in App
    BY <1>0, <2>1 DEF App
  <2>3. UNCHANGED <<network, queue, findDst, bindDst, match, timer, air, bound>>
    BY <1>3 DEF app_bdbFindAndBindStart
  <2> QED
    BY <1>0, <2>2, <2>3 DEF Rest
<1>4. CASE app_bdbNetworkSteerStart
  <2>1. UNCHANGED <<network, queue, findDst, bindDst, match, timer, app, air, bound>>
    BY <1>4 DEF app_bdbNetworkSteerStart
  <2> QED
    BY <1>0, <2>1 DEF Rest
<1>5. CASE Rejoined
  BY <1>0, <1>5 DEF Rejoined, Rest
<1>6. CASE RunTask
  BY <1>6, RestTask
<1>7. ASSUME NEW ok \in BOOLEAN, SteerDone(ok) PROVE Rest'
  BY <1>0, <1>7 DEF SteerDone, Rest
<1>7a. CASE KeyExchanged
  BY <1>0, <1>7a DEF KeyExchanged, Rest
<1>8. CASE Timeout
  BY <1>0, <1>8 DEF Timeout, bdb_findBindIdentifyQueryTimeout,
     bdb_simpleDescReqTimeoutCb, bdb_findBindIdentifyTimeout, Rest
<1>9. ASSUME NEW q \in air.queries, app_zclIdentifyQueryRspCmdHandler(q) PROVE Rest'
  <2>1. q \in [addr : Devices, ep : Endpoints]
    BY <1>0 DEF Air
  <2>2. Served[q.addr] \in Endpoints
    BY <2>1, DevicesAssumption
  <2>3. app' = [app EXCEPT !.dst = Served[q.addr]]
    BY <1>9 DEF app_zclIdentifyQueryRspCmdHandler
  <2>4. app' \in App
    BY <1>0, <2>2, <2>3 DEF App
  <2>5. queue' = queue \/ queue' = queuePush(queue, q)
    BY <1>9 DEF app_zclIdentifyQueryRspCmdHandler
  <2>6. queue' \in Seq([addr : Devices, ep : Endpoints]) /\ Len(queue') < QueueSize
    BY <1>0, <2>1, <2>5, Pushed
  <2>7. air' \in Air
    BY <1>0, <1>9, ArrivedTypes DEF app_zclIdentifyQueryRspCmdHandler
  <2> QED
    BY <1>0, <1>9, <2>4, <2>6, <2>7 DEF app_zclIdentifyQueryRspCmdHandler, Rest
<1>10. ASSUME NEW r \in air.simple, bdb_SimpleDescResp_error(r) PROVE Rest'
  <2>1. air' \in Air
    BY <1>0, <1>10, ArrivedTypes DEF bdb_SimpleDescResp_error
  <2> QED
    BY <1>0, <1>10, <2>1 DEF bdb_SimpleDescResp_error, Rest
<1>11. ASSUME NEW r \in air.simple, bdb_SimpleDescResp_ignored(r) PROVE Rest'
  <2>1. air' \in Air
    BY <1>0, <1>11, ArrivedTypes DEF bdb_SimpleDescResp_ignored
  <2> QED
    BY <1>0, <1>11, <2>1 DEF bdb_SimpleDescResp_ignored, Rest
<1>12. ASSUME NEW r \in air.simple, bdb_SimpleDescResp_nothing(r) PROVE Rest'
  <2>1. air' \in Air
    BY <1>0, <1>12, ArrivedTypes DEF bdb_SimpleDescResp_nothing
  <2> QED
    BY <1>0, <1>12, <2>1 DEF bdb_SimpleDescResp_nothing, Rest
<1>13. ASSUME NEW r \in air.simple, NEW known \in BOOLEAN, NEW full \in BOOLEAN,
              bdb_SimpleDescResp(r, known, full)
       PROVE  Rest'
  <2> DEFINE dst == [addr |-> r.addr, ep |-> IF app.flag THEN app.dst ELSE r.ep]
  <2>1. r \in Dst
    BY <1>0 DEF Air
  <2>2. dst \in Dst
    BY <1>0, <2>1 DEF Dst, App, Endpoints
  <2>3. bindDst' = dst /\ timer' = "none" /\ UNCHANGED <<network, queue, findDst>>
    BY <1>13 DEF bdb_SimpleDescResp
  <2>4. \/ Bind(dst, full) /\ Arrived("simple", r)
        \/ /\ match' = TRUE /\ UNCHANGED <<app, bound>>
           /\ air' = [air EXCEPT !.simple = air.simple \ {r}, !.ieee = air.ieee \cup {r.addr}]
    BY <1>13 DEF bdb_SimpleDescResp, bdb_binding
  <2> HIDE DEF dst
  <2>5. CASE Bind(dst, full) /\ Arrived("simple", r)
    <3>1. app' \in App /\ bound' \in Binding /\ match' \in BOOLEAN
      BY <1>0, <2>2, <2>5, BindTypes
    <3>2. air' \in Air
      BY <1>0, <2>5, ArrivedTypes
    <3> QED
      BY <1>0, <2>2, <2>3, <3>1, <3>2 DEF Rest
  <2>6. CASE /\ match' = TRUE /\ UNCHANGED <<app, bound>>
             /\ air' = [air EXCEPT !.simple = air.simple \ {r}, !.ieee = air.ieee \cup {r.addr}]
    <3>1. r.addr \in Devices \cup {None}
      BY <2>1 DEF Dst
    <3>2. air' \in Air
      BY <1>0, <2>6, <3>1 DEF Air
    <3> QED
      BY <1>0, <2>2, <2>3, <2>6, <3>2 DEF Rest
  <2> QED
    BY <2>4, <2>5, <2>6
<1>14. ASSUME NEW d \in air.ieee, NEW full \in BOOLEAN, bdb_ieeeAddrResp(d, full) PROVE Rest'
  <2> DEFINE dst == [addr |-> d, ep |-> bindDst.ep]
  <2>1. dst \in Dst
    BY <1>0 DEF Dst, Air
  <2>2. /\ Bind(dst, full) /\ Arrived("ieee", d)
        /\ UNCHANGED <<network, queue, findDst, bindDst, timer>>
    BY <1>14 DEF bdb_ieeeAddrResp, bdb_binding
  <2> HIDE DEF dst
  <2>3. app' \in App /\ bound' \in Binding /\ match' \in BOOLEAN
    BY <1>0, <2>1, <2>2, BindTypes
  <2>4. air' \in Air
    BY <1>0, <2>2, ArrivedTypes
  <2> QED
    BY <1>0, <2>2, <2>3, <2>4 DEF Rest
<1>15. CASE UNCHANGED vars
  BY <1>0, <1>15 DEF vars, Rest
<1> QED
  BY <1>1, <1>2, <1>3, <1>4, <1>5, <1>6, <1>7, <1>7a, <1>8, <1>9, <1>10, <1>11, <1>12,
     <1>13, <1>14, <1>15 DEF Next

-----------------------------------------------------------------------------
\* In every reachable state.
LEMMA ShapeAlways == Spec => []Shape
BY ShapeInit, ShapeStep, PTL DEF Spec

\* What is kept of devices, answers and bindings stays of its type for any number of
\* devices and presses, and the ring of devices that answered never overruns
\* (bdb.c:265-323): one of its places stays empty.
THEOREM Typing == Spec => []TypeOK
<1>1. Init => Rest
  BY RestInit
<1>2. Shape /\ Rest /\ [Next]_vars => Rest'
  BY RestStep
<1>3. Shape /\ Rest => TypeOK
  BY Typed
<1> QED BY <1>1, <1>2, <1>3, ShapeAlways, PTL DEF Spec

\* The status IN_PROGRESS is given back by every path out of a commissioning, also
\* when rejoining comes in between (bdb_task, bdb_topLevelCommissiongConfirm).
THEOREM CommissioningIsReleased == Spec => []BusyReleased
<1>1. Init => BusyReleased
  BY DEF Init, BusyReleased
<1> QED BY <1>1, ShapeAlways, BusyStep, PTL DEF Spec

\* Finding & binding always has something to take it on, whatever the number of
\* devices and the order of their answers (bdb.c:505-658).
THEOREM FindBindIsTakenOn == Spec => []NeverStranded
<1>1. Init => NeverStranded
  BY DEF Init, NeverStranded, IDLE, FINDORBIND
<1> QED BY <1>1, ShapeAlways, StrandedStep, PTL DEF Spec

\* At most one address is asked for, and its answer binds the device whose clusters
\* were matched (bdb_SimpleDescResp, bdb_ieeeAddrResp).
THEOREM AddressesComeSingly == Spec => []OneAddressAwaited
<1>1. Init => OneAddressAwaited
  BY DEF Init, OneAddressAwaited
<1> QED BY <1>1, ShapeAlways, AddressStep, PTL DEF Spec

=============================================================================
