------------------------------ MODULE FindBind ------------------------------
(***************************************************************************)
(* Commissioning (src/src/zigbee/bdb/bdb.c) as this device uses it:        *)
(* network steering, which the application starts after leaving or failing *)
(* to join, and finding & binding, which a button starts.  The initiator   *)
(* broadcasts an Identify Query, queues the devices that answer, asks each *)
(* for its simple descriptor and, if there is a matching cluster, for its  *)
(* IEEE address, and binds it.  Steering is taken as one step with an      *)
(* outcome, and the exchange of the trust center's key that belongs to it  *)
(* by what it does to nodeIsOnANetwork, which may be late.  The stack's    *)
(* rejoining, in state IDLE, comes in between.                             *)
(*                                                                         *)
(* Leaving resets all of this (tl_bdbReset): the module is about the time  *)
(* from one reset to the next.                                             *)
(*                                                                         *)
(* One event loop runs the timers, the scheduled tasks in their order, and *)
(* the network's answers, each at any later time or never.                 *)
(***************************************************************************)
EXTENDS Naturals, Sequences

CONSTANTS
  Devices,       \* short addresses of the devices that identify themselves
  None,          \* no device; the short address 0 of a cleared entry, which is
                 \* the coordinator's
  Served,        \* Served[d]: the endpoint from which d answers the query
  Described,     \* Described[d]: d's endpoints with a matching cluster
  Presses,       \* how often the button may be pressed in a row: 2, 3 or 4 times
  Steers,        \* does the device steer or rejoin meanwhile?
  Expires,       \* may the button's three minutes end?
  QueueSize,     \* FIND_BIND_QUEUE_SIZE
  MaxTasks       \* bound: length of the task queue

Endpoints == {1, 2}

ASSUME DevicesAssumption == /\ None \notin Devices
                            /\ Served \in [Devices -> Endpoints]
                            /\ Described \in [Devices \cup {None} -> SUBSET Endpoints]
ASSUME PressesAssumption == Presses \subseteq 2..4
ASSUME SwitchAssumption  == Steers \in BOOLEAN /\ Expires \in BOOLEAN
ASSUME BoundsAssumption  == QueueSize \in Nat \ {0} /\ MaxTasks \in Nat \ {0}

IDLE == "IDLE"
STEER == "NETWORK_STEER"
FINDORBIND == "FINDORBIND"

\* The tasks: bdb_task with an event, and bdb_simpleDescReqSend ("SEND").
Task == {"START", "REJOIN_DONE", "STEER_FINISH", "SIMPLE_DESC_REQ", "FINISH", "SEND"}

VARIABLES
  bdb,       \* g_bdbCtx and g_bdbAttrs: state, role, steer and find (the
             \* commissioning mode), busy (commissioningStatus is IN_PROGRESS)
  network,   \* g_bdbAttrs.nodeIsOnANetwork
  queue,     \* pFindBindQ: devices, each with our endpoint that it answered
  findDst,   \* g_bdbCtx.findDstInfo: the device whose descriptor is asked for
  bindDst,   \* g_bdbCtx.bindDstInfo: the device that is to be bound
  match,     \* g_bdbCtx.matchClusterList # NULL
  timer,     \* g_bdbCtx.identifyTimer: "none", "query", "simple", "target"
  tasks,     \* the task queue
  app,       \* g_appCtx: pending (bdbFBTimerEvt; cut: its timer was cancelled),
             \* flag (find_bind_flag), src and dst (find_bind_src_ep and _dst_ep),
             \* clear (findbindTimerEvt: NULL, its timer runs, or has ended)
  air,       \* answers on their way: to queries, descriptor and address requests
  bound      \* the binding made last, or NoBinding

vars == <<bdb, network, queue, findDst, bindDst, match, timer, tasks, app, air, bound>>

Dst == [addr : Devices \cup {None}, ep : 0..2]
NoDst == [addr |-> None, ep |-> 0]

Binding == [src : 0..2, addr : Devices \cup {None}, ep : 0..2]
NoBinding == [src |-> 0, addr |-> None, ep |-> 0]

Bdb == [state : {IDLE, STEER, FINDORBIND}, role : {"initiator", "target"},
        steer : BOOLEAN, find : BOOLEAN, busy : BOOLEAN]
App == [pending : BOOLEAN, cut : BOOLEAN, flag : BOOLEAN, src : Endpoints,
        dst : Endpoints, clear : {"no", "runs", "ended"}]
Air == [queries : SUBSET [addr : Devices, ep : Endpoints],
        simple : SUBSET Dst,
        ieee : SUBSET (Devices \cup {None})]

TypeOK ==
  /\ bdb \in Bdb
  /\ network \in BOOLEAN
  /\ queue \in Seq([addr : Devices, ep : Endpoints])
  /\ Len(queue) < QueueSize
  /\ findDst \in Dst
  /\ bindDst \in Dst
  /\ match \in BOOLEAN
  /\ timer \in {"none", "query", "simple", "target"}
  /\ tasks \in Seq(Task)
  /\ app \in App
  /\ air \in Air
  /\ bound \in Binding

Init ==
  /\ bdb = [state |-> IDLE, role |-> "target", steer |-> TRUE, find |-> FALSE,
            busy |-> FALSE]
  /\ network \in BOOLEAN
  /\ queue = <<>>
  /\ findDst = NoDst
  /\ bindDst = NoDst
  /\ match = FALSE
  /\ timer = "none"
  /\ tasks = <<>>
  /\ app = [pending |-> FALSE, cut |-> FALSE, flag |-> FALSE, src |-> 1, dst |-> 1,
            clear |-> "no"]
  /\ air = [queries |-> {}, simple |-> {}, ieee |-> {}]
  /\ bound = NoBinding

\* The network, timers and the user schedule tasks as long as there is room.
Room == Len(tasks) < MaxTasks

-----------------------------------------------------------------------------
(***************************************************************************)
(* Starting a commissioning.                                               *)
(***************************************************************************)

\* The endpoint of a press.
SourceEp(n) == IF n = 4 THEN 2 ELSE 1

\* The button, pressed n times: unless a start is already pending, the endpoint is
\* remembered, finding & binding starts in 50 ms, and the flag is cleared in three
\* minutes.  The timer of these minutes is cancelled before it is scheduled anew; has
\* it ended, its place may be the one that the start has just been given.
\* (The bindings that a press deletes first are in module BindView.)
buttonPressed(n) ==
  /\ ~app.pending
  /\ \E cut \in {FALSE, app.clear = "ended"} :
       app' = [app EXCEPT !.pending = TRUE, !.cut = cut, !.flag = TRUE,
                          !.src = SourceEp(n), !.clear = "runs"]
  /\ UNCHANGED <<bdb, network, queue, findDst, bindDst, match, timer, tasks, air, bound>>

\* The three minutes are over; the handle is not reset.
find_and_bind_clear_flag ==
  /\ Expires
  /\ app.clear = "runs"
  /\ app' = [app EXCEPT !.flag = FALSE, !.clear = "ended"]
  /\ UNCHANGED <<bdb, network, queue, findDst, bindDst, match, timer, tasks, air, bound>>

\* Is a commissioning accepted?  (The stack may be occupied, too.)
Acceptable == bdb.state = IDLE /\ ~bdb.busy

\* bdb_topLevelCommissioning once the mode is set: taken up, or refused with
\* BDB_STATE_COMMISSIONING_BUSY.
Started(moded, role) ==
  /\ Acceptable
  /\ bdb' = [moded EXCEPT !.role = role, !.busy = TRUE]
  /\ tasks' = Append(tasks, "START")

\* Mutant: the timer ends although the commissioning was refused.
app_bdbFindAndBindStart_Once ==
  /\ app.pending /\ ~app.cut /\ Room
  /\ LET moded == [bdb EXCEPT !.steer = FALSE, !.find = TRUE]
     IN  \/ Started(moded, "initiator")
         \/ bdb' = moded /\ UNCHANGED tasks
  /\ app' = [app EXCEPT !.pending = FALSE]
  /\ UNCHANGED <<network, queue, findDst, bindDst, match, timer, air, bound>>

\* app_bdbFindAndBindStart and bdb_findAndBindStart: the mode is set first, then
\* it is seen whether the start is possible; if not it is tried again in 2.5 s.
app_bdbFindAndBindStart ==
  /\ app.pending /\ ~app.cut /\ Room
  /\ LET moded == [bdb EXCEPT !.steer = FALSE, !.find = TRUE]
     IN  \/ /\ Started(moded, "initiator")
            /\ app' = [app EXCEPT !.pending = FALSE]
         \/ bdb' = moded /\ UNCHANGED <<tasks, app>>
  /\ UNCHANGED <<network, queue, findDst, bindDst, match, timer, air, bound>>

\* app_bdbNetworkSteerStart does not look at the answer.
app_bdbNetworkSteerStart ==
  /\ Steers /\ Room
  /\ LET moded == [bdb EXCEPT !.steer = TRUE, !.find = FALSE]
     IN  \/ Started(moded, "target")
         \/ bdb' = moded /\ UNCHANGED tasks
  /\ UNCHANGED <<network, queue, findDst, bindDst, match, timer, app, air, bound>>

\* bdb_zdoStartDevCnf in state IDLE: the stack has rejoined, or lost the network.
Rejoined ==
  /\ Steers /\ Room
  /\ bdb.state = IDLE
  /\ network' \in {network, TRUE}
  /\ tasks' = Append(tasks, "REJOIN_DONE")
  /\ UNCHANGED <<bdb, queue, findDst, bindDst, match, timer, app, air, bound>>

-----------------------------------------------------------------------------
(***************************************************************************)
(* The tasks.                                                              *)
(***************************************************************************)

\* bdb_commissioningFindBind in the role that was set: a target identifies
\* itself, an initiator broadcasts the query.  The timer is started if there is
\* none.  (Bound: what has not answered an earlier query by now never will.)
FindBindStarted ==
  /\ air' = IF bdb.role = "target" THEN air
            ELSE [air EXCEPT !.queries =
                    {[addr |-> d, ep |-> IF app.flag THEN app.src ELSE 1] : d \in Devices}]
  /\ timer' = CASE timer # "none"       -> timer
                [] bdb.role = "target"  -> "target"
                [] OTHER                -> "query"

\* Mutant: when there is no network, the commissioning stays in progress.
Confirmed_Busy == bdb' = [bdb EXCEPT !.state = IDLE]

\* The commissioning is over; its status is not IN_PROGRESS any more.
Confirmed == bdb' = [bdb EXCEPT !.state = IDLE, !.busy = FALSE]

\* bdb_task(START): steer if that is the mode, otherwise find & bind, which
\* needs a network.
bdb_task_start ==
  /\ \/ /\ bdb.state = IDLE /\ bdb.steer
        /\ bdb' = [bdb EXCEPT !.state = STEER]
        /\ UNCHANGED <<timer, air>>
     \/ /\ bdb.state = IDLE /\ ~bdb.steer /\ bdb.find /\ network
        /\ bdb' = [bdb EXCEPT !.state = FINDORBIND]
        /\ FindBindStarted
     \/ /\ bdb.state = IDLE /\ ~bdb.steer /\ ~(bdb.find /\ network)
        /\ Confirmed
        /\ UNCHANGED <<timer, air>>
     \/ bdb.state # IDLE /\ UNCHANGED <<bdb, timer, air>>
  /\ tasks' = Tail(tasks)
  /\ UNCHANGED <<queue, findDst>>

\* bdb_task(STEER_FINISH): finding & binding follows if the mode says so by now.
bdb_task_steerFinish ==
  /\ \/ /\ bdb.state = STEER /\ bdb.find /\ network
        /\ bdb' = [bdb EXCEPT !.state = FINDORBIND]
        /\ FindBindStarted
     \/ /\ bdb.state = STEER /\ ~(bdb.find /\ network)
        /\ Confirmed
        /\ timer' = "none"
        /\ UNCHANGED air
     \/ bdb.state # STEER /\ UNCHANGED <<bdb, timer, air>>
  /\ tasks' = Tail(tasks)
  /\ UNCHANGED <<queue, findDst>>

\* bdb_task(REJOIN_DONE): confirmed to the application as if it were the end of a
\* commissioning, unless a commissioning has begun in the meantime.  If the network
\* has changed, bdb_commissioningInfoSave runs just before and sets the mode.
bdb_task_rejoinDone ==
  /\ \E saved \in BOOLEAN :
       bdb' = [bdb EXCEPT !.steer = @ \/ saved,
                          !.busy = @ /\ bdb.state # IDLE]
  /\ timer' = IF bdb.state = IDLE THEN "none" ELSE timer
  /\ tasks' = Tail(tasks)
  /\ UNCHANGED <<queue, findDst, air>>

\* bdb_task(SIMPLE_DESC_REQ).  While the button's flag is set, the endpoint asked
\* is the one of the last answer to any query, else our own endpoint's number.  (If
\* finding & binding has ended and begun again since the device was taken from the
\* queue, its entry is cleared and the coordinator is asked.)
bdb_task_simpleDescReq ==
  /\ air' = IF bdb.state = FINDORBIND /\ bdb.role = "initiator"
            THEN [air EXCEPT !.simple = @ \cup
                    {[addr |-> findDst.addr, ep |-> IF app.flag THEN app.dst ELSE findDst.ep]}]
            ELSE air
  /\ tasks' = Tail(tasks)
  /\ UNCHANGED <<bdb, queue, findDst, timer>>

\* bdb_task(FINISH).  A finish that comes in another state is dropped.
bdb_task_finish ==
  /\ \/ /\ bdb.state = FINDORBIND
        /\ Confirmed
        /\ queue' = <<>>
        /\ findDst' = NoDst
        /\ bindDst' = NoDst
        /\ timer' = "none"
     \/ bdb.state # FINDORBIND /\ UNCHANGED <<bdb, queue, findDst, bindDst, timer>>
  /\ tasks' = Tail(tasks)
  /\ UNCHANGED air

\* bdb_simpleDescReqSend: the next device of the queue, or the end.
bdb_simpleDescReqSend ==
  /\ \/ /\ queue # <<>>
        /\ findDst' = Head(queue)
        /\ queue' = Tail(queue)
        /\ timer' = "simple"
        /\ tasks' = Append(Tail(tasks), "SIMPLE_DESC_REQ")
     \/ /\ queue = <<>>
        /\ tasks' = Append(Tail(tasks), "FINISH")
        /\ UNCHANGED <<findDst, queue, timer>>
  /\ UNCHANGED <<bdb, air>>

\* The tasks run in the order in which they were scheduled.
Due(t) == tasks # <<>> /\ Head(tasks) = t

RunTask ==
  /\ \/ Due("START")           /\ bdb_task_start         /\ UNCHANGED bindDst
     \/ Due("REJOIN_DONE")     /\ bdb_task_rejoinDone    /\ UNCHANGED bindDst
     \/ Due("STEER_FINISH")    /\ bdb_task_steerFinish   /\ UNCHANGED bindDst
     \/ Due("SIMPLE_DESC_REQ") /\ bdb_task_simpleDescReq /\ UNCHANGED bindDst
     \/ Due("FINISH")          /\ bdb_task_finish
     \/ Due("SEND")            /\ bdb_simpleDescReqSend  /\ UNCHANGED bindDst
  /\ UNCHANGED <<network, match, app, bound>>

\* Steering ends, with or without success.  With success the network is saved,
\* which sets the mode to steering again (bdb_commissioningInfoSave).
SteerDone(ok) ==
  /\ bdb.state = STEER /\ Room
  /\ \A i \in DOMAIN tasks : tasks[i] # "STEER_FINISH"
  /\ network' = (network \/ ok)
  /\ bdb' = [bdb EXCEPT !.steer = @ \/ ok]
  /\ tasks' = Append(tasks, "STEER_FINISH")
  /\ UNCHANGED <<queue, findDst, bindDst, match, timer, app, air, bound>>

\* The trust center's key: the device is on no network from the request for the key
\* until it has come, or after a failure (bdb_nodeDescRespHandler,
\* bdb_retrieveTcLinkKeyDone).  Nothing keeps a late answer out of another state.
\* (Bound: what comes during finding & binding, which does not look, counts after it.)
KeyExchanged ==
  /\ Steers /\ bdb.state # FINDORBIND
  /\ network' = ~network
  /\ UNCHANGED <<bdb, queue, findDst, bindDst, match, timer, tasks, app, air, bound>>

-----------------------------------------------------------------------------
(***************************************************************************)
(* The timers.                                                             *)
(***************************************************************************)

\* The time for answers to the query is over.
bdb_findBindIdentifyQueryTimeout ==
  /\ timer = "query" /\ Room
  /\ timer' = "none"
  /\ tasks' = Append(tasks, IF queue = <<>> THEN "FINISH" ELSE "SEND")
  /\ UNCHANGED <<bdb, network, queue, findDst, bindDst, match, app, air, bound>>

\* Mutant: a device that does not describe itself is waited for for ever.
bdb_simpleDescReqTimeoutCb_Waits ==
  /\ timer = "simple" /\ Room
  /\ timer' = "none"
  /\ UNCHANGED <<bdb, network, queue, findDst, bindDst, match, tasks, app, air, bound>>

\* The time for a descriptor is over: on to the next device.
bdb_simpleDescReqTimeoutCb ==
  /\ timer = "simple" /\ Room
  /\ timer' = "none"
  /\ tasks' = Append(tasks, "SEND")
  /\ UNCHANGED <<bdb, network, queue, findDst, bindDst, match, app, air, bound>>

\* A target has identified itself long enough.
bdb_findBindIdentifyTimeout ==
  /\ timer = "target" /\ Room
  /\ timer' = "none"
  /\ tasks' = Append(tasks, "FINISH")
  /\ UNCHANGED <<bdb, network, queue, findDst, bindDst, match, app, air, bound>>

-----------------------------------------------------------------------------
(***************************************************************************)
(* The network's answers.                                                  *)
(***************************************************************************)

\* An answer has arrived.
Arrived(kind, answer) == air' = [air EXCEPT ![kind] = @ \ {answer}]

\* Mutant: the queue's rear runs into its front.
queuePush_Overrun(q, dst) == Append(q, dst)

\* queuePush: one place of the ring stays empty.
queuePush(q, dst) == IF Len(q) = QueueSize - 1 THEN q ELSE Append(q, dst)

\* An answer to the query.  Its endpoint is remembered in one variable for all
\* devices; the device is queued with the endpoint of ours that it answered.
app_zclIdentifyQueryRspCmdHandler(q) ==
  /\ Arrived("queries", q)
  /\ app' = [app EXCEPT !.dst = Served[q.addr]]
  /\ queue' = IF bdb.state = FINDORBIND /\ bdb.role = "initiator"
              THEN queuePush(queue, q) ELSE queue
  /\ UNCHANGED <<bdb, network, findDst, bindDst, match, timer, tasks, bound>>

\* The binding of dst: from the button's endpoint while its flag is set, else from
\* endpoint 1.  A table that is full may have taken some of the clusters.
Bind(dst, full) ==
  /\ \/ bound' = [src  |-> IF app.flag THEN app.src ELSE 1,
                  addr |-> dst.addr, ep |-> dst.ep]
     \/ full /\ UNCHANGED bound
  /\ app' = [app EXCEPT !.flag = FALSE]
  /\ match' = FALSE

\* Mutant: when the table is full nothing follows.
bdb_binding_Stops(dst, full) ==
  /\ Bind(dst, full)
  /\ tasks' = IF full THEN tasks ELSE Append(tasks, "SEND")

\* bdb_binding: on to the next device, or, with a full table, to the end.
bdb_binding(dst, full) ==
  /\ Bind(dst, full)
  /\ tasks' = Append(tasks, IF full THEN "FINISH" ELSE "SEND")

\* An error instead of a descriptor: on to the next device.
bdb_SimpleDescResp_error(r) ==
  /\ Room
  /\ Arrived("simple", r)
  /\ r.ep \notin Described[r.addr]
  /\ tasks' = Append(tasks, "SEND")
  /\ UNCHANGED <<bdb, network, queue, findDst, bindDst, match, timer, app, bound>>

\* A descriptor that comes while another device's address is asked for.
bdb_SimpleDescResp_ignored(r) ==
  /\ match
  /\ Arrived("simple", r)
  /\ UNCHANGED <<bdb, network, queue, findDst, bindDst, match, timer, tasks, app, bound>>

\* A descriptor with no cluster to match.
bdb_SimpleDescResp_nothing(r) ==
  /\ Room
  /\ ~match
  /\ Arrived("simple", r)
  /\ r.ep \notin Described[r.addr]
  /\ timer' = "none"
  /\ tasks' = Append(tasks, "SEND")
  /\ UNCHANGED <<bdb, network, queue, findDst, bindDst, match, app, bound>>

\* Mutant: a matching descriptor is also taken while an address is asked for.
bdb_SimpleDescResp_Twice(r, known, full) ==
  /\ Room
  /\ r.ep \in Described[r.addr]
  /\ timer' = "none"
  /\ LET dst == [addr |-> r.addr, ep |-> IF app.flag THEN app.dst ELSE r.ep]
     IN  /\ bindDst' = dst
         /\ \/ /\ known
               /\ bdb_binding(dst, full)
               /\ Arrived("simple", r)
            \/ /\ ~known
               /\ match' = TRUE
               /\ air' = [air EXCEPT !.simple = @ \ {r}, !.ieee = @ \cup {r.addr}]
               /\ UNCHANGED <<tasks, app, bound>>
  /\ UNCHANGED <<bdb, network, queue, findDst>>

\* A descriptor with a matching cluster.  The device is bound at once if its
\* address is known, else its address is asked for.
bdb_SimpleDescResp(r, known, full) ==
  /\ Room
  /\ ~match
  /\ r.ep \in Described[r.addr]
  /\ timer' = "none"
  /\ LET dst == [addr |-> r.addr, ep |-> IF app.flag THEN app.dst ELSE r.ep]
     IN  /\ bindDst' = dst
         /\ \/ /\ known
               /\ bdb_binding(dst, full)
               /\ Arrived("simple", r)
            \/ /\ ~known
               /\ match' = TRUE
               /\ air' = [air EXCEPT !.simple = @ \ {r}, !.ieee = @ \cup {r.addr}]
               /\ UNCHANGED <<tasks, app, bound>>
  /\ UNCHANGED <<bdb, network, queue, findDst>>

\* The IEEE address arrives.  An error response, like a lost one, does nothing.
bdb_ieeeAddrResp(d, full) ==
  /\ Room
  /\ Arrived("ieee", d)
  /\ bdb_binding([addr |-> d, ep |-> bindDst.ep], full)
  /\ UNCHANGED <<bdb, network, queue, findDst, bindDst, timer>>

Timeout ==
  \/ bdb_findBindIdentifyQueryTimeout
  \/ bdb_simpleDescReqTimeoutCb
  \/ bdb_findBindIdentifyTimeout

Next ==
  \/ \E n \in Presses : buttonPressed(n)
  \/ find_and_bind_clear_flag
  \/ app_bdbFindAndBindStart
  \/ app_bdbNetworkSteerStart
  \/ Rejoined
  \/ RunTask
  \/ \E ok \in BOOLEAN : SteerDone(ok)
  \/ KeyExchanged
  \/ Timeout
  \/ \E q \in air.queries : app_zclIdentifyQueryRspCmdHandler(q)
  \/ \E r \in air.simple : bdb_SimpleDescResp_error(r)
  \/ \E r \in air.simple : bdb_SimpleDescResp_ignored(r)
  \/ \E r \in air.simple : bdb_SimpleDescResp_nothing(r)
  \/ \E r \in air.simple, known, full \in BOOLEAN : bdb_SimpleDescResp(r, known, full)
  \/ \E d \in air.ieee, full \in BOOLEAN : bdb_ieeeAddrResp(d, full)

Spec == Init /\ [][Next]_vars

-----------------------------------------------------------------------------
(***************************************************************************)
(* Properties.                                                             *)
(***************************************************************************)

Scheduled(t) == \E i \in DOMAIN tasks : tasks[i] = t

\* A finding & binding that is under way always has something to take it on: a
\* timer, the task for the next device or for the end, or the address it asked
\* for.  Whatever order the answers and timeouts come in, the handlers leave one
\* of them behind (bdb.c:505-658).
NeverStranded ==
  bdb.state = FINDORBIND =>
    \/ timer # "none"
    \/ match
    \/ Scheduled("SEND")
    \/ Scheduled("FINISH")

\* One address at a time is asked for, and as long as it is awaited no cluster list
\* of another device takes the place of the one that was matched: its answer binds
\* that device (bdb.c:512, 393-395, 417-431).
OneAddressAwaited ==
  /\ match <=> air.ieee # {}
  /\ \A d, e \in air.ieee : d = e

\* The commissioning status is IN_PROGRESS only while a commissioning runs or is
\* about to: otherwise no commissioning could ever be started again
\* (bdb.c:1117-1260, 1475-1484, 1524-1529).
BusyReleased ==
  bdb.busy => bdb.state # IDLE \/ Scheduled("START")

\* "find&bind onoff with endpoint 2" (app_button.c:185, four presses): bindings are
\* made for the endpoint of the press.
BoundAtPressed ==
  bound # NoBinding => \E n \in Presses : bound.src = SourceEp(n)

(***************************************************************************)
(* Fairness: the event loop runs tasks and timers; the network, when asked *)
(* for an address, answers; the stack is not occupied for ever.            *)
(***************************************************************************)
Fairness ==
  /\ WF_vars(RunTask)
  /\ WF_vars(Timeout)
  /\ WF_vars(\E ok \in BOOLEAN : SteerDone(ok))
  /\ WF_vars(\E d \in air.ieee, full \in BOOLEAN : bdb_ieeeAddrResp(d, full))
  /\ SF_vars(app_bdbFindAndBindStart /\ ~app'.pending)

FairSpec == Spec /\ Fairness

\* A press is taken up in the end, whatever was under way (zb_appCb.c:104-116), if
\* the press has not cancelled its own timer (app_button.c:130-134).
PressIsTakenUp == app.pending /\ ~app.cut ~> Scheduled("START")

\* Finding & binding ends (bdb.c:560-658), if addresses asked for are answered.
FindBindEnds == bdb.state = FINDORBIND ~> bdb.state = IDLE

=============================================================================
