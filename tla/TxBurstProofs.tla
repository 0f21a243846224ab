---------------------------- MODULE TxBurstProofs ----------------------------
(***************************************************************************)
(* Proofs about the transmit path, for any set of requests.  The safety    *)
(* properties of TxBurst are not inductive one by one: the tx-result line  *)
(* is true because the slot, the queued burst and the TX thread's copy are *)
(* the same request, and that in turn rests on the handshake flags.  The   *)
(* inductive invariant is the conjunction of the parts below.              *)
(***************************************************************************)
EXTENDS TxBurst, TLAPS

-----------------------------------------------------------------------------
(* The inductive invariant.                                                *)

Working == txpc \notin {"wait", "exited"}

\* The handshake flags, the TX thread's place and the main thread's tx_inflight
\* tell the same story, and a burst is in flight only where none is refused.
Handshake ==
    /\ SlotExclusive
    /\ burst_in_flight <=> Working
    /\ tx_inflight => Refusal = None

\* The result o of a burst agrees with a, what was emitted of it.
Truth(o, a) ==
    /\ o = "ok" <=> a = "full"
    /\ o # "uhd_error" /\ o # "ok" => a = "none"

\* One request is in custody, under three names, and it has no verdict yet.
Custody ==
    /\ \A r \in Requests : r \notin staged => outcome[r] = None /\ air[r] = "none"
    /\ pending => /\ tx_request \in Requests
                  /\ tx_request \in staged
                  /\ outcome[tx_request] = None
    /\ tx_inflight => burst_req = tx_request
    /\ Working => req = burst_req

\* How far the burst in custody has come, and what its result will be.
Progress ==
    /\ pending /\ ~tx_inflight => air[tx_request] = "none"
    /\ burst_req_pending => air[tx_request] = "none"
    /\ burst_complete => Truth(burst_result, air[tx_request])
    /\ txpc \in {"build", "lock", "config", "send"} => air[tx_request] = "none"
    /\ txpc \in {"rest", "clock"} => air[tx_request] = "part"
    /\ txpc \in {"relock", "power_down", "record", "publish"} =>
         Truth(br, air[tx_request])
    /\ txpc = "record" => br = "ok"

\* QuietBetweenBursts, which must also hold while the lock is waited for.
Quiet == txpc \in {"wait", "build", "lock", "record", "publish", "exited"} =>
             (tx_powered => unmap \in {"never", "failed"})

\* How far the shutdown has come.
Lifetime ==
    /\ ~HasSession => worker = "exited" /\ txpc = "exited"
    /\ main \in {"join_tx", "close_core", "closed"} => worker = "exited"
    /\ main \in {"close_core", "closed"} => txpc = "exited"
    /\ core = "closed" => ~HasSession \/ main = "closed"

\* A burst the TX thread works on was staged before the device was lost.
Loss ==
    /\ staged_lost # {} => device_lost
    /\ staged_lost \subseteq staged
    /\ txpc \in {"build", "lock", "config", "send", "rest", "clock",
                 "relock", "power_down", "record"} => req \notin staged_lost

IInv ==
    /\ TypeOK /\ Handshake /\ Custody /\ Progress /\ ReportTruthful
    /\ Quiet /\ DeviceCallsExclusive /\ Lifetime
    /\ RecordedOnlyIfSent /\ Loss /\ DeadDeviceUntouched

-----------------------------------------------------------------------------
(* Each part is preserved by every step.                                   *)

\* Every action of the three threads keeps the flags Boolean.
LEMMA FlagStep ==
    FlagTypes /\ [Next]_vars => FlagTypes'
<1> SUFFICES ASSUME FlagTypes, [Next]_vars PROVE FlagTypes'
    OBVIOUS
<1>1. CASE InputNothing
  BY <1>1 DEF InputNothing, sessionVars, burstVars, txVars, FlagTypes
<1>2. CASE InputQuit
  BY <1>2 DEF InputQuit, sessionVars, burstVars, txVars, FlagTypes
<1>3. CASE \E r \in Requests : Stage(r)
  BY <1>3 DEF Stage, sessionVars, burstVars, txVars, FlagTypes
<1>4. CASE ServiceIdle
  BY <1>4 DEF ServiceIdle, sessionVars, burstVars, txVars, FlagTypes
<1>5. CASE ServiceRefuse
  BY <1>5 DEF ServiceRefuse, sessionVars, burstVars, txVars, Finish,
     FlagTypes
<1>6. CASE ServiceSubmit
  BY <1>6 DEF ServiceSubmit, sessionVars, burstVars, txVars, Finish,
     SubmitRefused, FlagTypes
<1>7. CASE ServicePoll
  BY <1>7 DEF ServicePoll, sessionVars, burstVars, txVars, Finish, FlagTypes
<1>8. CASE Bottom
  BY <1>8 DEF Bottom, sessionVars, burstVars, txVars, FlagTypes
<1>9. CASE CloseStop
  BY <1>9 DEF CloseStop, burstVars, txVars, FlagTypes
<1>10. CASE JoinWorker
  BY <1>10 DEF JoinWorker, sessionVars, burstVars, txVars, FlagTypes
<1>11. CASE JoinTx
  BY <1>11 DEF JoinTx, sessionVars, burstVars, txVars, FlagTypes
<1>12. CASE CloseCore
  BY <1>12 DEF CloseCore, burstVars, txVars, FlagTypes
<1>13. CASE WorkerTakeRequests
  BY <1>13 DEF WorkerTakeRequests, notWorker, mainVars, burstVars, txVars,
     FlagTypes
<1>14. CASE WorkerLock
  BY <1>14 DEF WorkerLock, notWorker, mainVars, burstVars, txVars, FlagTypes
<1>15. CASE WorkerRecv
  BY <1>15 DEF WorkerRecv, notWorker, mainVars, burstVars, txVars, FlagTypes
<1>16. CASE WorkerLost
  BY <1>16 DEF WorkerLost, notWorker, mainVars, burstVars, txVars, FlagTypes
<1>17. CASE TxExit
  BY <1>17 DEF TxExit, notTx, mainVars, burstVars, txHistory, FlagTypes
<1>18. CASE TxTake
  BY <1>18 DEF TxTake, notTx, mainVars, burstVars, txHistory, FlagTypes
<1>19. CASE TxBuild
  BY <1>19 DEF TxBuild, notTx, mainVars, burstVars, txHistory, FlagTypes
<1>20. CASE TxLock
  BY <1>20 DEF TxLock, notTx, mainVars, burstVars, txHistory, FlagTypes
<1>21. CASE TxConfig
  BY <1>21 DEF TxConfig, notTx, mainVars, burstVars, txHistory, FlagTypes
<1>22. CASE TxSend
  BY <1>22 DEF TxSend, notTx, mainVars, burstVars, txHistory, FlagTypes
<1>23. CASE TxSendRest \/ TxDrain
  BY <1>23 DEF TxSendRest, TxDrain, notTx, mainVars, burstVars, txHistory,
     FlagTypes
<1>24. CASE TxRelock
  BY <1>24 DEF TxRelock, notTx, mainVars, burstVars, txHistory, FlagTypes
<1>25. CASE TxPowerDown
  BY <1>25 DEF TxPowerDown, notTx, mainVars, burstVars, txHistory, FlagTypes
<1>26. CASE TxRecord
  BY <1>26 DEF TxRecord, notTx, mainVars, burstVars, txHistory, FlagTypes
<1>27. CASE TxPublish
  BY <1>27 DEF TxPublish, notTx, mainVars, burstVars, txHistory, FlagTypes
<1>28. CASE UNCHANGED vars
  BY <1>28 DEF vars, mainVars, burstVars, txVars, FlagTypes
<1>29. QED
  BY <1>1, <1>2, <1>3, <1>4, <1>5, <1>6, <1>7, <1>8, <1>9, <1>10, <1>11,
     <1>12, <1>13, <1>14, <1>15, <1>16, <1>17, <1>18, <1>19, <1>20, <1>21,
     <1>22, <1>23, <1>24, <1>25, <1>26, <1>27, <1>28 DEF Next, MainLoop,
     Close, Worker, Tx, Exited

\* Every action keeps the other variables in their sets.
LEMMA DataStep ==
    DataTypes /\ [Next]_vars => DataTypes'
<1> SUFFICES ASSUME DataTypes, [Next]_vars PROVE DataTypes'
    OBVIOUS
<1>1. CASE InputNothing
  BY <1>1 DEF InputNothing, sessionVars, burstVars, txVars, DataTypes,
     MainPc
<1>2. CASE InputQuit
  BY <1>2 DEF InputQuit, sessionVars, burstVars, txVars, DataTypes, MainPc
<1>3. CASE \E r \in Requests : Stage(r)
  BY <1>3 DEF Stage, sessionVars, burstVars, txVars, DataTypes, MainPc
<1>4. CASE ServiceIdle
  BY <1>4 DEF ServiceIdle, sessionVars, burstVars, txVars, DataTypes, MainPc
<1>5. CASE ServiceRefuse
  BY <1>5 DEF ServiceRefuse, sessionVars, burstVars, txVars, Finish,
     DataTypes, MainPc, Outcomes, Refusals, Refusal
<1>6. CASE ServiceSubmit
  BY <1>6 DEF ServiceSubmit, sessionVars, burstVars, txVars, Finish,
     SubmitRefused, DataTypes, MainPc, Outcomes, Refusals
<1>7. CASE ServicePoll
  BY <1>7 DEF ServicePoll, sessionVars, burstVars, txVars, Finish,
     DataTypes, MainPc, Outcomes
<1>8. CASE Bottom
  BY <1>8 DEF Bottom, sessionVars, burstVars, txVars, DataTypes, MainPc
<1>9. CASE CloseStop
  BY <1>9 DEF CloseStop, burstVars, txVars, DataTypes, MainPc
<1>10. CASE JoinWorker
  BY <1>10 DEF JoinWorker, sessionVars, burstVars, txVars, DataTypes, MainPc
<1>11. CASE JoinTx
  BY <1>11 DEF JoinTx, sessionVars, burstVars, txVars, DataTypes, MainPc
<1>12. CASE CloseCore
  BY <1>12 DEF CloseCore, burstVars, txVars, DataTypes, MainPc
<1>13. CASE WorkerTakeRequests
  BY <1>13 DEF WorkerTakeRequests, notWorker, mainVars, burstVars, txVars,
     DataTypes, WorkerPc
<1>14. CASE WorkerLock
  BY <1>14 DEF WorkerLock, notWorker, mainVars, burstVars, txVars,
     DataTypes, WorkerPc
<1>15. CASE WorkerRecv
  BY <1>15 DEF WorkerRecv, notWorker, mainVars, burstVars, txVars,
     DataTypes, WorkerPc
<1>16. CASE WorkerLost
  BY <1>16 DEF WorkerLost, notWorker, mainVars, burstVars, txVars,
     DataTypes, WorkerPc
<1>17. CASE TxExit
  BY <1>17 DEF TxExit, notTx, mainVars, burstVars, txHistory, DataTypes,
     TxPc
<1>18. CASE TxTake
  BY <1>18 DEF TxTake, notTx, mainVars, burstVars, txHistory, DataTypes,
     TxPc, Results
<1>19. CASE TxBuild
  BY <1>19 DEF TxBuild, notTx, mainVars, burstVars, txHistory, DataTypes,
     TxPc, Results
<1>20. CASE TxLock
  BY <1>20 DEF TxLock, notTx, mainVars, burstVars, txHistory, DataTypes,
     TxPc
<1>21. CASE TxConfig
  <2>1. /\ txpc' \in TxPc /\ br' \in Results /\ dev_mu' \in {"free", "rx", "tx"}
        /\ unmap' = unmap
    BY <1>21 DEF TxConfig, DataTypes, TxPc, Results
  <2>2. UNCHANGED <<notTx, burstVars, req, txHistory>>
    BY <1>21 DEF TxConfig
  <2>3. QED
    BY <2>1, <2>2 DEF notTx, mainVars, burstVars, txHistory, DataTypes
<1>22. CASE TxSend
  BY <1>22 DEF TxSend, notTx, mainVars, burstVars, txHistory, DataTypes,
     TxPc, Results
<1>23. CASE TxSendRest \/ TxDrain
  <2>1. CASE TxSendRest
    BY <2>1 DEF TxSendRest, notTx, mainVars, burstVars, txHistory, DataTypes,
       TxPc, Results
  <2>2. CASE TxDrain
    BY <2>2 DEF TxDrain, notTx, mainVars, burstVars, DataTypes, TxPc, Results
  <2>3. QED
    BY <1>23, <2>1, <2>2
<1>24. CASE TxRelock
  BY <1>24 DEF TxRelock, notTx, mainVars, burstVars, txHistory, DataTypes,
     TxPc
<1>25. CASE TxPowerDown
  BY <1>25 DEF TxPowerDown, notTx, mainVars, burstVars, txHistory,
     DataTypes, TxPc
<1>26. CASE TxRecord
  BY <1>26, RequestsAssumption DEF TxRecord, notTx, mainVars, burstVars,
     txHistory, DataTypes, TxPc
<1>27. CASE TxPublish
  BY <1>27 DEF TxPublish, notTx, mainVars, burstVars, txHistory, DataTypes,
     TxPc
<1>28. CASE UNCHANGED vars
  BY <1>28 DEF vars, mainVars, burstVars, txVars, DataTypes
<1>29. QED
  BY <1>1, <1>2, <1>3, <1>4, <1>5, <1>6, <1>7, <1>8, <1>9, <1>10, <1>11,
     <1>12, <1>13, <1>14, <1>15, <1>16, <1>17, <1>18, <1>19, <1>20, <1>21,
     <1>22, <1>23, <1>24, <1>25, <1>26, <1>27, <1>28 DEF Next, MainLoop,
     Close, Worker, Tx, Exited

\* submit, take, publish and poll keep the handshake consistent, and a refusal
\* never frees the slot under a burst in flight.
LEMMA HandshakeStep ==
    FlagTypes /\ Handshake /\ [Next]_vars => Handshake'
<1> SUFFICES ASSUME FlagTypes /\ Handshake, [Next]_vars PROVE Handshake'
    OBVIOUS
<1>1. CASE InputNothing
  BY <1>1 DEF InputNothing, sessionVars, burstVars, txVars, Handshake,
     SlotExclusive, SubmitRefused, Working, Refusal
<1>2. CASE InputQuit
  BY <1>2 DEF InputQuit, sessionVars, burstVars, txVars, Handshake,
     SlotExclusive, SubmitRefused, Working, Refusal
<1>3. CASE \E r \in Requests : Stage(r)
  <2>1. PICK r \in Requests : Stage(r)
    BY <1>3
  <2>2. QED
    BY <2>1 DEF Stage, sessionVars, burstVars, txVars, FlagTypes, Handshake,
       SlotExclusive, SubmitRefused, Working, Refusal
<1>4. CASE ServiceIdle
  BY <1>4 DEF ServiceIdle, sessionVars, burstVars, txVars, Handshake,
     SlotExclusive, SubmitRefused, Working, Refusal
<1>5. CASE ServiceRefuse
  BY <1>5 DEF ServiceRefuse, sessionVars, burstVars, txVars, Finish,
     FlagTypes, Handshake, SlotExclusive, SubmitRefused, Working, Refusal
<1>6. CASE ServiceSubmit
  BY <1>6 DEF ServiceSubmit, sessionVars, burstVars, txVars, Finish,
     SubmitRefused, FlagTypes, Handshake, SlotExclusive, Working, Refusal
<1>7. CASE ServicePoll
  BY <1>7 DEF ServicePoll, sessionVars, burstVars, txVars, Finish,
     FlagTypes, Handshake, SlotExclusive, SubmitRefused, Working, Refusal
<1>8. CASE Bottom
  BY <1>8 DEF Bottom, sessionVars, burstVars, txVars, Handshake,
     SlotExclusive, SubmitRefused, Working, Refusal
<1>9. CASE CloseStop
  BY <1>9 DEF CloseStop, burstVars, txVars, Handshake, SlotExclusive,
     SubmitRefused, Working, Refusal
<1>10. CASE JoinWorker
  BY <1>10 DEF JoinWorker, sessionVars, burstVars, txVars, Handshake,
     SlotExclusive, SubmitRefused, Working, Refusal
<1>11. CASE JoinTx
  BY <1>11 DEF JoinTx, sessionVars, burstVars, txVars, Handshake,
     SlotExclusive, SubmitRefused, Working, Refusal
<1>12. CASE CloseCore
  BY <1>12 DEF CloseCore, burstVars, txVars, Handshake, SlotExclusive,
     SubmitRefused, Working, Refusal
<1>13. CASE WorkerTakeRequests
  BY <1>13 DEF WorkerTakeRequests, notWorker, mainVars, burstVars, txVars,
     Handshake, SlotExclusive, SubmitRefused, Working, Refusal
<1>14. CASE WorkerLock
  BY <1>14 DEF WorkerLock, notWorker, mainVars, burstVars, txVars,
     Handshake, SlotExclusive, SubmitRefused, Working, Refusal
<1>15. CASE WorkerRecv
  BY <1>15 DEF WorkerRecv, notWorker, mainVars, burstVars, txVars,
     Handshake, SlotExclusive, SubmitRefused, Working, Refusal
<1>16. CASE WorkerLost
  BY <1>16 DEF WorkerLost, notWorker, mainVars, burstVars, txVars,
     Handshake, SlotExclusive, SubmitRefused, Working, Refusal
<1>17. CASE TxExit
  BY <1>17 DEF TxExit, notTx, mainVars, burstVars, txHistory, FlagTypes,
     Handshake, SlotExclusive, SubmitRefused, Working, Refusal
<1>18. CASE TxTake
  BY <1>18 DEF TxTake, notTx, mainVars, burstVars, txHistory, FlagTypes,
     Handshake, SlotExclusive, SubmitRefused, Working, Refusal
<1>19. CASE TxBuild
  BY <1>19 DEF TxBuild, notTx, mainVars, burstVars, txHistory, Handshake,
     SlotExclusive, SubmitRefused, Working, Refusal
<1>20. CASE TxLock
  BY <1>20 DEF TxLock, notTx, mainVars, burstVars, txHistory, Handshake,
     SlotExclusive, SubmitRefused, Working, Refusal
<1>21. CASE TxConfig
  BY <1>21 DEF TxConfig, notTx, mainVars, burstVars, txHistory, Handshake,
     SlotExclusive, SubmitRefused, Working, Refusal
<1>22. CASE TxSend
  BY <1>22 DEF TxSend, notTx, mainVars, burstVars, txHistory, Handshake,
     SlotExclusive, SubmitRefused, Working, Refusal
<1>23. CASE TxSendRest \/ TxDrain
  <2>1. CASE TxSendRest
    BY <2>1 DEF TxSendRest, notTx, mainVars, burstVars, txHistory, Handshake,
       SlotExclusive, SubmitRefused, Working, Refusal
  <2>2. CASE TxDrain
    BY <2>2 DEF TxDrain, notTx, mainVars, burstVars, Handshake,
       SlotExclusive, SubmitRefused, Working, Refusal
  <2>3. QED
    BY <1>23, <2>1, <2>2
<1>24. CASE TxRelock
  BY <1>24 DEF TxRelock, notTx, mainVars, burstVars, txHistory, Handshake,
     SlotExclusive, SubmitRefused, Working, Refusal
<1>25. CASE TxPowerDown
  BY <1>25 DEF TxPowerDown, notTx, mainVars, burstVars, txHistory,
     Handshake, SlotExclusive, SubmitRefused, Working, Refusal
<1>26. CASE TxRecord
  BY <1>26 DEF TxRecord, notTx, mainVars, burstVars, txHistory, Handshake,
     SlotExclusive, SubmitRefused, Working, Refusal
<1>27. CASE TxPublish
  BY <1>27 DEF TxPublish, notTx, mainVars, burstVars, txHistory, FlagTypes,
     Handshake, SlotExclusive, SubmitRefused, Working, Refusal
<1>28. CASE UNCHANGED vars
  BY <1>28 DEF vars, mainVars, burstVars, txVars, Handshake, SlotExclusive,
     SubmitRefused, Working, Refusal
<1>29. QED
  BY <1>1, <1>2, <1>3, <1>4, <1>5, <1>6, <1>7, <1>8, <1>9, <1>10, <1>11,
     <1>12, <1>13, <1>14, <1>15, <1>16, <1>17, <1>18, <1>19, <1>20, <1>21,
     <1>22, <1>23, <1>24, <1>25, <1>26, <1>27, <1>28 DEF Next, MainLoop,
     Close, Worker, Tx, Exited

\* dev_mu is taken only when free and released only by its holder.
LEMMA LockStep ==
    DeviceCallsExclusive /\ [Next]_vars => DeviceCallsExclusive'
<1> SUFFICES ASSUME DeviceCallsExclusive, [Next]_vars PROVE
             DeviceCallsExclusive'
    OBVIOUS
<1> USE DEF TxInHandle, RxInHandle
<1>1. CASE InputNothing \/ InputQuit \/ (\E r \in Requests : Stage(r)) \/
          ServiceIdle \/ ServiceRefuse \/ ServiceSubmit \/ ServicePoll \/
          Bottom \/ CloseStop \/ JoinWorker \/ JoinTx \/ CloseCore
  BY <1>1 DEF InputNothing, InputQuit, Stage, ServiceIdle, ServiceRefuse,
     ServiceSubmit, ServicePoll, Bottom, CloseStop, JoinWorker, JoinTx,
     CloseCore, sessionVars, burstVars, txVars, Finish, SubmitRefused,
     DeviceCallsExclusive
<1>2. CASE WorkerTakeRequests \/ WorkerLost
  BY <1>2 DEF WorkerTakeRequests, WorkerLost, notWorker, mainVars,
     burstVars, txVars, DeviceCallsExclusive
<1>3. CASE WorkerLock
  BY <1>3 DEF WorkerLock, notWorker, mainVars, burstVars, txVars,
     DeviceCallsExclusive
<1>4. CASE WorkerRecv
  BY <1>4 DEF WorkerRecv, notWorker, mainVars, burstVars, txVars,
     DeviceCallsExclusive
<1>5. CASE TxExit \/ TxTake \/ TxBuild \/ TxSend \/ TxSendRest \/ TxDrain \/
          TxRecord \/ TxPublish
  BY <1>5 DEF TxExit, TxTake, TxBuild, TxSend, TxSendRest, TxDrain, TxRecord,
     TxPublish, notTx, mainVars, burstVars, txHistory, DeviceCallsExclusive
<1>6. CASE TxLock
  BY <1>6 DEF TxLock, notTx, mainVars, burstVars, txHistory,
     DeviceCallsExclusive
<1>7. CASE TxConfig
  BY <1>7 DEF TxConfig, notTx, mainVars, burstVars, txHistory,
     DeviceCallsExclusive
<1>8. CASE TxRelock
  BY <1>8 DEF TxRelock, notTx, mainVars, burstVars, txHistory,
     DeviceCallsExclusive
<1>9. CASE TxPowerDown
  BY <1>9 DEF TxPowerDown, notTx, mainVars, burstVars, txHistory,
     DeviceCallsExclusive
<1>10. CASE UNCHANGED vars
  BY <1>10 DEF vars, mainVars, burstVars, txVars, DeviceCallsExclusive
<1>11. QED
  BY <1>1, <1>2, <1>3, <1>4, <1>5, <1>6, <1>7, <1>8, <1>9, <1>10 DEF Next,
     MainLoop, Close, Worker, Tx, Exited

\* Every way out of a burst passes the power-down.
LEMMA QuietStep ==
    FlagTypes /\ Quiet /\ [Next]_vars => Quiet'
<1> SUFFICES ASSUME FlagTypes /\ Quiet, [Next]_vars PROVE Quiet'
    OBVIOUS
<1>1. CASE InputNothing \/ InputQuit \/ (\E r \in Requests : Stage(r)) \/
          ServiceIdle \/ ServiceRefuse \/ ServiceSubmit \/ ServicePoll \/
          Bottom \/ CloseStop \/ JoinWorker \/ JoinTx \/ CloseCore
  BY <1>1 DEF InputNothing, InputQuit, Stage, ServiceIdle, ServiceRefuse,
     ServiceSubmit, ServicePoll, Bottom, CloseStop, JoinWorker, JoinTx,
     CloseCore, sessionVars, burstVars, txVars, Finish, SubmitRefused, Quiet
<1>2. CASE WorkerTakeRequests \/ WorkerLock \/ WorkerRecv \/ WorkerLost
  BY <1>2 DEF WorkerTakeRequests, WorkerLock, WorkerRecv, WorkerLost,
     notWorker, mainVars, burstVars, txVars, Quiet
<1>3. CASE TxExit \/ TxTake \/ TxBuild \/ TxLock \/ TxSend \/ TxSendRest \/
          TxDrain \/ TxRelock \/ TxRecord \/ TxPublish
  BY <1>3 DEF TxExit, TxTake, TxBuild, TxLock, TxSend, TxSendRest, TxDrain,
     TxRelock, TxRecord, TxPublish, notTx, mainVars, burstVars, txHistory,
     Quiet
<1>4. CASE TxConfig
  BY <1>4 DEF TxConfig, notTx, mainVars, burstVars, txHistory, Quiet
<1>5. CASE TxPowerDown
  <2>1. tx_powered' = FALSE \/ unmap' = "failed"
    BY <1>5 DEF TxPowerDown
  <2>2. QED
    BY <2>1 DEF Quiet
<1>6. CASE UNCHANGED vars
  BY <1>6 DEF vars, mainVars, burstVars, txVars, Quiet
<1>7. QED
  BY <1>1, <1>2, <1>3, <1>4, <1>5, <1>6 DEF Next, MainLoop, Close, Worker,
     Tx, Exited

\* The joins come in order, and a thread that is gone stays gone.
LEMMA LifetimeStep ==
    Lifetime /\ [Next]_vars => Lifetime'
<1> SUFFICES ASSUME Lifetime, [Next]_vars PROVE Lifetime'
    OBVIOUS
<1>1. CASE InputNothing \/ InputQuit \/ (\E r \in Requests : Stage(r)) \/
          ServiceIdle \/ ServiceRefuse \/ ServiceSubmit \/ ServicePoll \/
          Bottom
  BY <1>1 DEF InputNothing, InputQuit, Stage, ServiceIdle, ServiceRefuse,
     ServiceSubmit, ServicePoll, Bottom, sessionVars, burstVars, txVars,
     Finish, SubmitRefused, Lifetime, HasSession
<1>2. CASE CloseStop
  BY <1>2 DEF CloseStop, burstVars, txVars, Lifetime, HasSession
<1>3. CASE JoinWorker
  BY <1>3 DEF JoinWorker, sessionVars, burstVars, txVars, Lifetime,
     HasSession
<1>4. CASE JoinTx
  BY <1>4 DEF JoinTx, sessionVars, burstVars, txVars, Lifetime, HasSession
<1>5. CASE CloseCore
  BY <1>5 DEF CloseCore, burstVars, txVars, Lifetime, HasSession
<1>6. CASE WorkerTakeRequests \/ WorkerLock \/ WorkerRecv \/ WorkerLost
  BY <1>6 DEF WorkerTakeRequests, WorkerLock, WorkerRecv, WorkerLost,
     notWorker, mainVars, burstVars, txVars, Lifetime, HasSession
<1>7. CASE TxExit \/ TxTake \/ TxBuild \/ TxLock \/ TxConfig \/ TxSend \/
          TxSendRest \/ TxDrain \/ TxRelock \/ TxPowerDown \/ TxRecord \/
          TxPublish
  BY <1>7 DEF TxExit, TxTake, TxBuild, TxLock, TxConfig, TxSend, TxSendRest,
     TxDrain, TxRelock, TxPowerDown, TxRecord, TxPublish, notTx, mainVars,
     burstVars, txHistory, Lifetime, HasSession
<1>8. CASE UNCHANGED vars
  BY <1>8 DEF vars, mainVars, burstVars, txVars, Lifetime, HasSession
<1>9. QED
  BY <1>1, <1>2, <1>3, <1>4, <1>5, <1>6, <1>7, <1>8 DEF Next, MainLoop,
     Close, Worker, Tx, Exited

\* The request in the slot, the queued burst and the TX thread's copy stay the
\* same request, and a verdict is given only as it leaves the slot.
LEMMA CustodyStep ==
    TypeOK /\ Handshake /\ Custody /\ [Next]_vars => Custody'
<1> SUFFICES ASSUME TypeOK /\ Handshake /\ Custody, [Next]_vars PROVE
             Custody'
    OBVIOUS
<1>1. CASE InputNothing \/ InputQuit \/ ServiceIdle \/ Bottom \/ CloseStop
          \/ JoinWorker \/ JoinTx \/ CloseCore
  BY <1>1 DEF InputNothing, InputQuit, ServiceIdle, Bottom, CloseStop,
     JoinWorker, JoinTx, CloseCore, sessionVars, burstVars, txVars, Custody,
     Working
<1>2. CASE \E r \in Requests : Stage(r)
  BY <1>2 DEF Stage, sessionVars, burstVars, txVars, TypeOK, FlagTypes,
     DataTypes, Handshake, SlotExclusive, SubmitRefused, Working, Custody
<1>3. CASE ServiceRefuse
  BY <1>3 DEF ServiceRefuse, sessionVars, burstVars, txVars, Finish, TypeOK,
     FlagTypes, DataTypes, Handshake, SlotExclusive, SubmitRefused, Working,
     Custody
<1>4. CASE ServiceSubmit
  BY <1>4 DEF ServiceSubmit, sessionVars, burstVars, txVars, Finish,
     SubmitRefused, TypeOK, FlagTypes, DataTypes, Handshake, SlotExclusive,
     Working, Custody
<1>5. CASE ServicePoll
  BY <1>5 DEF ServicePoll, sessionVars, burstVars, txVars, Finish, TypeOK,
     FlagTypes, DataTypes, Handshake, SlotExclusive, SubmitRefused, Working,
     Custody
<1>6. CASE WorkerTakeRequests \/ WorkerLock \/ WorkerRecv \/ WorkerLost
  BY <1>6 DEF WorkerTakeRequests, WorkerLock, WorkerRecv, WorkerLost,
     notWorker, mainVars, burstVars, txVars, Custody, Working
<1>7. CASE TxExit
  BY <1>7 DEF TxExit, notTx, mainVars, burstVars, txHistory, Custody,
     Working
<1>8. CASE TxTake
  BY <1>8 DEF TxTake, notTx, mainVars, burstVars, txHistory, TypeOK,
     FlagTypes, DataTypes, Handshake, SlotExclusive, SubmitRefused, Working,
     Custody
<1>9. CASE TxBuild
  BY <1>9 DEF TxBuild, notTx, mainVars, burstVars, txHistory, Custody,
     Working
<1>10. CASE TxLock
  BY <1>10 DEF TxLock, notTx, mainVars, burstVars, txHistory, Custody,
     Working
<1>11. CASE TxConfig
  BY <1>11 DEF TxConfig, notTx, mainVars, burstVars, txHistory, Custody,
     Working
<1>12. CASE TxSend
  BY <1>12 DEF TxSend, notTx, mainVars, burstVars, txHistory, TypeOK,
     FlagTypes, DataTypes, Handshake, SlotExclusive, SubmitRefused, Working,
     Custody
<1>13. CASE TxSendRest \/ TxDrain
  BY <1>13 DEF TxSendRest, TxDrain, notTx, mainVars, burstVars, txHistory,
     TypeOK, FlagTypes, DataTypes, Handshake, SlotExclusive, SubmitRefused,
     Working, Custody
<1>14. CASE TxRelock
  BY <1>14 DEF TxRelock, notTx, mainVars, burstVars, txHistory, Custody,
     Working
<1>15. CASE TxPowerDown
  BY <1>15 DEF TxPowerDown, notTx, mainVars, burstVars, txHistory, Custody,
     Working
<1>16. CASE TxRecord
  BY <1>16 DEF TxRecord, notTx, mainVars, burstVars, txHistory, Custody,
     Working
<1>17. CASE TxPublish
  BY <1>17 DEF TxPublish, notTx, mainVars, burstVars, txHistory, TypeOK,
     FlagTypes, DataTypes, Handshake, SlotExclusive, SubmitRefused, Working,
     Custody
<1>18. CASE UNCHANGED vars
  BY <1>18 DEF vars, mainVars, burstVars, txVars, Custody, Working
<1>19. QED
  BY <1>1, <1>2, <1>3, <1>4, <1>5, <1>6, <1>7, <1>8, <1>9, <1>10, <1>11,
     <1>12, <1>13, <1>14, <1>15, <1>16, <1>17, <1>18 DEF Next, MainLoop,
     Close, Worker, Tx, Exited

\* The result the TX thread carries and publishes agrees with the emission.
LEMMA ProgressStep ==
    TypeOK /\ Handshake /\ Custody /\ Progress /\ [Next]_vars => Progress'
<1> SUFFICES ASSUME TypeOK /\ Handshake /\ Custody /\ Progress, [Next]_vars
             PROVE Progress'
    OBVIOUS
<1>1. CASE InputNothing \/ InputQuit \/ ServiceIdle \/ Bottom \/ CloseStop
          \/ JoinWorker \/ JoinTx \/ CloseCore
  BY <1>1 DEF InputNothing, InputQuit, ServiceIdle, Bottom, CloseStop,
     JoinWorker, JoinTx, CloseCore, sessionVars, burstVars, txVars, Progress
<1>2. CASE \E r \in Requests : Stage(r)
  BY <1>2 DEF Stage, sessionVars, burstVars, txVars, TypeOK, FlagTypes,
     DataTypes, Handshake, SlotExclusive, SubmitRefused, Working, Custody,
     Progress, Truth
<1>3. CASE ServiceRefuse
  BY <1>3 DEF ServiceRefuse, sessionVars, burstVars, txVars, Finish, TypeOK,
     FlagTypes, DataTypes, Handshake, SlotExclusive, SubmitRefused, Working,
     Custody, Progress, Truth
<1>4. CASE ServiceSubmit
  BY <1>4 DEF ServiceSubmit, sessionVars, burstVars, txVars, Finish,
     SubmitRefused, TypeOK, FlagTypes, DataTypes, Handshake, SlotExclusive,
     Working, Custody, Progress, Truth
<1>5. CASE ServicePoll
  BY <1>5 DEF ServicePoll, sessionVars, burstVars, txVars, Finish, TypeOK,
     FlagTypes, DataTypes, Handshake, SlotExclusive, SubmitRefused, Working,
     Custody, Progress, Truth
<1>6. CASE WorkerTakeRequests \/ WorkerLock \/ WorkerRecv \/ WorkerLost
  BY <1>6 DEF WorkerTakeRequests, WorkerLock, WorkerRecv, WorkerLost,
     notWorker, mainVars, burstVars, txVars, Progress
<1>7. CASE TxExit \/ TxLock \/ TxRelock \/ TxPowerDown \/ TxRecord
  BY <1>7 DEF TxExit, TxLock, TxRelock, TxPowerDown, TxRecord, notTx,
     mainVars, burstVars, txHistory, Progress
<1>8. CASE TxTake
  BY <1>8 DEF TxTake, notTx, mainVars, burstVars, txHistory, TypeOK,
     FlagTypes, DataTypes, Handshake, SlotExclusive, SubmitRefused, Working,
     Custody, Progress, Truth
<1>9. CASE TxBuild
  BY <1>9 DEF TxBuild, notTx, mainVars, burstVars, txHistory, TypeOK,
     FlagTypes, DataTypes, Handshake, SlotExclusive, SubmitRefused, Working,
     Custody, Progress, Truth
<1>10. CASE TxConfig
  BY <1>10 DEF TxConfig, notTx, mainVars, burstVars, txHistory, TypeOK,
     FlagTypes, DataTypes, Handshake, SlotExclusive, SubmitRefused, Working,
     Custody, Progress, Truth
<1>11. CASE TxSend
  BY <1>11 DEF TxSend, notTx, mainVars, burstVars, txHistory, TypeOK,
     FlagTypes, DataTypes, Handshake, SlotExclusive, SubmitRefused, Working,
     Custody, Progress, Truth
<1>12. CASE TxSendRest \/ TxDrain
  BY <1>12 DEF TxSendRest, TxDrain, notTx, mainVars, burstVars, txHistory,
     TypeOK, FlagTypes, DataTypes, Handshake, SlotExclusive, SubmitRefused,
     Working, Custody, Progress, Truth
<1>13. CASE TxPublish
  BY <1>13 DEF TxPublish, notTx, mainVars, burstVars, txHistory, TypeOK,
     FlagTypes, DataTypes, Handshake, SlotExclusive, SubmitRefused, Working,
     Custody, Progress, Truth
<1>14. CASE UNCHANGED vars
  BY <1>14 DEF vars, mainVars, burstVars, txVars, Progress
<1>15. QED
  BY <1>1, <1>2, <1>3, <1>4, <1>5, <1>6, <1>7, <1>8, <1>9, <1>10, <1>11,
     <1>12, <1>13, <1>14 DEF Next, MainLoop, Close, Worker, Tx, Exited

\* A verdict is true when given, and what it says can no longer change.
LEMMA ReportStep ==
    TypeOK /\ Handshake /\ Custody /\ Progress /\ ReportTruthful /\
      [Next]_vars => ReportTruthful'
<1> SUFFICES ASSUME TypeOK /\ Handshake /\ Custody /\ Progress /\
             ReportTruthful, [Next]_vars PROVE ReportTruthful'
    OBVIOUS
<1>1. CASE InputNothing \/ InputQuit \/ (\E r \in Requests : Stage(r)) \/
          ServiceIdle \/ Bottom \/ CloseStop \/ JoinWorker \/ JoinTx \/
          CloseCore
  BY <1>1 DEF InputNothing, InputQuit, Stage, ServiceIdle, Bottom,
     CloseStop, JoinWorker, JoinTx, CloseCore, sessionVars, burstVars,
     txVars, ReportTruthful
<1>2. CASE ServiceRefuse
  BY <1>2 DEF ServiceRefuse, sessionVars, burstVars, txVars, Finish, TypeOK,
     FlagTypes, DataTypes, Handshake, SlotExclusive, SubmitRefused, Working,
     Custody, Progress, Truth, ReportTruthful, Refusal
<1>3. CASE ServiceSubmit
  BY <1>3 DEF ServiceSubmit, sessionVars, burstVars, txVars, Finish,
     SubmitRefused, TypeOK, FlagTypes, DataTypes, Handshake, SlotExclusive,
     Working, Custody, Progress, Truth, ReportTruthful
<1>4. CASE ServicePoll
  BY <1>4 DEF ServicePoll, sessionVars, burstVars, txVars, Finish, TypeOK,
     FlagTypes, DataTypes, Handshake, SlotExclusive, SubmitRefused, Working,
     Custody, Progress, Truth, ReportTruthful
<1>5. CASE WorkerTakeRequests \/ WorkerLock \/ WorkerRecv \/ WorkerLost
  BY <1>5 DEF WorkerTakeRequests, WorkerLock, WorkerRecv, WorkerLost,
     notWorker, mainVars, burstVars, txVars, ReportTruthful
<1>6. CASE TxExit \/ TxTake \/ TxBuild \/ TxLock \/ TxConfig \/ TxRelock \/
          TxPowerDown \/ TxRecord \/ TxPublish
  BY <1>6 DEF TxExit, TxTake, TxBuild, TxLock, TxConfig, TxRelock,
     TxPowerDown, TxRecord, TxPublish, notTx, mainVars, burstVars,
     txHistory, ReportTruthful
<1>7. CASE TxSend
  BY <1>7 DEF TxSend, notTx, mainVars, burstVars, txHistory, TypeOK,
     FlagTypes, DataTypes, Handshake, SlotExclusive, SubmitRefused, Working,
     Custody, Progress, Truth, ReportTruthful
<1>8. CASE TxSendRest \/ TxDrain
  BY <1>8 DEF TxSendRest, TxDrain, notTx, mainVars, burstVars, txHistory,
     TypeOK, FlagTypes, DataTypes, Handshake, SlotExclusive, SubmitRefused,
     Working, Custody, Progress, Truth, ReportTruthful
<1>9. CASE UNCHANGED vars
  BY <1>9 DEF vars, mainVars, burstVars, txVars, ReportTruthful
<1>10. QED
  BY <1>1, <1>2, <1>3, <1>4, <1>5, <1>6, <1>7, <1>8, <1>9 DEF Next,
     MainLoop, Close, Worker, Tx, Exited

\* A row is written only after the last sample, which is never taken back.
LEMMA RecordStep ==
    TypeOK /\ Handshake /\ Custody /\ Progress /\ RecordedOnlyIfSent /\
      [Next]_vars => RecordedOnlyIfSent'
<1> SUFFICES ASSUME TypeOK /\ Handshake /\ Custody /\ Progress /\
             RecordedOnlyIfSent, [Next]_vars PROVE RecordedOnlyIfSent'
    OBVIOUS
<1>1. CASE InputNothing \/ InputQuit \/ (\E r \in Requests : Stage(r)) \/
          ServiceIdle \/ ServiceRefuse \/ ServiceSubmit \/ ServicePoll \/
          Bottom \/ CloseStop \/ JoinWorker \/ JoinTx \/ CloseCore
  BY <1>1 DEF InputNothing, InputQuit, Stage, ServiceIdle, ServiceRefuse,
     ServiceSubmit, ServicePoll, Bottom, CloseStop, JoinWorker, JoinTx,
     CloseCore, sessionVars, burstVars, txVars, Finish, SubmitRefused,
     RecordedOnlyIfSent
<1>2. CASE WorkerTakeRequests \/ WorkerLock \/ WorkerRecv \/ WorkerLost
  BY <1>2 DEF WorkerTakeRequests, WorkerLock, WorkerRecv, WorkerLost,
     notWorker, mainVars, burstVars, txVars, RecordedOnlyIfSent
<1>3. CASE TxExit \/ TxTake \/ TxBuild \/ TxLock \/ TxConfig \/ TxRelock \/
          TxPowerDown \/ TxPublish
  BY <1>3 DEF TxExit, TxTake, TxBuild, TxLock, TxConfig, TxRelock,
     TxPowerDown, TxPublish, notTx, mainVars, burstVars, txHistory,
     RecordedOnlyIfSent
<1>4. CASE TxSend
  BY <1>4 DEF TxSend, notTx, mainVars, burstVars, txHistory, TypeOK,
     FlagTypes, DataTypes, Handshake, SlotExclusive, SubmitRefused, Working,
     Custody, Progress, Truth, RecordedOnlyIfSent
<1>5. CASE TxSendRest \/ TxDrain
  BY <1>5 DEF TxSendRest, TxDrain, notTx, mainVars, burstVars, txHistory,
     TypeOK, FlagTypes, DataTypes, Handshake, SlotExclusive, SubmitRefused,
     Working, Custody, Progress, Truth, RecordedOnlyIfSent
<1>6. CASE TxRecord
  BY <1>6 DEF TxRecord, notTx, mainVars, burstVars, txHistory, TypeOK,
     FlagTypes, DataTypes, Handshake, SlotExclusive, SubmitRefused, Working,
     Custody, Progress, Truth, RecordedOnlyIfSent
<1>7. CASE UNCHANGED vars
  BY <1>7 DEF vars, mainVars, burstVars, txVars, RecordedOnlyIfSent
<1>8. QED
  BY <1>1, <1>2, <1>3, <1>4, <1>5, <1>6, <1>7 DEF Next, MainLoop, Close,
     Worker, Tx, Exited

\* The TX thread takes no burst staged after the loss past its first check.
LEMMA LossStep ==
    TypeOK /\ Handshake /\ Custody /\ Loss /\ [Next]_vars => Loss'
<1> SUFFICES ASSUME TypeOK /\ Handshake /\ Custody /\ Loss, [Next]_vars
             PROVE Loss'
    OBVIOUS
<1>1. CASE InputNothing \/ InputQuit \/ ServiceIdle \/ ServiceRefuse \/
          ServiceSubmit \/ ServicePoll \/ Bottom \/ CloseStop \/ JoinWorker
          \/ JoinTx \/ CloseCore
  BY <1>1 DEF InputNothing, InputQuit, ServiceIdle, ServiceRefuse,
     ServiceSubmit, ServicePoll, Bottom, CloseStop, JoinWorker, JoinTx,
     CloseCore, sessionVars, burstVars, txVars, Finish, SubmitRefused, Loss
<1>2. CASE \E r \in Requests : Stage(r)
  BY <1>2 DEF Stage, sessionVars, burstVars, txVars, TypeOK, FlagTypes,
     DataTypes, Handshake, SlotExclusive, SubmitRefused, Working, Custody,
     Loss
<1>3. CASE WorkerTakeRequests \/ WorkerLock \/ WorkerRecv \/ WorkerLost
  BY <1>3 DEF WorkerTakeRequests, WorkerLock, WorkerRecv, WorkerLost,
     notWorker, mainVars, burstVars, txVars, Loss
<1>4. CASE TxExit \/ TxBuild \/ TxLock \/ TxConfig \/ TxSend \/ TxSendRest
          \/ TxDrain \/ TxRelock \/ TxPowerDown \/ TxRecord \/ TxPublish
  BY <1>4 DEF TxExit, TxBuild, TxLock, TxConfig, TxSend, TxSendRest, TxDrain,
     TxRelock, TxPowerDown, TxRecord, TxPublish, notTx, mainVars, burstVars,
     txHistory, Loss
<1>5. CASE TxTake
  BY <1>5 DEF TxTake, notTx, mainVars, burstVars, txHistory, TypeOK,
     FlagTypes, DataTypes, Handshake, SlotExclusive, SubmitRefused, Working,
     Custody, Loss
<1>6. CASE UNCHANGED vars
  BY <1>6 DEF vars, mainVars, burstVars, txVars, Loss
<1>7. QED
  BY <1>1, <1>2, <1>3, <1>4, <1>5, <1>6 DEF Next, MainLoop, Close, Worker,
     Tx, Exited

\* So nothing of such a burst is emitted.
LEMMA DeadStep ==
    TypeOK /\ Handshake /\ Custody /\ Loss /\ DeadDeviceUntouched /\
      [Next]_vars => DeadDeviceUntouched'
<1> SUFFICES ASSUME TypeOK /\ Handshake /\ Custody /\ Loss /\
             DeadDeviceUntouched, [Next]_vars PROVE DeadDeviceUntouched'
    OBVIOUS
<1>1. CASE InputNothing \/ InputQuit \/ ServiceIdle \/ ServiceRefuse \/
          ServiceSubmit \/ ServicePoll \/ Bottom \/ CloseStop \/ JoinWorker
          \/ JoinTx \/ CloseCore
  BY <1>1 DEF InputNothing, InputQuit, ServiceIdle, ServiceRefuse,
     ServiceSubmit, ServicePoll, Bottom, CloseStop, JoinWorker, JoinTx,
     CloseCore, sessionVars, burstVars, txVars, Finish, SubmitRefused,
     DeadDeviceUntouched
<1>2. CASE \E r \in Requests : Stage(r)
  BY <1>2 DEF Stage, sessionVars, burstVars, txVars, TypeOK, FlagTypes,
     DataTypes, Handshake, SlotExclusive, SubmitRefused, Working, Custody,
     Loss, DeadDeviceUntouched
<1>3. CASE WorkerTakeRequests \/ WorkerLock \/ WorkerRecv \/ WorkerLost
  BY <1>3 DEF WorkerTakeRequests, WorkerLock, WorkerRecv, WorkerLost,
     notWorker, mainVars, burstVars, txVars, DeadDeviceUntouched
<1>4. CASE TxExit \/ TxTake \/ TxBuild \/ TxLock \/ TxConfig \/ TxRelock \/
          TxPowerDown \/ TxRecord \/ TxPublish
  BY <1>4 DEF TxExit, TxTake, TxBuild, TxLock, TxConfig, TxRelock,
     TxPowerDown, TxRecord, TxPublish, notTx, mainVars, burstVars,
     txHistory, DeadDeviceUntouched
<1>5. CASE TxSend
  BY <1>5 DEF TxSend, notTx, mainVars, burstVars, txHistory, TypeOK,
     FlagTypes, DataTypes, Handshake, SlotExclusive, SubmitRefused, Working,
     Custody, Loss, DeadDeviceUntouched
<1>6. CASE TxSendRest \/ TxDrain
  BY <1>6 DEF TxSendRest, TxDrain, notTx, mainVars, burstVars, txHistory,
     TypeOK, FlagTypes, DataTypes, Handshake, SlotExclusive, SubmitRefused,
     Working, Custody, Loss, DeadDeviceUntouched
<1>7. CASE UNCHANGED vars
  BY <1>7 DEF vars, mainVars, burstVars, txVars, DeadDeviceUntouched
<1>8. QED
  BY <1>1, <1>2, <1>3, <1>4, <1>5, <1>6, <1>7 DEF Next, MainLoop, Close,
     Worker, Tx, Exited

-----------------------------------------------------------------------------
(* The theorems.                                                           *)

\* The parts hold at start-up, on every command line and hardware.
LEMMA InitInv == Init => IInv
<1> SUFFICES ASSUME Init PROVE IInv
    OBVIOUS
<1>1. FlagTypes
  BY DEF Init, FlagTypes
<1>2. DataTypes
  BY DEF Init, DataTypes, HasSession, MainPc, WorkerPc, TxPc, Results
<1>3. Handshake
  BY DEF Init, Handshake, SlotExclusive, SubmitRefused, Working
<1>4. Custody /\ Progress /\ ReportTruthful
  BY DEF Init, Custody, Progress, ReportTruthful, Working
<1>5. Quiet /\ DeviceCallsExclusive /\ Lifetime
  BY DEF Init, Quiet, DeviceCallsExclusive, TxInHandle, RxInHandle, Lifetime,
     HasSession
<1>6. RecordedOnlyIfSent /\ Loss /\ DeadDeviceUntouched
  BY DEF Init, RecordedOnlyIfSent, Loss, DeadDeviceUntouched
<1>7. QED
  BY <1>1, <1>2, <1>3, <1>4, <1>5, <1>6 DEF IInv, TypeOK

\* The inductive invariant of the transmit path: whatever the interleaving of
\* the main loop, the RX worker and the TX thread, the three agree on which
\* request is in custody and how far it has come.
THEOREM Inductive == Spec => []IInv
<1>1. IInv /\ [Next]_vars => IInv'
  BY FlagStep, DataStep, HandshakeStep, LockStep, QuietStep, LifetimeStep,
     CustodyStep, ProgressStep, ReportStep, RecordStep, LossStep, DeadStep
     DEF IInv, TypeOK
<1>2. QED
  BY InitInv, <1>1, PTL DEF Spec

\* Every variable of the transmit path stays in its type.
THEOREM TypeCorrect == Spec => []TypeOK
<1>1. IInv => TypeOK
  BY DEF IInv
<1>2. QED
  BY Inductive, <1>1, PTL

\* The handshake of rx_session_submit_burst, the TX thread and
\* rx_session_poll_burst never holds two bursts, and the slot is occupied
\* while it holds one.
THEOREM SlotSafe == Spec => []SlotExclusive
<1>1. IInv => SlotExclusive
  BY DEF IInv, Handshake
<1>2. QED
  BY Inductive, <1>1, PTL

\* What tx_burst_service_request audits about a request agrees with what the
\* SDR emitted of it, then and ever after.
THEOREM ReportSafe == Spec => []ReportTruthful
<1>1. IInv => ReportTruthful
  BY DEF IInv
<1>2. QED
  BY Inductive, <1>1, PTL

\* Once a burst has had the device, no interleaving leaves the TX chain mapped
\* outside uhd_tx_burst, short of a failed unmapping.  (Before the first burst
\* it is mapped, as uhd_open left it.)
THEOREM QuietSafe == Spec => []QuietBetweenBursts
<1>1. IInv => QuietBetweenBursts
  BY DEF IInv, Quiet, QuietBetweenBursts
<1>2. QED
  BY Inductive, <1>1, PTL

\* dev_mu excludes: recv overlaps no other call on the device handle but the
\* clock read that uhd_tx_burst makes without the lock.
THEOREM DeviceSafe == Spec => []DeviceCallsExclusive
<1>1. IInv => DeviceCallsExclusive
  BY DEF IInv
<1>2. QED
  BY Inductive, <1>1, PTL

\* rx_session_close does not free the device under a running thread.
THEOREM HandleSafe == Spec => []HandleOutlivesThreads
<1>1. IInv => HandleOutlivesThreads
  BY DEF IInv, Lifetime, HandleOutlivesThreads
<1>2. QED
  BY Inductive, <1>1, PTL

\* sent_tcmd names only telecommands that were completely emitted.
THEOREM RecordSafe == Spec => []RecordedOnlyIfSent
<1>1. IInv => RecordedOnlyIfSent
  BY DEF IInv
<1>2. QED
  BY Inductive, <1>1, PTL

\* A request staged after the device was lost never reaches it.
THEOREM LossSafe == Spec => []DeadDeviceUntouched
<1>1. IInv => DeadDeviceUntouched
  BY DEF IInv
<1>2. QED
  BY Inductive, <1>1, PTL

\* The device is used safely, the unlocked clock read aside: the lock, the
\* lifetime of the handle and the lost device together.
THEOREM DeviceUse == Spec => []DeviceUseSafe
BY DeviceSafe, HandleSafe, LossSafe, PTL DEF DeviceUseSafe

-----------------------------------------------------------------------------
(* The three threads implement the promise of TxSlot.                      *)

\* A step of the threads that leaves the slot, the emissions, the verdicts and
\* the loop alone is a stutter of the promise.
LEMMA SlotStutter ==
    UNCHANGED <<pending, tx_request, air, outcome, main>> =>
        UNCHANGED Slot!slotVars
BY DEF Slot!slotVars, slotHeld, slotVerdict, InLoop

\* What Finish does to the slot, seen from the promise.
VerdictGiven(o) ==
    /\ InLoop /\ InLoop'
    /\ outcome' = [outcome EXCEPT ![tx_request] = o]
    /\ pending' = FALSE
    /\ UNCHANGED air

\* An audit line that agrees with the emission is the promise's verdict.
LEMMA VerdictStep ==
    ASSUME NEW o \in Outcomes, DataTypes, pending, tx_request \in Requests,
           o = "ok" <=> air[tx_request] = "full", VerdictGiven(o)
    PROVE  Slot!Report(IF o = "ok" THEN "sent" ELSE "not_sent")
<1>1. slotHeld = tx_request /\ slotHeld' = None /\ slotHeld # None
  BY RequestsAssumption DEF slotHeld, VerdictGiven
<1>2. slotVerdict' = [slotVerdict EXCEPT ![tx_request] =
                         IF o = "ok" THEN "sent" ELSE "not_sent"]
  BY RequestsAssumption DEF slotVerdict, VerdictGiven, DataTypes
<1>3. QED
  BY <1>1, <1>2 DEF Slot!Report, VerdictGiven, InLoop

\* Every step maps to one step of the promise or to none: tx_burst_service_request
\* gives the verdict, the first and the last chunk are the emission.
LEMMA SlotStep ==
    IInv /\ [Next]_vars => [Slot!Next]_(Slot!slotVars)
<1> SUFFICES ASSUME IInv, [Next]_vars PROVE [Slot!Next]_(Slot!slotVars)
    OBVIOUS
<1> USE DEF IInv
<1>1. CASE \E r \in Requests : Stage(r)
  <2>1. PICK r \in Requests : Stage(r)
    BY <1>1
  <2>2. Slot!Stage(r)
    BY <2>1, RequestsAssumption
       DEF Stage, sessionVars, txVars, Slot!Stage, Custody, slotHeld, slotVerdict, InLoop
  <2>3. QED
    BY <2>2 DEF Slot!Next
<1>2. CASE ServiceRefuse
  <2>1. Refusal \in Refusals
    BY <1>2 DEF ServiceRefuse, Refusal, Refusals
  <2>2. pending /\ tx_request \in Requests /\ air[tx_request] = "none"
    BY <1>2 DEF ServiceRefuse, Handshake, Custody, Progress
  <2>3. VerdictGiven(Refusal)
    BY <1>2 DEF ServiceRefuse, sessionVars, txVars, Finish, VerdictGiven, InLoop
  <2>4. Slot!Report("not_sent")
    BY <2>1, <2>2, <2>3, VerdictStep DEF TypeOK, Outcomes, Refusals
  <2>5. QED
    BY <2>4 DEF Slot!Next
<1>3. CASE ServiceSubmit
  <2>1. UNCHANGED <<pending, tx_request, air, outcome>> /\ InLoop /\ InLoop'
    BY <1>3 DEF ServiceSubmit, sessionVars, txVars, Handshake, SlotExclusive,
       InLoop
  <2>2. QED
    BY <2>1 DEF Slot!slotVars, slotHeld, slotVerdict
<1>4. CASE ServicePoll
  <2>1. CASE burst_complete
    <3>1. /\ pending /\ tx_request \in Requests
          /\ Truth(burst_result, air[tx_request]) /\ burst_result \in Outcomes
      BY <1>4, <2>1 DEF ServicePoll, Custody, Progress, TypeOK, DataTypes, Outcomes
    <3>2. VerdictGiven(burst_result)
      BY <1>4, <2>1 DEF ServicePoll, sessionVars, txVars, Finish, VerdictGiven,
         InLoop
    <3>3. Slot!Report(IF burst_result = "ok" THEN "sent" ELSE "not_sent")
      BY <3>1, <3>2, VerdictStep DEF TypeOK, Truth
    <3>4. QED
      BY <3>3 DEF Slot!Next
  <2>2. CASE ~burst_complete
    <3>1. UNCHANGED <<pending, tx_request, air, outcome>> /\ InLoop /\ InLoop'
      BY <1>4, <2>2 DEF ServicePoll, sessionVars, txVars, InLoop
    <3>2. QED
      BY <3>1 DEF Slot!slotVars, slotHeld, slotVerdict
  <2>3. QED
    BY <2>1, <2>2
<1>5. CASE InputNothing \/ InputQuit \/ ServiceIdle
  <2>1. UNCHANGED <<pending, tx_request, air, outcome>> /\ InLoop /\ InLoop'
    BY <1>5 DEF InputNothing, InputQuit, ServiceIdle, sessionVars, txVars,
       InLoop
  <2>2. QED
    BY <2>1 DEF Slot!slotVars, slotHeld, slotVerdict
<1>6. CASE Bottom
  <2>1. UNCHANGED <<slotHeld, air, slotVerdict>> /\ InLoop
    BY <1>6 DEF Bottom, sessionVars, txVars, slotHeld, slotVerdict, InLoop
  <2>2. CASE main' = "input"
    BY <2>1, <2>2 DEF Slot!slotVars, InLoop
  <2>3. CASE main' = "stop"
    BY <2>1, <2>3 DEF Slot!Next, Slot!Leave, InLoop
  <2>4. QED
    BY <1>6, <2>2, <2>3 DEF Bottom
<1>7. CASE Close
  <2>1. UNCHANGED <<pending, tx_request, air, outcome>> /\ ~InLoop /\ ~InLoop'
    BY <1>7 DEF Close, CloseStop, JoinWorker, JoinTx, CloseCore, sessionVars,
       txVars, InLoop
  <2>2. QED
    BY <2>1 DEF Slot!slotVars, slotHeld, slotVerdict, InLoop
<1>8. CASE Worker
  BY <1>8, SlotStutter DEF Worker, WorkerTakeRequests, WorkerLock, WorkerRecv,
     WorkerLost, notWorker, mainVars, txVars
<1>9. CASE TxSend
  <2>1. CASE air' = air
    BY <1>9, <2>1, SlotStutter DEF TxSend, notTx, mainVars
  <2>2. CASE air' = [air EXCEPT ![req] = "part"]
    <3>1. pending /\ req = tx_request /\ tx_request \in Requests
      BY <1>9 DEF TxSend, Handshake, SlotExclusive, SubmitRefused, Working,
         Custody
    <3>2. Slot!Key
      BY <1>9, <2>2, <3>1, RequestsAssumption
         DEF TxSend, notTx, mainVars, Progress, Slot!Key, slotHeld,
             slotVerdict, InLoop
    <3>3. QED
      BY <3>2 DEF Slot!Next
  <2>3. QED
    BY <1>9, <2>1, <2>2 DEF TxSend
<1>10. CASE TxDrain
  <2>1. pending /\ req = tx_request /\ tx_request \in Requests
    BY <1>10 DEF TxDrain, Handshake, SlotExclusive, SubmitRefused, Working,
       Custody
  <2>2. Slot!Complete
    BY <1>10, <2>1, RequestsAssumption
       DEF TxDrain, notTx, mainVars, Progress, Slot!Complete, slotHeld,
           slotVerdict, InLoop
  <2>3. QED
    BY <2>2 DEF Slot!Next
<1>11. CASE TxExit \/ TxTake \/ TxBuild \/ TxLock \/ TxConfig \/ TxSendRest
            \/ TxRelock \/ TxPowerDown \/ TxRecord \/ TxPublish
  BY <1>11, SlotStutter DEF TxExit, TxTake, TxBuild, TxLock, TxConfig,
     TxSendRest, TxRelock, TxPowerDown, TxRecord, TxPublish, notTx, mainVars,
     txHistory
<1>12. CASE UNCHANGED vars
  BY <1>12, SlotStutter DEF vars, mainVars, txVars
<1>13. QED
  BY <1>1, <1>2, <1>3, <1>4, <1>5, <1>6, <1>7, <1>8, <1>9, <1>10, <1>11, <1>12
     DEF Next, MainLoop, Tx, Exited

\* The transmit path implements the slot's promise: at most one request held,
\* at most one emission and one verdict per request, the verdict agreeing with
\* the emission.
THEOREM SlotRefinement == Spec => SlotPromise
<1>1. Init => Slot!Init
  BY RequestsAssumption DEF Init, Slot!Init, slotHeld, slotVerdict, InLoop
<1>2. QED
  BY <1>1, SlotStep, Inductive, PTL DEF Spec, SlotPromise, Slot!Spec

=============================================================================
