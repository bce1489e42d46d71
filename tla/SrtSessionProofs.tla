-------------------------- MODULE SrtSessionProofs --------------------------
(***************************************************************************)
(* Safety of the SRT session and its refinement of SessionContract, for    *)
(* any number of sockets and sessions and stop() at any moment.            *)
(***************************************************************************)
EXTENDS SrtSession, TLAPS

(* The connector is on its way to label l, perhaps inside set_status.       *)
Bound(l) == pc = l \/ (pc = "mirror" /\ after = l)

(* The labels at which the connector may have a published handle. *)
Holding ==
  \/ pc \in {"check", "options", "attempt", "handshake", "report", "monitor",
             "lost", "close"}
  \/ pc = "mirror" /\ after \in {"monitor", "close"}

(* Where control thread and connector can be at the same time. *)
Phases ==
  /\ ctl = "idle" => pc = "none"
  /\ ctl = "mirror" => pc \in {"none", "ended"}
  /\ pc = "none" => ctl \notin {"waiting", "up"}
  /\ ctl \in {"waiting", "up"} => ~stop
  /\ ctl \in {"close", "join", "mirror"} => stop
  /\ ctl = "up" => opened
  /\ opened => ctl \in {"up", "stop", "close", "join"} /\ ever
  /\ calls # {} => ever
  /\ pc = "mirror" => after \in {"wait", "ended", "close", "monitor"}
  /\ Bound("close") => next \in {"ended", "wait", "top"}

(* A socket is open only between its creation and the connector's close. *)
Sockets ==
  /\ ~closedAgain
  /\ socket # 0 => Holding /\ socket \notin closed
  /\ (1 .. created) \ closed \subseteq {mine}
  /\ mine # 0 /\ mine \notin closed => pc = "publish" \/ socket = mine
  /\ pc = "publish" => mine # 0 /\ mine \notin closed
  /\ Holding => mine # 0
  /\ io => socket # 0

(* What the flags say of the connector. *)
Reports ==
  /\ established => Holding /\ pc \notin {"check", "options", "attempt"}
  /\ connected <=> (pc = "report" \/ Bound("monitor"))
  /\ connected => ever
  /\ Bound("monitor") => status = "Connected"
  /\ pc = "lost" => ever
  /\ pc = "lost" /\ established => stop
  /\ status = "Connected" =>
       /\ ever
       /\ \/ Bound("monitor") \/ pc = "lost"
          \/ /\ stop
             /\ pc \in {"wait", "top", "ended"} \/ (pc = "close" /\ next = "wait")
  /\ ctl = "mirror" => status = "Stopped"
  /\ status = "Stopped" => ctl \in {"mirror", "idle"}
  /\ pc = "mirror" /\ after = "ended" => status = "Fatal"
  /\ Bound("close") /\ next = "ended" => stop \/ status = "Fatal"

(* A connection that has carried media is not left without a report, unless *)
(* the session is about to end.                                             *)
Told ==
  /\ sentOn <= mine /\ toldFor <= mine
  /\ established /\ ~stop /\ ever /\ Bound("close") => toldFor = mine
  /\ sentOn # 0 => ever
  /\ sentOn # 0 =>
       \/ toldFor >= sentOn
       \/ /\ sentOn = mine
          /\ pc \in {"handshake", "report", "lost"} \/ Bound("monitor")
       \/ stop /\ (pc \in {"wait", "top"} \/ (pc = "close" /\ next = "wait"))
       \/ pc \in {"none", "ended"}

SInv == TypeOK /\ Phases /\ Sockets /\ Reports /\ Told

-----------------------------------------------------------------------------
(* The flags stay Boolean. *)
LEMMA FlagStep == SInv /\ Next => FlagTypes'
<1> SUFFICES ASSUME SInv, Next PROVE FlagTypes'
  OBVIOUS
<1> USE DEF SInv, ctlVars, sockVars, connVars, repVars, sendVars, TypeOK
<1>1. CASE Start \/ StartFails \/ StopRequested \/ Control
  BY <1>1, Zenon DEF Control, Start, StartFails, StopRequested,
     WorkerJoined, WaitConnected, StopFlag, StopClose, CloseCurrentSocket,
     SrtClose, ChannelIdle, StopJoin, Joined, StopMirror, FlagTypes
<1>2. CASE Connector
  BY <1>2, Zenon DEF Connector, LoopTop, LoopEnds, GoTo, ResolveFails,
     Report, Resolve, CreateFails, Create, Publish, CheckStop, OptionsFail,
     Options, AttemptFails, Retrying, Attempt, HandshakeFails, Handshake,
     Connected, MonitorEnds, Lost, LossIsExpected, Close, CloseSocket,
     SrtClose, ChannelIdle, Wait, Mirror, FlagTypes
<1>3. CASE Establish \/ Break \/ TransportBegin \/ TransportEnd
          \/ Send \/ SampleStats
          \/ \E c \in {"send", "sample"} : CallBegin(c)
  BY <1>3, Zenon DEF Establish, Break, TransportBegin, TransportEnd,
     CallBegin, Send, SampleStats, FlagTypes
<1> QED
  BY <1>1, <1>2, <1>3 DEF Next

(* Every variable keeps its type. *)
LEMMA TypeStep == SInv /\ Next => TypeOK'
<1> SUFFICES ASSUME SInv, Next PROVE TypeOK'
  OBVIOUS
<1> USE DEF SInv, ctlVars, sockVars, connVars, repVars, sendVars
<1>1. CASE Start
  BY <1>1, FlagStep DEF Start, TypeOK, Statuses, Labels, Phases
<1>2. CASE StartFails
  BY <1>2, FlagStep DEF StartFails, TypeOK, Statuses, Labels, Phases
<1>3. CASE StopRequested
  BY <1>3, FlagStep DEF StopRequested, WorkerJoined, TypeOK, Statuses,
     Labels, Phases
<1>4. CASE WaitConnected
  BY <1>4, FlagStep DEF WaitConnected, TypeOK, Statuses, Labels, Phases
<1>5. CASE StopFlag
  BY <1>5, FlagStep DEF StopFlag, TypeOK, Statuses, Labels, Phases
<1>6. CASE StopClose
  <2>0. socket # 0 => socket \in 1 .. created
    BY DEF TypeOK
  <2>1. closed' \in SUBSET (1 .. created) /\ socket' \in {0, mine}
    BY <1>6, <2>0 DEF StopClose, CloseCurrentSocket, SrtClose, ChannelIdle,
       TypeOK
  <2> QED
    BY <1>6, <2>1, FlagStep DEF StopClose, TypeOK
<1>7. CASE StopJoin
  BY <1>7, FlagStep DEF StopJoin, Joined, TypeOK, Statuses, Labels, Phases
<1>8. CASE StopMirror
  BY <1>8, FlagStep DEF StopMirror, TypeOK, Statuses, Labels, Phases
<1>9. CASE LoopTop
  BY <1>9, FlagStep DEF LoopTop, LoopEnds, GoTo, TypeOK, Statuses, Labels,
     Phases
<1>10. CASE ResolveFails
  BY <1>10, FlagStep DEF ResolveFails, Report, GoTo, TypeOK, Statuses,
     Labels, Phases
<1>11. CASE Resolve
  BY <1>11, FlagStep DEF Resolve, GoTo, TypeOK, Statuses, Labels, Phases
<1>12. CASE CreateFails
  BY <1>12, FlagStep DEF CreateFails, Report, TypeOK, Statuses, Labels,
     Phases
<1>13. CASE Create
  <2>1. created' \in Nat /\ mine' \in 0 .. created' /\ socket' = 0
    BY <1>13 DEF Create, TypeOK, Sockets, Holding
  <2>2. /\ 0 .. created \subseteq 0 .. created'
        /\ 1 .. created \subseteq 1 .. created'
    BY <1>13 DEF Create, TypeOK
  <2>3. closed' \in SUBSET (1 .. created')
    BY <1>13, <2>2 DEF Create, TypeOK
  <2>4. sentOn' \in 0 .. created' /\ toldFor' \in 0 .. created'
    BY <1>13, <2>2 DEF Create, TypeOK
  <2> QED
    BY <1>13, <2>1, <2>3, <2>4, FlagStep DEF Create, TypeOK, Labels
<1>14. CASE Publish
  BY <1>14, FlagStep DEF Publish, GoTo, TypeOK, Statuses, Labels, Phases
<1>15. CASE CheckStop
  BY <1>15, FlagStep DEF CheckStop, TypeOK, Statuses, Labels, Phases
<1>16. CASE OptionsFail
  BY <1>16, FlagStep DEF OptionsFail, Report, TypeOK, Statuses, Labels,
     Phases
<1>17. CASE Options
  BY <1>17, FlagStep DEF Options, GoTo, TypeOK, Statuses, Labels, Phases
<1>18. CASE AttemptFails
  BY <1>18, FlagStep DEF AttemptFails, Report, Retrying, TypeOK, Statuses,
     Labels, Phases
<1>19. CASE Attempt
  BY <1>19, FlagStep DEF Attempt, GoTo, TypeOK, Statuses, Labels, Phases
<1>20. CASE HandshakeFails
  BY <1>20, FlagStep DEF HandshakeFails, Report, Retrying, TypeOK, Statuses,
     Labels, Phases
<1>21. CASE Handshake
  BY <1>21, FlagStep DEF Handshake, TypeOK, Statuses, Labels, Phases
<1>22. CASE Connected
  BY <1>22, FlagStep DEF Connected, Report, TypeOK, Statuses, Labels, Phases
<1>23. CASE MonitorEnds
  BY <1>23, FlagStep DEF MonitorEnds, GoTo, TypeOK, Statuses, Labels, Phases
<1>24. CASE Lost
  BY <1>24, FlagStep DEF Lost, LossIsExpected, Report, TypeOK, Statuses,
     Labels, Phases
<1>25. CASE Close
  <2>0. socket # 0 => socket \in 1 .. created
    BY DEF TypeOK
  <2>1. closed' \in SUBSET (1 .. created) /\ socket' \in {0, mine}
    BY <1>25, <2>0 DEF Close, CloseSocket, SrtClose, ChannelIdle, GoTo, TypeOK
  <2> QED
    BY <1>25, <2>1, FlagStep DEF Close, GoTo, TypeOK
<1>26. CASE Wait
  BY <1>26, FlagStep DEF Wait, GoTo, TypeOK, Statuses, Labels, Phases
<1>27. CASE Mirror
  BY <1>27, FlagStep DEF Mirror, GoTo, TypeOK, Statuses, Labels, Phases
<1>28. CASE Establish
  BY <1>28, FlagStep DEF Establish, TypeOK, Statuses, Labels, Phases
<1>29. CASE Break
  BY <1>29, FlagStep DEF Break, TypeOK, Statuses, Labels, Phases
<1>30. CASE TransportBegin
  BY <1>30, FlagStep DEF TransportBegin, TypeOK, Statuses, Labels, Phases
<1>31. CASE TransportEnd
  BY <1>31, FlagStep DEF TransportEnd, TypeOK, Statuses, Labels, Phases
<1>32. CASE \E c \in {"send", "sample"} : CallBegin(c)
  BY <1>32, FlagStep DEF CallBegin, TypeOK, Statuses, Labels, Phases
<1>33. CASE Send
  BY <1>33, FlagStep DEF Send, TypeOK, Statuses, Labels, Phases
<1>34. CASE SampleStats
  BY <1>34, FlagStep DEF SampleStats, TypeOK, Statuses, Labels, Phases
<1> QED
  BY <1>1, <1>2, <1>3, <1>4, <1>5, <1>6, <1>7, <1>8, <1>9, <1>10, <1>11,
     <1>12, <1>13, <1>14, <1>15, <1>16, <1>17, <1>18, <1>19, <1>20, <1>21,
     <1>22, <1>23, <1>24, <1>25, <1>26, <1>27, <1>28, <1>29, <1>30, <1>31,
     <1>32, <1>33, <1>34 DEF Next, Control, Connector

(* Control thread and connector stay where they can be together. *)
LEMMA PhasesStep == SInv /\ Next => Phases'
<1> SUFFICES ASSUME SInv, Next PROVE Phases'
  OBVIOUS
<1> USE DEF SInv, ctlVars, sockVars, connVars, repVars, sendVars
<1>1. CASE Start
  BY <1>1 DEF Start, Phases, Bound, TypeOK, Labels, Reports
<1>2. CASE StartFails
  BY <1>2 DEF StartFails, Phases, Bound, TypeOK, Labels, Reports
<1>3. CASE StopRequested
  BY <1>3 DEF StopRequested, WorkerJoined, Phases, Bound, TypeOK, Labels,
     Reports
<1>4. CASE WaitConnected
  BY <1>4 DEF WaitConnected, Phases, Bound, TypeOK, Labels, Reports
<1>5. CASE StopFlag
  BY <1>5 DEF StopFlag, Phases, Bound, TypeOK, Labels, Reports
<1>6. CASE StopClose
  BY <1>6 DEF StopClose, CloseCurrentSocket, SrtClose, ChannelIdle, Phases,
     Bound, TypeOK, Labels, Reports
<1>7. CASE StopJoin
  BY <1>7 DEF StopJoin, Joined, Phases, Bound, TypeOK, Labels, Reports
<1>8. CASE StopMirror
  BY <1>8 DEF StopMirror, Phases, Bound, TypeOK, Labels, Reports
<1>9. CASE LoopTop
  BY <1>9 DEF LoopTop, LoopEnds, GoTo, Phases, Bound, TypeOK, Labels,
     Reports
<1>10. CASE ResolveFails
  BY <1>10 DEF ResolveFails, Report, GoTo, Phases, Bound, TypeOK, Labels,
     Reports
<1>11. CASE Resolve
  BY <1>11 DEF Resolve, GoTo, Phases, Bound, TypeOK, Labels, Reports
<1>12. CASE CreateFails
  BY <1>12 DEF CreateFails, Report, Phases, Bound, TypeOK, Labels, Reports
<1>13. CASE Create
  BY <1>13 DEF Create, Phases, Bound, TypeOK, Labels, Reports
<1>14. CASE Publish
  BY <1>14 DEF Publish, GoTo, Phases, Bound, TypeOK, Labels, Reports
<1>15. CASE CheckStop
  BY <1>15 DEF CheckStop, Phases, Bound, TypeOK, Labels, Reports
<1>16. CASE OptionsFail
  BY <1>16 DEF OptionsFail, Report, Phases, Bound, TypeOK, Labels, Reports
<1>17. CASE Options
  BY <1>17 DEF Options, GoTo, Phases, Bound, TypeOK, Labels, Reports
<1>18. CASE AttemptFails
  BY <1>18 DEF AttemptFails, Report, Retrying, Phases, Bound, TypeOK,
     Labels, Reports
<1>19. CASE Attempt
  BY <1>19 DEF Attempt, GoTo, Phases, Bound, TypeOK, Labels, Reports
<1>20. CASE HandshakeFails
  BY <1>20 DEF HandshakeFails, Report, Retrying, Phases, Bound, TypeOK,
     Labels, Reports
<1>21. CASE Handshake
  BY <1>21 DEF Handshake, Phases, Bound, TypeOK, Labels, Reports
<1>22. CASE Connected
  BY <1>22 DEF Connected, Report, Phases, Bound, TypeOK, Labels, Reports
<1>23. CASE MonitorEnds
  BY <1>23 DEF MonitorEnds, GoTo, Phases, Bound, TypeOK, Labels, Reports
<1>24. CASE Lost
  BY <1>24 DEF Lost, LossIsExpected, Report, Phases, Bound, TypeOK, Labels,
     Reports
<1>25. CASE Close
  BY <1>25 DEF Close, CloseSocket, SrtClose, ChannelIdle, GoTo, Phases,
     Bound, TypeOK, Labels, Reports
<1>26. CASE Wait
  BY <1>26 DEF Wait, GoTo, Phases, Bound, TypeOK, Labels, Reports
<1>27. CASE Mirror
  BY <1>27 DEF Mirror, GoTo, Phases, Bound, TypeOK, Labels, Reports
<1>28. CASE Establish
  BY <1>28 DEF Establish, Phases, Bound, TypeOK, Labels, Reports
<1>29. CASE Break
  BY <1>29 DEF Break, Phases, Bound, TypeOK, Labels, Reports
<1>30. CASE TransportBegin
  BY <1>30 DEF TransportBegin, Phases, Bound, TypeOK, Labels, Reports
<1>31. CASE TransportEnd
  BY <1>31 DEF TransportEnd, Phases, Bound, TypeOK, Labels, Reports
<1>32. CASE \E c \in {"send", "sample"} : CallBegin(c)
  BY <1>32 DEF CallBegin, Phases, Bound, TypeOK, Labels, Reports
<1>33. CASE Send
  BY <1>33 DEF Send, Phases, Bound, TypeOK, Labels, Reports
<1>34. CASE SampleStats
  BY <1>34 DEF SampleStats, Phases, Bound, TypeOK, Labels, Reports
<1> QED
  BY <1>1, <1>2, <1>3, <1>4, <1>5, <1>6, <1>7, <1>8, <1>9, <1>10, <1>11,
     <1>12, <1>13, <1>14, <1>15, <1>16, <1>17, <1>18, <1>19, <1>20, <1>21,
     <1>22, <1>23, <1>24, <1>25, <1>26, <1>27, <1>28, <1>29, <1>30, <1>31,
     <1>32, <1>33, <1>34 DEF Next, Control, Connector

(* No socket is lost, closed twice or used after its close. *)
LEMMA SocketsStep == SInv /\ Next => Sockets'
<1> SUFFICES ASSUME SInv, Next PROVE Sockets'
  OBVIOUS
<1> USE DEF SInv, ctlVars, sockVars, connVars, repVars, sendVars
<1>1. CASE Start
  BY <1>1 DEF Start, Sockets, Holding, TypeOK, Phases, Bound
<1>2. CASE StartFails
  BY <1>2 DEF StartFails, Sockets, Holding, TypeOK, Phases, Bound
<1>3. CASE StopRequested
  BY <1>3 DEF StopRequested, WorkerJoined, Sockets, Holding, TypeOK, Phases,
     Bound
<1>4. CASE WaitConnected
  BY <1>4 DEF WaitConnected, Sockets, Holding, TypeOK, Phases, Bound
<1>5. CASE StopFlag
  BY <1>5 DEF StopFlag, Sockets, Holding, TypeOK, Phases, Bound
<1>6. CASE StopClose
  BY <1>6 DEF StopClose, CloseCurrentSocket, SrtClose, ChannelIdle, Sockets,
     Holding, TypeOK, Phases, Bound
<1>7. CASE StopJoin
  BY <1>7 DEF StopJoin, Joined, Sockets, Holding, TypeOK, Phases, Bound
<1>8. CASE StopMirror
  BY <1>8 DEF StopMirror, Sockets, Holding, TypeOK, Phases, Bound
<1>9. CASE LoopTop
  BY <1>9 DEF LoopTop, LoopEnds, GoTo, Sockets, Holding, TypeOK, Phases,
     Bound
<1>10. CASE ResolveFails
  BY <1>10 DEF ResolveFails, Report, GoTo, Sockets, Holding, TypeOK, Phases,
     Bound
<1>11. CASE Resolve
  BY <1>11 DEF Resolve, GoTo, Sockets, Holding, TypeOK, Phases, Bound
<1>12. CASE CreateFails
  BY <1>12 DEF CreateFails, Report, Sockets, Holding, TypeOK, Phases, Bound
<1>13. CASE Create
  BY <1>13 DEF Create, Sockets, Holding, TypeOK, Phases, Bound
<1>14. CASE Publish
  BY <1>14 DEF Publish, GoTo, Sockets, Holding, TypeOK, Phases, Bound
<1>15. CASE CheckStop
  BY <1>15 DEF CheckStop, Sockets, Holding, TypeOK, Phases, Bound
<1>16. CASE OptionsFail
  BY <1>16 DEF OptionsFail, Report, Sockets, Holding, TypeOK, Phases, Bound
<1>17. CASE Options
  BY <1>17 DEF Options, GoTo, Sockets, Holding, TypeOK, Phases, Bound
<1>18. CASE AttemptFails
  BY <1>18 DEF AttemptFails, Report, Retrying, Sockets, Holding, TypeOK,
     Phases, Bound
<1>19. CASE Attempt
  BY <1>19 DEF Attempt, GoTo, Sockets, Holding, TypeOK, Phases, Bound
<1>20. CASE HandshakeFails
  BY <1>20 DEF HandshakeFails, Report, Retrying, Sockets, Holding, TypeOK,
     Phases, Bound
<1>21. CASE Handshake
  BY <1>21 DEF Handshake, Sockets, Holding, TypeOK, Phases, Bound
<1>22. CASE Connected
  BY <1>22 DEF Connected, Report, Sockets, Holding, TypeOK, Phases, Bound
<1>23. CASE MonitorEnds
  BY <1>23 DEF MonitorEnds, GoTo, Sockets, Holding, TypeOK, Phases, Bound
<1>24. CASE Lost
  BY <1>24 DEF Lost, LossIsExpected, Report, Sockets, Holding, TypeOK,
     Phases, Bound
<1>25. CASE Close
  BY <1>25 DEF Close, CloseSocket, SrtClose, ChannelIdle, GoTo, Sockets,
     Holding, TypeOK, Phases, Bound
<1>26. CASE Wait
  BY <1>26 DEF Wait, GoTo, Sockets, Holding, TypeOK, Phases, Bound
<1>27. CASE Mirror
  BY <1>27 DEF Mirror, GoTo, Sockets, Holding, TypeOK, Phases, Bound
<1>28. CASE Establish
  BY <1>28 DEF Establish, Sockets, Holding, TypeOK, Phases, Bound
<1>29. CASE Break
  BY <1>29 DEF Break, Sockets, Holding, TypeOK, Phases, Bound
<1>30. CASE TransportBegin
  BY <1>30 DEF TransportBegin, Sockets, Holding, TypeOK, Phases, Bound
<1>31. CASE TransportEnd
  BY <1>31 DEF TransportEnd, Sockets, Holding, TypeOK, Phases, Bound
<1>32. CASE \E c \in {"send", "sample"} : CallBegin(c)
  BY <1>32 DEF CallBegin, Sockets, Holding, TypeOK, Phases, Bound
<1>33. CASE Send
  BY <1>33 DEF Send, Sockets, Holding, TypeOK, Phases, Bound
<1>34. CASE SampleStats
  BY <1>34 DEF SampleStats, Sockets, Holding, TypeOK, Phases, Bound
<1> QED
  BY <1>1, <1>2, <1>3, <1>4, <1>5, <1>6, <1>7, <1>8, <1>9, <1>10, <1>11,
     <1>12, <1>13, <1>14, <1>15, <1>16, <1>17, <1>18, <1>19, <1>20, <1>21,
     <1>22, <1>23, <1>24, <1>25, <1>26, <1>27, <1>28, <1>29, <1>30, <1>31,
     <1>32, <1>33, <1>34 DEF Next, Control, Connector

(* The reports keep up with the connector. *)
LEMMA ReportsStep == SInv /\ Next => Reports'
<1> SUFFICES ASSUME SInv, Next PROVE Reports'
  OBVIOUS
<1> USE DEF SInv, ctlVars, sockVars, connVars, repVars, sendVars
<1>1. CASE Start
  BY <1>1 DEF Start, Reports, Holding, Bound, TypeOK, Phases
<1>2. CASE StartFails
  BY <1>2 DEF StartFails, Reports, Holding, Bound, TypeOK, Phases
<1>3. CASE StopRequested
  BY <1>3 DEF StopRequested, WorkerJoined, Reports, Holding, Bound, TypeOK,
     Phases
<1>4. CASE WaitConnected
  BY <1>4 DEF WaitConnected, Reports, Holding, Bound, TypeOK, Phases
<1>5. CASE StopFlag
  BY <1>5 DEF StopFlag, Reports, Holding, Bound, TypeOK, Phases
<1>6. CASE StopClose
  BY <1>6 DEF StopClose, CloseCurrentSocket, SrtClose, ChannelIdle, Reports,
     Holding, Bound, TypeOK, Phases
<1>7. CASE StopJoin
  BY <1>7 DEF StopJoin, Joined, Reports, Holding, Bound, TypeOK, Phases
<1>8. CASE StopMirror
  BY <1>8 DEF StopMirror, Reports, Holding, Bound, TypeOK, Phases
<1>9. CASE LoopTop
  BY <1>9 DEF LoopTop, LoopEnds, GoTo, Reports, Holding, Bound, TypeOK,
     Phases
<1>10. CASE ResolveFails
  BY <1>10 DEF ResolveFails, Report, GoTo, Reports, Holding, Bound, TypeOK,
     Phases
<1>11. CASE Resolve
  BY <1>11 DEF Resolve, GoTo, Reports, Holding, Bound, TypeOK, Phases
<1>12. CASE CreateFails
  BY <1>12 DEF CreateFails, Report, Reports, Holding, Bound, TypeOK, Phases
<1>13. CASE Create
  BY <1>13 DEF Create, Reports, Holding, Bound, TypeOK, Phases
<1>14. CASE Publish
  BY <1>14 DEF Publish, GoTo, Reports, Holding, Bound, TypeOK, Phases
<1>15. CASE CheckStop
  BY <1>15 DEF CheckStop, Reports, Holding, Bound, TypeOK, Phases
<1>16. CASE OptionsFail
  BY <1>16 DEF OptionsFail, Report, Reports, Holding, Bound, TypeOK, Phases
<1>17. CASE Options
  BY <1>17 DEF Options, GoTo, Reports, Holding, Bound, TypeOK, Phases
<1>18. CASE AttemptFails
  BY <1>18 DEF AttemptFails, Report, Retrying, Reports, Holding, Bound,
     TypeOK, Phases
<1>19. CASE Attempt
  BY <1>19 DEF Attempt, GoTo, Reports, Holding, Bound, TypeOK, Phases
<1>20. CASE HandshakeFails
  BY <1>20 DEF HandshakeFails, Report, Retrying, Reports, Holding, Bound,
     TypeOK, Phases
<1>21. CASE Handshake
  BY <1>21 DEF Handshake, Reports, Holding, Bound, TypeOK, Phases
<1>22. CASE Connected
  BY <1>22 DEF Connected, Report, Reports, Holding, Bound, TypeOK, Phases
<1>23. CASE MonitorEnds
  BY <1>23 DEF MonitorEnds, GoTo, Reports, Holding, Bound, TypeOK, Phases
<1>24. CASE Lost
  BY <1>24 DEF Lost, LossIsExpected, Report, Reports, Holding, Bound,
     TypeOK, Phases
<1>25. CASE Close
  BY <1>25 DEF Close, CloseSocket, SrtClose, ChannelIdle, GoTo, Reports,
     Holding, Bound, TypeOK, Phases
<1>26. CASE Wait
  BY <1>26 DEF Wait, GoTo, Reports, Holding, Bound, TypeOK, Phases
<1>27. CASE Mirror
  BY <1>27 DEF Mirror, GoTo, Reports, Holding, Bound, TypeOK, Phases
<1>28. CASE Establish
  BY <1>28 DEF Establish, Reports, Holding, Bound, TypeOK, Phases
<1>29. CASE Break
  BY <1>29 DEF Break, Reports, Holding, Bound, TypeOK, Phases
<1>30. CASE TransportBegin
  BY <1>30 DEF TransportBegin, Reports, Holding, Bound, TypeOK, Phases
<1>31. CASE TransportEnd
  BY <1>31 DEF TransportEnd, Reports, Holding, Bound, TypeOK, Phases
<1>32. CASE \E c \in {"send", "sample"} : CallBegin(c)
  <2> PICK c \in {"send", "sample"} : CallBegin(c)
    BY <1>32
  <2> QED
    BY DEF CallBegin, Reports, Holding, Bound
<1>33. CASE Send
  BY <1>33 DEF Send, Reports, Holding, Bound, TypeOK, Phases
<1>34. CASE SampleStats
  BY <1>34 DEF SampleStats, Reports, Holding, Bound, TypeOK, Phases
<1> QED
  BY <1>1, <1>2, <1>3, <1>4, <1>5, <1>6, <1>7, <1>8, <1>9, <1>10, <1>11,
     <1>12, <1>13, <1>14, <1>15, <1>16, <1>17, <1>18, <1>19, <1>20, <1>21,
     <1>22, <1>23, <1>24, <1>25, <1>26, <1>27, <1>28, <1>29, <1>30, <1>31,
     <1>32, <1>33, <1>34 DEF Next, Control, Connector

(* No connection that carried media is left without a report. *)
LEMMA ToldStep == SInv /\ Next => Told'
<1> SUFFICES ASSUME SInv, Next PROVE Told'
  OBVIOUS
<1> USE DEF SInv, ctlVars, sockVars, connVars, repVars, sendVars
<1>1. CASE Start
  BY <1>1 DEF Start, Told, Bound, Holding, TypeOK, Phases, Reports, Sockets
<1>2. CASE StartFails
  BY <1>2 DEF StartFails, Told, Bound, Holding, TypeOK, Phases, Reports,
     Sockets
<1>3. CASE StopRequested
  BY <1>3 DEF StopRequested, WorkerJoined, Told, Bound, Holding, TypeOK,
     Phases, Reports, Sockets
<1>4. CASE WaitConnected
  BY <1>4 DEF WaitConnected, Told, Bound, Holding, TypeOK, Phases, Reports,
     Sockets
<1>5. CASE StopFlag
  BY <1>5 DEF StopFlag, Told, Bound, Holding, TypeOK, Phases, Reports,
     Sockets
<1>6. CASE StopClose
  BY <1>6 DEF StopClose, CloseCurrentSocket, SrtClose, ChannelIdle, Told,
     Bound, Holding, TypeOK, Phases, Reports, Sockets
<1>7. CASE StopJoin
  BY <1>7 DEF StopJoin, Joined, Told, Bound, Holding, TypeOK, Phases,
     Reports, Sockets
<1>8. CASE StopMirror
  BY <1>8 DEF StopMirror, Told, Bound, Holding, TypeOK, Phases, Reports,
     Sockets
<1>9. CASE LoopTop
  BY <1>9 DEF LoopTop, LoopEnds, GoTo, Told, Bound, Holding, TypeOK, Phases,
     Reports, Sockets
<1>10. CASE ResolveFails
  BY <1>10 DEF ResolveFails, Report, GoTo, Told, Bound, Holding, TypeOK,
     Phases, Reports, Sockets
<1>11. CASE Resolve
  BY <1>11 DEF Resolve, GoTo, Told, Bound, Holding, TypeOK, Phases, Reports,
     Sockets
<1>12. CASE CreateFails
  BY <1>12 DEF CreateFails, Report, Told, Bound, Holding, TypeOK, Phases,
     Reports, Sockets
<1>13. CASE Create
  BY <1>13 DEF Create, Told, Bound, Holding, TypeOK, Phases, Reports,
     Sockets
<1>14. CASE Publish
  BY <1>14 DEF Publish, GoTo, Told, Bound, Holding, TypeOK, Phases, Reports,
     Sockets
<1>15. CASE CheckStop
  BY <1>15 DEF CheckStop, Told, Bound, Holding, TypeOK, Phases, Reports,
     Sockets
<1>16. CASE OptionsFail
  BY <1>16 DEF OptionsFail, Report, Told, Bound, Holding, TypeOK, Phases,
     Reports, Sockets
<1>17. CASE Options
  BY <1>17 DEF Options, GoTo, Told, Bound, Holding, TypeOK, Phases, Reports,
     Sockets
<1>18. CASE AttemptFails
  BY <1>18 DEF AttemptFails, Report, Retrying, Told, Bound, Holding, TypeOK,
     Phases, Reports, Sockets
<1>19. CASE Attempt
  BY <1>19 DEF Attempt, GoTo, Told, Bound, Holding, TypeOK, Phases, Reports,
     Sockets
<1>20. CASE HandshakeFails
  <2>1. sentOn' <= mine' /\ toldFor' <= mine'
    BY <1>20 DEF HandshakeFails, Report, TypeOK, Told
  <2>2. /\ pc' = "mirror" /\ after' = "close"
        /\ ever' = ever /\ mine' = mine /\ sentOn' = sentOn
    BY <1>20 DEF HandshakeFails, Report
  <2>3. ever => toldFor' = mine
    BY <1>20 DEF HandshakeFails, Report, Retrying
  <2>4. sentOn # 0 => toldFor' >= sentOn'
    BY <2>1, <2>2, <2>3 DEF Told, TypeOK
  <2> QED
    BY <2>1, <2>2, <2>3, <2>4 DEF Told, Bound
<1>21. CASE Handshake
  BY <1>21 DEF Handshake, Told, Bound, Holding, TypeOK, Phases, Reports,
     Sockets
<1>22. CASE Connected
  BY <1>22 DEF Connected, Report, Told, Bound, Holding, TypeOK, Phases,
     Reports, Sockets
<1>23. CASE MonitorEnds
  BY <1>23 DEF MonitorEnds, GoTo, Told, Bound, Holding, TypeOK, Phases,
     Reports, Sockets
<1>24. CASE Lost
  <2>1. CASE ~stop
    <3>1. /\ pc' = "mirror" /\ after' = "close" /\ toldFor' = mine
          /\ ever' = ever /\ mine' = mine /\ sentOn' = sentOn
      BY <1>24, <2>1 DEF Lost, LossIsExpected, Report
    <3> QED
      BY <3>1 DEF Told, TypeOK
  <2>2. CASE stop
    <3>1. /\ pc' = "close" /\ next' = "wait" /\ stop' = stop
          /\ ever' = ever /\ mine' = mine /\ sentOn' = sentOn /\ toldFor' = toldFor
      BY <1>24, <2>2 DEF Lost, LossIsExpected
    <3> QED
      BY <2>2, <3>1 DEF Told
  <2> QED
    BY <2>1, <2>2
<1>25. CASE Close
  BY <1>25 DEF Close, CloseSocket, SrtClose, ChannelIdle, GoTo, Told, Bound,
     Holding, TypeOK, Phases, Reports, Sockets
<1>26. CASE Wait
  BY <1>26 DEF Wait, GoTo, Told, Bound, Holding, TypeOK, Phases, Reports,
     Sockets
<1>27. CASE Mirror
  BY <1>27 DEF Mirror, GoTo, Told, Bound, Holding, TypeOK, Phases, Reports,
     Sockets
<1>28. CASE Establish
  BY <1>28 DEF Establish, Told, Bound, Holding, TypeOK, Phases, Reports,
     Sockets
<1>29. CASE Break
  BY <1>29 DEF Break, Told, Bound, Holding, TypeOK, Phases, Reports, Sockets
<1>30. CASE TransportBegin
  BY <1>30 DEF TransportBegin, Told, Bound, Holding, TypeOK, Phases,
     Reports, Sockets
<1>31. CASE TransportEnd
  BY <1>31 DEF TransportEnd, Told, Bound, Holding, TypeOK, Phases, Reports,
     Sockets
<1>32. CASE \E c \in {"send", "sample"} : CallBegin(c)
  BY <1>32 DEF CallBegin, Told, Bound, Holding, TypeOK, Phases, Reports,
     Sockets
<1>33. CASE Send
  BY <1>33 DEF Send, Told, Bound, Holding, TypeOK, Phases, Reports, Sockets
<1>34. CASE SampleStats
  BY <1>34 DEF SampleStats, Told, Bound, Holding, TypeOK, Phases, Reports,
     Sockets
<1> QED
  BY <1>1, <1>2, <1>3, <1>4, <1>5, <1>6, <1>7, <1>8, <1>9, <1>10, <1>11,
     <1>12, <1>13, <1>14, <1>15, <1>16, <1>17, <1>18, <1>19, <1>20, <1>21,
     <1>22, <1>23, <1>24, <1>25, <1>26, <1>27, <1>28, <1>29, <1>30, <1>31,
     <1>32, <1>33, <1>34 DEF Next, Control, Connector

-----------------------------------------------------------------------------
(* The invariant holds initially. *)
LEMMA InitSInv == Init => SInv
<1> SUFFICES ASSUME Init PROVE SInv
  OBVIOUS
<1> USE DEF Init
<1>1. FlagTypes
  BY Zenon DEF FlagTypes
<1>2. TypeOK
  BY <1>1 DEF TypeOK, Statuses, Labels
<1>3. Phases /\ Sockets
  BY DEF Phases, Sockets, Bound, Holding
<1>4. Reports /\ Told
  BY DEF Reports, Told, Bound, Holding
<1> QED
  BY <1>2, <1>3, <1>4 DEF SInv

(* Every step preserves the invariant. *)
LEMMA NextSInv == SInv /\ [Next]_vars => SInv'
<1>1. CASE Next
  BY <1>1, TypeStep, PhasesStep, SocketsStep, ReportsStep, ToldStep
     DEF SInv
<1>2. CASE UNCHANGED vars
  BY <1>2 DEF vars, SInv, TypeOK, FlagTypes, Phases, Sockets, Reports, Told,
     Bound, Holding
<1> QED
  BY <1>1, <1>2

(* SInv is an invariant of the session. *)
LEMMA SInvInvariant == Spec => []SInv
<1>1. Init => SInv
  BY InitSInv
<1>2. SInv /\ [Next]_vars => SInv'
  BY NextSInv
<1> QED
  BY <1>1, <1>2, PTL DEF Spec

-----------------------------------------------------------------------------
(* Every variable keeps its type, the published handle is the connector's,  *)
(* and no send outlives the joining of the worker.                          *)
THEOREM SessionTypeCorrect == Spec => []TypeOK
<1>1. SInv => TypeOK
  BY DEF SInv
<1> QED
  BY <1>1, SInvInvariant, PTL

(* stop() and the connector never pass one handle to srt_close twice, and   *)
(* the handle that send_ts and sample_stats find is never a closed one.     *)
THEOREM ClosedOnceCorrect == Spec => []ClosedOnce
<1>1. SInv => ClosedOnce
  BY DEF SInv, Sockets, ClosedOnce
<1> QED
  BY <1>1, SInvInvariant, PTL

(* Wherever stop() meets the connector, every socket that was created has   *)
(* been closed when the session is gone.                                    *)
THEOREM NoLeakCorrect == Spec => []NoSocketLeak
<1>1. SInv => NoSocketLeak
  <2> SUFFICES ASSUME SInv PROVE NoSocketLeak
    OBVIOUS
  <2>1. (1 .. created) \ closed \subseteq {mine}
    BY DEF SInv, Sockets
  <2>2. ASSUME ctl = "idle" PROVE closed = 1 .. created
    <3>1. mine = 0 \/ mine \in closed
      BY <2>2 DEF SInv, Phases, Sockets, TypeOK, Holding
    <3>2. mine \notin (1 .. created) \ closed
      BY <3>1
    <3> QED
      BY <2>1, <3>2 DEF SInv, TypeOK
  <2> QED
    BY <2>1, <2>2 DEF NoSocketLeak
<1> QED
  BY <1>1, SInvInvariant, PTL

(* The connector ends only by stop() or after Fatal, and Fatal is reported  *)
(* only where a socket cannot be created or set up - which the code does    *)
(* also to an established stream - never for what the network does; and an  *)
(* established stream is not reported as Connecting again.                  *)
THEOREM ReconnectCorrect == Spec => ReconnectsIndefinitely
<1> DEFINE Persists ==
  /\ pc # "ended" /\ pc' = "ended" => stop \/ status = "Fatal"
  /\ status # "Fatal" /\ status' = "Fatal" =>
       pc \in {"create", "options"} \/ ctl = "idle"
  /\ ever /\ status # "Connecting" /\ status' = "Connecting" =>
       sessions' # sessions
<1>1. SInv /\ [Next]_vars => [Persists]_vars
  <2> SUFFICES ASSUME SInv, Next PROVE Persists
    OBVIOUS
  <2> USE DEF SInv, ctlVars, sockVars, connVars, repVars, sendVars
  <2>1. CASE Start \/ StartFails \/ StopRequested \/ Control
    BY <2>1 DEF Control, Start, StartFails, StopRequested, WorkerJoined,
       WaitConnected, StopFlag, StopClose, CloseCurrentSocket, SrtClose,
       ChannelIdle, StopJoin, Joined, StopMirror, TypeOK
  <2>2. CASE Connector
    BY <2>2 DEF Connector, LoopTop, LoopEnds, GoTo, ResolveFails, Report,
       Resolve, CreateFails, Create, Publish, CheckStop, OptionsFail, Options,
       AttemptFails, Retrying, Attempt, HandshakeFails, Handshake, Connected,
       MonitorEnds, Lost, LossIsExpected, Close, CloseSocket, SrtClose,
       ChannelIdle, Wait, Mirror, Reports, Bound
  <2>3. CASE Establish \/ Break \/ TransportBegin \/ TransportEnd
            \/ Send \/ SampleStats
            \/ \E c \in {"send", "sample"} : CallBegin(c)
    BY <2>3 DEF Establish, Break, TransportBegin, TransportEnd, CallBegin,
       Send, SampleStats
  <2> QED
    BY <2>1, <2>2, <2>3 DEF Next
<1> QED
  BY <1>1, SInvInvariant, PTL DEF Spec, ReconnectsIndefinitely

(* Impl may be freed after stop(): libsrt is in no callback by then, and    *)
(* never in one for a closed socket.                                        *)
THEOREM CallbacksEndCorrect == Spec => []CallbacksEnd
<1>1. SInv => CallbacksEnd
  BY DEF SInv, Phases, Sockets, TypeOK, Holding, CallbacksEnd
<1> QED
  BY <1>1, SInvInvariant, PTL

(* A send that began before a loss succeeds only while the contract allows  *)
(* it: never between the loss and its report.                               *)
THEOREM SendsCorrect == Spec => []SendsWhenAllowed
<1>1. SInv => SendsWhenAllowed
  <2> SUFFICES ASSUME SInv, "send" \in calls, established
               PROVE  Contract!MaySucceed
    BY DEF SendsWhenAllowed
  <2>1. opened /\ ~stop
    BY DEF SInv, TypeOK, Phases
  <2>2. ~connected => status # "Connected"
    BY <2>1 DEF SInv, Reports, Bound
  <2> QED
    BY <2>1, <2>2 DEF Contract!MaySucceed, Visible
<1> QED
  BY <1>1, SInvInvariant, PTL

-----------------------------------------------------------------------------
(* After stop() has reported Stopped no late report of the connector        *)
(* reaches the output or the engine.                                        *)
THEOREM StoppedCorrect == Spec => StoppedIsFinal
<1> DEFINE Final ==
      status = "Stopped" =>
        \/ status' = "Stopped" /\ engineState' \in {engineState, "Stopped"}
        \/ sessions' = sessions + 1
<1>1. SInv /\ [Next]_vars => [Final]_vars
  <2> SUFFICES ASSUME SInv, Next, status = "Stopped" PROVE Final
    BY DEF vars
  <2>1. ctl \in {"mirror", "idle"} /\ pc \in {"none", "ended"}
    BY DEF SInv, Phases, Reports
  <2>2. ~Connector
    BY <2>1 DEF Connector, LoopTop, ResolveFails, Resolve, CreateFails, Create,
       Publish, CheckStop, OptionsFail, Options, AttemptFails, Attempt,
       HandshakeFails, Handshake, Connected, MonitorEnds, Lost, Close, Wait,
       Mirror
  <2> QED
    BY <2>1, <2>2 DEF Next, Start, StartFails, StopRequested, Control,
       WaitConnected, StopFlag, StopClose, StopJoin, StopMirror, Establish,
       Break, TransportBegin, TransportEnd, CallBegin, Send, SampleStats,
       repVars
<1> QED
  BY <1>1, SInvInvariant, PTL DEF Spec, StoppedIsFinal

(* If two datagrams of a session go out on different sockets, Reconnecting  *)
(* was reported in between, although send_ts may act on a stale connected_. *)
THEOREM ToldCorrect == Spec => ToldBeforeResume
<1> DEFINE Resumed ==
      sentOn # 0 /\ sentOn' \notin {0, sentOn} => toldFor >= sentOn
<1>1. SInv /\ [Next]_vars => [Resumed]_vars
  <2> SUFFICES ASSUME SInv, Next, sentOn # 0, sentOn' \notin {0, sentOn}
               PROVE  toldFor >= sentOn
    BY DEF vars
  <2>1. Send /\ sentOn' = socket
    BY DEF Next, Start, StartFails, StopRequested, Control, WaitConnected,
       StopFlag, StopClose, StopJoin, StopMirror, Connector, LoopTop,
       ResolveFails, Resolve, CreateFails, Create, Publish, CheckStop,
       OptionsFail, Options, AttemptFails, Attempt, HandshakeFails, Handshake,
       Connected, MonitorEnds, Lost, Close, Wait, Mirror, Establish, Break,
       TransportBegin, TransportEnd, CallBegin, Send, SampleStats, sendVars
  <2>2. sentOn # mine /\ ~stop /\ pc \notin {"none", "ended"}
    BY <2>1 DEF Send, SInv, TypeOK, Phases, Sockets, Holding
  <2> QED
    BY <2>2 DEF SInv, Told
<1> QED
  BY <1>1, SInvInvariant, PTL DEF Spec, ToldBeforeResume

(* The session implements its contract: each of its steps is invisible to   *)
(* the output or a step of the contract.  A loss is visible as such until   *)
(* Reconnecting is reported, only then can the session resume, and stop()   *)
(* ends it outside of any report.                                           *)
THEOREM ContractCorrect == Spec => KeepsContract
<1>1. Init => Contract!Init
  BY DEF Init, Contract!Init, Visible
<1>2. SInv /\ [Next]_vars => [Contract!Next]_Visible
  <2> SUFFICES ASSUME SInv, [Next]_vars PROVE [Contract!Next]_Visible
    OBVIOUS
  <2> USE DEF ctlVars, sockVars, connVars, repVars, sendVars, Contract!Next,
          Contract!Open, Contract!Drop, Contract!Report, Contract!Reported,
          Contract!Resume, Contract!Close
  <2>1. CASE Start
    BY <2>1 DEF Start, SInv, Phases, Reports, Bound, Visible
  <2>2. CASE StartFails
    BY <2>2 DEF StartFails, SInv, Phases, Reports, Bound, Visible
  <2>3. CASE StopRequested
    BY <2>3 DEF StopRequested, WorkerJoined, SInv, Phases, Reports, Bound,
       Visible
  <2>4. CASE WaitConnected
    BY <2>4 DEF WaitConnected, SInv, Phases, Reports, Bound, Visible
  <2>5. CASE StopFlag
    BY <2>5 DEF StopFlag, SInv, Phases, Reports, Bound, Visible
  <2>6. CASE StopClose
    BY <2>6 DEF StopClose, CloseCurrentSocket, SrtClose, ChannelIdle,
       SInv, Phases, Reports, Bound, Visible
  <2>7. CASE StopJoin
    BY <2>7 DEF StopJoin, Joined, SInv, Phases, Reports, Bound, Visible
  <2>8. CASE StopMirror
    BY <2>8 DEF StopMirror, SInv, Phases, Reports, Bound, Visible
  <2>9. CASE LoopTop
    BY <2>9 DEF LoopTop, LoopEnds, GoTo, SInv, Phases, Reports, Bound,
       Visible
  <2>10. CASE ResolveFails
    BY <2>10 DEF ResolveFails, Report, GoTo, SInv, Phases, Reports, Bound,
       Visible
  <2>11. CASE Resolve
    BY <2>11 DEF Resolve, GoTo, SInv, Phases, Reports, Bound, Visible
  <2>12. CASE CreateFails
    BY <2>12 DEF CreateFails, Report, SInv, Phases, Reports, Bound,
       Visible
  <2>13. CASE Create
    BY <2>13 DEF Create, SInv, Phases, Reports, Bound, Visible
  <2>14. CASE Publish
    BY <2>14 DEF Publish, GoTo, SInv, Phases, Reports, Bound, Visible
  <2>15. CASE CheckStop
    BY <2>15 DEF CheckStop, SInv, Phases, Reports, Bound, Visible
  <2>16. CASE OptionsFail
    BY <2>16 DEF OptionsFail, Report, SInv, Phases, Reports, Bound,
       Visible
  <2>17. CASE Options
    BY <2>17 DEF Options, GoTo, SInv, Phases, Reports, Bound, Visible
  <2>18. CASE AttemptFails
    BY <2>18 DEF AttemptFails, Report, Retrying, SInv, Phases, Reports,
       Bound, Visible
  <2>19. CASE Attempt
    BY <2>19 DEF Attempt, GoTo, SInv, Phases, Reports, Bound, Visible
  <2>20. CASE HandshakeFails
    BY <2>20 DEF HandshakeFails, Report, Retrying, SInv, Phases, Reports,
       Bound, Visible
  <2>21. CASE Handshake
    BY <2>21 DEF Handshake, SInv, Phases, Reports, Bound, Visible
  <2>22. CASE Connected
    BY <2>22 DEF Connected, Report, SInv, Phases, Reports, Bound, Visible
  <2>23. CASE MonitorEnds
    BY <2>23 DEF MonitorEnds, GoTo, SInv, Phases, Reports, Bound, Visible
  <2>24. CASE Lost
    BY <2>24 DEF Lost, LossIsExpected, Report, SInv, Phases, Reports,
       Bound, Visible
  <2>25. CASE Close
    BY <2>25 DEF Close, CloseSocket, SrtClose, ChannelIdle, GoTo, SInv,
       Phases, Reports, Bound, Visible
  <2>26. CASE Wait
    BY <2>26 DEF Wait, GoTo, SInv, Phases, Reports, Bound, Visible
  <2>27. CASE Mirror
    BY <2>27 DEF Mirror, GoTo, SInv, Phases, Reports, Bound, Visible
  <2>28. CASE Establish
    BY <2>28 DEF Establish, SInv, Phases, Reports, Bound, Visible
  <2>29. CASE Break
    BY <2>29 DEF Break, SInv, Phases, Reports, Bound, Visible
  <2>30. CASE TransportBegin
    BY <2>30 DEF TransportBegin, SInv, Phases, Reports, Bound, Visible
  <2>31. CASE TransportEnd
    BY <2>31 DEF TransportEnd, SInv, Phases, Reports, Bound, Visible
  <2>32. CASE \E c \in {"send", "sample"} : CallBegin(c)
    BY <2>32 DEF CallBegin, SInv, Phases, Reports, Bound, Visible
  <2>33. CASE Send
    BY <2>33 DEF Send, SInv, Phases, Reports, Bound, Visible
  <2>34. CASE SampleStats
    BY <2>34 DEF SampleStats, SInv, Phases, Reports, Bound, Visible
  <2>35. CASE UNCHANGED vars
    BY <2>35 DEF vars, Visible
  <2> QED
    BY <2>1, <2>2, <2>3, <2>4, <2>5, <2>6, <2>7, <2>8, <2>9, <2>10, <2>11,
       <2>12, <2>13, <2>14, <2>15, <2>16, <2>17, <2>18, <2>19, <2>20,
       <2>21, <2>22, <2>23, <2>24, <2>25, <2>26, <2>27, <2>28, <2>29,
       <2>30, <2>31, <2>32, <2>33, <2>34, <2>35 DEF Next, Control,
       Connector
<1> QED
  BY <1>1, <1>2, SInvInvariant, PTL DEF Spec, KeepsContract, Contract!Spec
=============================================================================
