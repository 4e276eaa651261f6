---------------------------- MODULE NodesProofs ----------------------------
(***************************************************************************)
(* Proofs about module Nodes, for any finite set of requests, any list of    *)
(* nodes and any number of slots, losses and restarts.  Three things are     *)
(* inductive together with the types: which exchange belongs to which place   *)
(* of a request, what a request whose effect took place may still do, and     *)
(* how far a restart can reach while nothing was lost.                        *)
(***************************************************************************)
EXTENDS Nodes, FiniteSetTheorems, SequenceTheorems, TLAPS

Types ==
    /\ at \in [Request -> {"idle", "slot", "node", "wait", "login", "data", "done"}]
    /\ todo \in [Request -> Seq(Node)]
    /\ \A r \in Request : r \in Holding <=> todo[r] # <<>>
    /\ retried \in [Request -> BOOLEAN]
    /\ refused \in [Request -> Node \cup {NULL}]
    /\ result \in [Request -> {"none", "ok", "error", "401", "refused", "unreachable"}]
    /\ active \in Node
    /\ session \in [Node -> {"none", "live", "dead"}]
    /\ faults \in Nat /\ restarts \in Nat
    /\ carried \in [Request -> [Node -> Nat]]

\* A request has an exchange with its node while it is logging in or asking, and
\* then one that fits.
Exchanges ==
    /\ net \in [Request -> Message \cup {NULL}]
    /\ \A r \in Request : at[r] \notin {"login", "data"} => net[r] = NULL
    /\ \A r \in Request : at[r] = "login" =>
          /\ net[r] \in Message
          /\ net[r].to = "server" => net[r].what = "login"
          /\ net[r].to = "client" => net[r].what \in {"session", "refused", "lost"}
    /\ \A r \in Request : at[r] = "data" =>
          /\ net[r] \in Message
          /\ net[r].to = "server" => net[r].what = "data"
          /\ net[r].to = "client" => net[r].what \in {"ok", "error", "401", "lost"}

\* Logins in progress are at different nodes, those that are pending.
Logins ==
    /\ \A r \in Request : at[r] = "login" => Here(r) \in pending
    /\ \A n \in pending : \E r \in Request : at[r] = "login" /\ Here(r) = n
    /\ \A r \in Request, q \in Request :
          at[r] = "login" /\ at[q] = "login" /\ Here(r) = Here(q) => r = q

Slots == inflight = Cardinality(Holding) /\ inflight <= MAX_CONCURRENT_REQUESTS

\* A request that was carried out has got or is about to get its answer.
Effect(r) ==
    /\ (\E n \in Node : carried[r][n] # 0) =>
          \/ at[r] = "done"
          \/ at[r] = "data" /\ net[r].to = "client" /\ net[r].what \in {"ok", "error"}
    /\ \A n \in Node, m \in Node :
          carried[r][n] <= 1 /\ (n # m => carried[r][n] + carried[r][m] <= 1)
Effects == \A r \in Request \ lost : Effect(r)

LEMMA HeadTail ==
    ASSUME NEW s \in Seq(Node), s # <<>>
    PROVE  Head(s) \in Node /\ Tail(s) \in Seq(Node) /\ (Len(s) > 1 => Tail(s) # <<>>)
<1>1. Head(s) \in Node /\ Tail(s) \in Seq(Node) /\ Len(Tail(s)) = Len(s) - 1
  BY HeadTailProperties
<1>2. Len(s) \in Nat
  BY LenProperties
<1>3. Tail(s) = <<>> => Len(Tail(s)) = 0
  BY <1>1, EmptySeq
<1> QED BY <1>1, <1>2, <1>3

LEMMA NodeOrder ==
    ASSUME active \in Node
    PROVE  _node_order \in Seq(Node) /\ _node_order # <<>> /\ Head(_node_order) = active
<1> USE NodesAssumption
<1>1. _node_order \in [1..Nodes -> Node]
  BY DEF _node_order, Node
<1>2. _node_order \in Seq(Node) /\ Len(_node_order) = Nodes
  BY <1>1
<1>3. _node_order # <<>>
  BY <1>2
<1> QED BY <1>2, <1>3 DEF _node_order, Node

-----------------------------------------------------------------------------
(* What a step of a request amounts to: it asks its node, logs in, waits for the *)
(* login of another one, turns to its next node, or ends.                       *)

Ongoing(r) == UNCHANGED <<todo, refused, result, inflight, active>>
LeavesLogin(r) == pending' = IF at[r] = "login" THEN pending \ {Here(r)} ELSE pending

Asks(r) ==
    /\ Goes(r, "data") /\ Ongoing(r) /\ LeavesLogin(r)
    /\ \E s \in {"none", "live", "dead"} : Sends(r, [to |-> "server", what |-> "data", session |-> s])

LogsIn(r) ==
    /\ Goes(r, "login") /\ Ongoing(r)
    /\ at[r] # "login" /\ Here(r) \notin pending /\ pending' = pending \cup {Here(r)}
    /\ Sends(r, [to |-> "server", what |-> "login", session |-> "none"])

Waits(r) ==
    /\ Goes(r, "wait") /\ Ongoing(r)
    /\ at[r] # "login" /\ pending' = pending
    /\ Sends(r, NULL)

TurnsOn(r) ==
    /\ Goes(r, "node") /\ LeavesLogin(r) /\ Sends(r, NULL)
    /\ Len(todo[r]) > 1 /\ todo' = [todo EXCEPT ![r] = Tail(@)]
    /\ refused' \in [Request -> Node \cup {NULL}]
    /\ UNCHANGED <<result, inflight, active>>

Ends(r) ==
    /\ Goes(r, "done") /\ LeavesLogin(r) /\ Sends(r, NULL)
    /\ todo' = [todo EXCEPT ![r] = <<>>]
    /\ refused' \in [Request -> Node \cup {NULL}]
    /\ result' \in [Request -> {"none", "ok", "error", "401", "refused", "unreachable"}]
    /\ inflight' = inflight - 1 /\ active' \in Node

Turn(r) ==
    /\ at[r] \in {"node", "wait", "login", "data"}
    /\ at[r] = "data" => net[r].to = "client" /\ (net[r].what \in {"ok", "error"} => Ends(r))
    /\ Asks(r) \/ LogsIn(r) \/ Waits(r) \/ TurnsOn(r) \/ Ends(r)
    /\ retried' \in [Request -> BOOLEAN]
    /\ session' \in [Node -> {"none", "live", "dead"}]
    /\ UNCHANGED history

LEMMA NextNodeTurns ==
    ASSUME Types, Exchanges, NEW r \in Holding, NEW b \in BOOLEAN, NextNode(r, b),
           LeavesLogin(r), Sends(r, NULL)
    PROVE  (TurnsOn(r) \/ Ends(r)) /\ retried' \in [Request -> BOOLEAN]
<1>1. r \in Request /\ Here(r) \in Node
  BY HeadTail DEF Types, Here, Holding
<1> QED BY <1>1 DEF Types, NextNode, Returns, TurnsOn, Ends, Goes, Sends

LEMMA AnswerTurns ==
    ASSUME Types, Exchanges, NEW r \in Holding, NEW g \in {"ok", "error", "401"}, Answer(r, g),
           LeavesLogin(r), Sends(r, NULL)
    PROVE  Ends(r) /\ retried' \in [Request -> BOOLEAN]
<1>1. r \in Request /\ Here(r) \in Node
  BY HeadTail DEF Types, Here, Holding
<1> QED BY <1>1 DEF Types, Answer, Returns, Ends, Goes, Sends

LEMMA Turns ==
    ASSUME Types, Exchanges, NEW r \in Request,
           _ensure_login(r) \/ Waited(r) \/ LoggedIn(r) \/ Answered(r)
    PROVE  Turn(r)
<1>0. ASSUME r \in Holding PROVE Here(r) \in Node /\ session[Here(r)] \in {"none", "live",
"dead"}
  BY <1>0, HeadTail DEF Types, Here, Holding
<1> USE DEF Holding
<1>1. CASE _ensure_login(r)
  BY <1>0, <1>1 DEF _ensure_login, Ask, LoginOrWait, SendLogin, Turn, Asks, LogsIn, Waits,
                    Ongoing, LeavesLogin, Types, Goes
<1>2. CASE Waited(r)
  <2>1. net' = net => Sends(r, NULL)
    BY <1>2 DEF Waited, Exchanges, Sends
  <2>2. LeavesLogin(r)
    BY <1>2 DEF Waited, LeavesLogin
  <2>3. CASE session[Here(r)] # "none"
    BY <1>0, <1>2, <2>2, <2>3 DEF Waited, Ask, Turn, Asks, Ongoing, Types, Goes
  <2>4. CASE session[Here(r)] = "none"
    BY <1>2, <2>1, <2>2, <2>4, NextNodeTurns, AnswerTurns DEF Waited, LoginFailed, Turn, Types
  <2> QED BY <2>3, <2>4
<1>3. CASE LoggedIn(r)
  <2>1. LeavesLogin(r)
    BY <1>3 DEF LoggedIn, LeavesLogin
  <2>2. CASE Got(r) = "session"
    <3>1. net[r].session \in {"none", "live", "dead"}
      BY <1>3 DEF LoggedIn, Exchanges, Message
    <3> QED BY <1>0, <1>3, <2>1, <2>2, <3>1 DEF LoggedIn, Turn, Asks, Ongoing, Types
  <2>3. CASE Got(r) # "session"
    BY <1>3, <2>1, <2>3, NextNodeTurns, AnswerTurns DEF LoggedIn, LoginFailed, Turn, Types
  <2> QED BY <2>2, <2>3
<1>4. CASE Answered(r)
  <2>1. net[r].to = "client" /\ Got(r) \in {"ok", "error", "401", "lost"}
    BY <1>4 DEF Answered, Back, Got, Exchanges
  <2>2. CASE Got(r) = "401" /\ ~retried[r]
    BY <1>0, <1>4, <2>1, <2>2
    DEF Answered, AskAgain, LoginOrWait, SendLogin, Turn, LogsIn, Waits, Ongoing, Types, Got,
        Goes
  <2>3. CASE ~(Got(r) = "401" /\ ~retried[r])
    <3>1. LeavesLogin(r) /\ Sends(r, NULL) /\ Settle(r)
      BY <1>4, <2>3 DEF Answered, LeavesLogin
    <3> QED
      BY <1>4, <2>1, <2>3, <3>1, NextNodeTurns, AnswerTurns
      DEF Answered, Settle, Turn, Types, Got
  <2> QED BY <2>2, <2>3
<1> QED BY <1>1, <1>2, <1>3, <1>4

\* The others stay where they are.
LEMMA OthersStay ==
    ASSUME Types, Exchanges, NEW r \in Request, Turn(r)
    PROVE  /\ \A q \in Request \ {r} : at'[q] = at[q] /\ todo'[q] = todo[q] /\ net'[q] = net[q]
           /\ UNCHANGED <<faults, restarts, carried, lost>>
<1> USE DEF Turn, Types, Exchanges, Goes, Sends, history
<1>1. CASE Asks(r)
  BY <1>1 DEF Asks, Ongoing
<1>2. CASE LogsIn(r)
  BY <1>2 DEF LogsIn, Ongoing
<1>3. CASE Waits(r)
  BY <1>3 DEF Waits, Ongoing
<1>4. CASE TurnsOn(r)
  BY <1>4 DEF TurnsOn
<1>5. CASE Ends(r)
  BY <1>5 DEF Ends
<1> QED BY <1>1, <1>2, <1>3, <1>4, <1>5

LEMMA LoginsLeft ==
    ASSUME Logins, NEW r \in Request, at'[r] # "login", LeavesLogin(r),
           \A q \in Request \ {r} : at'[q] = at[q] /\ todo'[q] = todo[q]
    PROVE  Logins'
BY DEF Logins, LeavesLogin, Here

-----------------------------------------------------------------------------
(* Every step keeps the invariants                                             *)

\* Every step keeps the types.
LEMMA TypesStep ==
    ASSUME Types, Exchanges, [Next]_vars
    PROVE  Types'
<1> USE HeadTail DEF Types, Exchanges, Message, vars, client, history, Goes, Sends, Holding
<1>1. ASSUME NEW r \in Request, Start(r) PROVE Types'
  BY <1>1 DEF Start
<1>2. ASSUME NEW r \in Request, _acquire_slot(r) PROVE Types'
  BY <1>2, NodeOrder DEF _acquire_slot
<1>3. ASSUME NEW r \in Request, Turn(r) PROVE Types'
  <2> USE <1>3 DEF Turn
  <2>1. CASE Asks(r)
    BY <2>1 DEF Asks, Ongoing, LeavesLogin
  <2>2. CASE LogsIn(r)
    BY <2>2 DEF LogsIn, Ongoing
  <2>3. CASE Waits(r)
    BY <2>3 DEF Waits, Ongoing
  <2>4. CASE TurnsOn(r)
    BY <2>4 DEF TurnsOn, LeavesLogin
  <2>5. CASE Ends(r)
    <3>1. todo' \in [Request -> Seq(Node)] /\ todo'[r] = <<>>
      BY <2>5, EmptySeq DEF Ends
    <3>2. \A q \in Request \ {r} : todo'[q] = todo[q] /\ at'[q] = at[q]
      BY <2>5 DEF Ends
    <3>3. at'[r] = "done"
      BY <2>5 DEF Ends
    <3>4. \A q \in Request : q \in Holding' <=> todo'[q] # <<>>
      BY <3>1, <3>2, <3>3
    <3> QED BY <2>5, <3>1, <3>4 DEF Ends
  <2> QED BY <2>1, <2>2, <2>3, <2>4, <2>5
<1>4. ASSUME NEW r \in Request, Serve(r) PROVE Types'
  <2>1. Here(r) \in Node
    <3>1. r \in Holding
      BY <1>4 DEF Serve, Out
    <3> QED BY <3>1, HeadTail DEF Here
  <2>2. OneMore(carried[r], Here(r)) \in [Node -> Nat]
    BY <2>1 DEF OneMore
  <2>3. carried' = carried \/ carried' = [carried EXCEPT ![r] = OneMore(carried[r], Here(r))]
    BY <1>4 DEF Serve
  <2>5. carried' \in [Request -> [Node -> Nat]]
    BY <2>2, <2>3
  <2>4. UNCHANGED <<client, faults, restarts, lost>>
    BY <1>4 DEF Serve
  <2> QED BY <2>4, <2>5
<1>5. ASSUME NEW r \in Request, Lose(r) PROVE Types'
  BY <1>5 DEF Lose, Reply, Back, Got, Fault
<1>6. ASSUME NEW n \in Node, Restart(n) PROVE Types'
  BY <1>6 DEF Restart, Dead, Fault
<1>7. CASE UNCHANGED vars
  BY <1>7
<1> QED
  BY <1>1, <1>2, <1>3, <1>4, <1>5, <1>6, <1>7, Turns
  DEF Next, Step, Frame

\* Every step keeps the exchanges.
LEMMA ExchangesStep ==
    ASSUME Types, Exchanges, [Next]_vars
    PROVE  Exchanges'
<1> USE DEF Types, Exchanges, Message, vars, client, history, Goes, Sends, Holding
<1>1. ASSUME NEW r \in Request, Start(r) PROVE Exchanges'
  BY <1>1 DEF Start
<1>2. ASSUME NEW r \in Request, _acquire_slot(r) PROVE Exchanges'
  BY <1>2, NodeOrder DEF _acquire_slot
<1>3. ASSUME NEW r \in Request, Turn(r) PROVE Exchanges'
  <2> USE <1>3 DEF Turn
  <2>1. CASE Asks(r)
    BY <2>1 DEF Asks, Ongoing, LeavesLogin
  <2>2. CASE LogsIn(r)
    BY <2>2 DEF LogsIn, Ongoing
  <2>3. CASE Waits(r)
    BY <2>3 DEF Waits, Ongoing
  <2>4. CASE TurnsOn(r)
    BY <2>4 DEF TurnsOn, LeavesLogin
  <2>5. CASE Ends(r)
    <3>1. /\ at' = [at EXCEPT ![r] = "done"] /\ net' = [net EXCEPT ![r] = NULL]
      BY <2>5 DEF Ends
    <3> QED BY <3>1
  <2> QED BY <2>1, <2>2, <2>3, <2>4, <2>5
<1>4. ASSUME NEW r \in Request, Serve(r) PROVE Exchanges'
  <2>1. /\ at' = at
        /\ \E m \in Message : net' = [net EXCEPT ![r] = m] /\ m.to = "client" /\
              m.what \in IF at[r] = "login" THEN {"session", "refused"} ELSE {"ok", "error", "401"}
    BY <1>4 DEF Serve, Out, Reply
  <2>2. at[r] \in {"login", "data"}
    BY <1>4 DEF Serve, Out
  <2> QED BY <2>1, <2>2
<1>5. ASSUME NEW r \in Request, Lose(r) PROVE Exchanges'
  BY <1>5 DEF Lose, Reply, Back, Got, Fault
<1>6. ASSUME NEW n \in Node, Restart(n) PROVE Exchanges'
  BY <1>6 DEF Restart, Dead, Fault
<1>7. CASE UNCHANGED vars
  BY <1>7
<1> QED
  BY <1>1, <1>2, <1>3, <1>4, <1>5, <1>6, <1>7, Turns
  DEF Next, Step, Frame

\* Every step keeps the logins.
LEMMA LoginsStep ==
    ASSUME Types, Exchanges, Logins, [Next]_vars
    PROVE  Logins'
<1> USE DEF Types, Exchanges, vars, client, history, Goes, Sends, Holding
<1>1. ASSUME NEW r \in Request, Start(r) PROVE Logins'
  <2>1. \A q \in Request : at'[q] = "login" <=> at[q] = "login"
    BY <1>1 DEF Start
  <2> QED BY <1>1, <2>1 DEF Start, Logins, Here
<1>2. ASSUME NEW r \in Request, _acquire_slot(r) PROVE Logins'
  <2>1. /\ \A q \in Request \ {r} : at'[q] = at[q] /\ todo'[q] = todo[q]
        /\ at'[r] # "login" /\ LeavesLogin(r)
    BY <1>2 DEF _acquire_slot, LeavesLogin
  <2> QED BY <2>1, LoginsLeft
<1>3. ASSUME NEW r \in Request, Turn(r) PROVE Logins'
  <2>1. CASE LogsIn(r)
    <3>1. /\ \A q \in Request \ {r} : at'[q] = at[q]
          /\ at'[r] = "login" /\ at[r] # "login" /\ todo' = todo
          /\ Here(r) \notin pending /\ pending' = pending \cup {Here(r)}
      BY <2>1 DEF LogsIn, Ongoing
    <3>2. \A q \in Request : at'[q] = "login" <=> at[q] = "login" \/ q = r
      BY <3>1
    <3>3. \A q \in Request : at[q] = "login" => Head(todo[q]) # Head(todo[r])
      BY <3>1 DEF Logins, Here
    <3>4. \A p \in Request, q \in Request :
             at'[p] = "login" /\ at'[q] = "login" /\ Head(todo[p]) = Head(todo[q]) => p = q
      BY <3>2, <3>3 DEF Logins, Here
    <3> QED BY <3>1, <3>2, <3>4 DEF Logins, Here
  <2>2. CASE ~LogsIn(r)
    <3>1. at'[r] # "login" /\ LeavesLogin(r)
      BY <1>3, <2>2 DEF Turn, Asks, Waits, TurnsOn, Ends, LeavesLogin
    <3> QED BY <1>3, <3>1, OthersStay, LoginsLeft
  <2> QED BY <2>1, <2>2
<1>4. ASSUME NEW r \in Request, Serve(r) PROVE Logins'
  BY <1>4 DEF Serve, Logins, Here
<1>5. ASSUME NEW r \in Request, Lose(r) PROVE Logins'
  BY <1>5 DEF Lose, Logins, Here
<1>6. ASSUME NEW n \in Node, Restart(n) PROVE Logins'
  BY <1>6 DEF Restart, Logins, Here
<1>7. CASE UNCHANGED vars
  BY <1>7 DEF Logins, Here
<1> QED
  BY <1>1, <1>2, <1>3, <1>4, <1>5, <1>6, <1>7, Turns
  DEF Next, Step, Frame

\* Every step keeps count of the slots.
LEMMA SlotsStep ==
    ASSUME Types, Exchanges, Slots, [Next]_vars
    PROVE  Slots'
<1>0. IsFiniteSet(Holding) /\ Cardinality(Holding) \in Nat
  BY RequestAssumption, FS_Subset, FS_CardinalityType DEF Holding
<1> USE SlotsAssumption DEF Types, Slots, vars, client, history, Goes, Sends
<1>1. ASSUME NEW r \in Request, Start(r) PROVE Slots'
  <2>1. Holding' = Holding
    BY <1>1 DEF Start, Holding
  <2> QED BY <1>1, <2>1 DEF Start
<1>2. ASSUME NEW r \in Request, _acquire_slot(r) PROVE Slots'
  <2>1. Holding' = Holding \cup {r} /\ r \notin Holding
    BY <1>2 DEF _acquire_slot, Holding
  <2>2. Cardinality(Holding \cup {r}) = Cardinality(Holding) + 1
    BY <2>1, <1>0, FS_AddElement
  <2>3. inflight < MAX_CONCURRENT_REQUESTS /\ inflight' = inflight + 1
    BY <1>2 DEF _acquire_slot
  <2> QED BY <1>0, <2>1, <2>2, <2>3
<1>3. ASSUME NEW r \in Request, Turn(r) PROVE Slots'
  <2>1. r \in Holding
    BY <1>3 DEF Turn, Holding
  <2>2. CASE Ends(r)
    <3>1. Holding' = Holding \ {r}
      BY <2>2 DEF Ends, Holding
    <3>2. Cardinality(Holding \ {r}) = Cardinality(Holding) - 1
      BY <2>1, <1>0, FS_RemoveElement
    <3>3. inflight' = inflight - 1
      BY <2>2 DEF Ends
    <3> QED BY <1>0, <3>1, <3>2, <3>3
  <2>3. CASE ~Ends(r)
    <3>1. Holding' = Holding /\ inflight' = inflight
      BY <1>3, <2>1, <2>3 DEF Turn, Asks, LogsIn, Waits, TurnsOn, Ongoing, Holding
    <3> QED BY <3>1
  <2> QED BY <2>2, <2>3
<1>4. ASSUME NEW r \in Request, Serve(r) PROVE Slots'
  <2>1. Holding' = Holding
    BY <1>4 DEF Serve, Holding
  <2> QED BY <1>4, <2>1 DEF Serve
<1>5. ASSUME NEW r \in Request, Lose(r) PROVE Slots'
  <2>1. Holding' = Holding
    BY <1>5 DEF Lose, Holding
  <2> QED BY <1>5, <2>1 DEF Lose
<1>6. ASSUME NEW n \in Node, Restart(n) PROVE Slots'
  <2>1. Holding' = Holding
    BY <1>6 DEF Restart, Holding
  <2> QED BY <1>6, <2>1 DEF Restart
<1>7. CASE UNCHANGED vars
  <2>1. Holding' = Holding
    BY <1>7 DEF Holding
  <2> QED BY <1>7, <2>1
<1> QED
  BY <1>1, <1>2, <1>3, <1>4, <1>5, <1>6, <1>7, Turns
  DEF Next, Step, Frame

\* Every step keeps what an effect allows.
LEMMA EffectsStep ==
    ASSUME Types, Exchanges, Effects, [Next]_vars
    PROVE  Effects'
<1> USE DEF Types, Exchanges, Message, Effects, Effect, vars, client, history, Goes, Sends,
Holding
<1>1. ASSUME NEW r \in Request, Start(r) PROVE Effects'
  BY <1>1 DEF Start
<1>2. ASSUME NEW r \in Request, _acquire_slot(r) PROVE Effects'
  BY <1>2, NodeOrder DEF _acquire_slot
<1>3. ASSUME NEW r \in Request, Turn(r) PROVE Effects'
  <2>1. r \notin lost /\ (\E n \in Node : carried[r][n] # 0) => at'[r] = "done"
    BY <1>3 DEF Turn, Ends
  <2>2. /\ \A q \in Request \ {r} : at'[q] = at[q] /\ net'[q] = net[q]
        /\ carried' = carried /\ lost' = lost
    BY <1>3, OthersStay
  <2>3. \A q \in Request \ lost : Effect(q)'
    <3> SUFFICES ASSUME NEW q \in Request \ lost PROVE Effect(q)'
      OBVIOUS
    <3>1. Effect(q) /\ carried'[q] = carried[q]
      BY <2>2
    <3>2. CASE q = r
      BY <3>1, <3>2, <2>1
    <3>3. CASE q # r
      BY <3>1, <3>3, <2>2
    <3> QED BY <3>2, <3>3
  <2> QED BY <2>2, <2>3
<1>4. ASSUME NEW r \in Request, Serve(r) PROVE Effects'
  <2>0. r \in Holding
    BY <1>4 DEF Serve, Out
  <2>1. Here(r) \in Node
    BY <2>0, HeadTail DEF Here
  <2>2. \A q \in Request \ {r} : net'[q] = net[q] /\ carried'[q] = carried[q]
    BY <1>4 DEF Serve
  <2>3. CASE carried' = carried
    <3>1. ~(net[r].to = "client")
      BY <1>4 DEF Serve, Out
    <3>2. \A q \in Request \ lost : Effect(q)'
      <4> SUFFICES ASSUME NEW q \in Request \ lost PROVE Effect(q)'
        OBVIOUS
      <4>1. Effect(q) /\ at' = at /\ lost' = lost
        BY <1>4 DEF Serve
      <4>2. CASE q = r
        BY <2>3, <3>1, <4>1, <4>2
      <4>3. CASE q # r
        BY <2>2, <4>1, <4>3
      <4> QED BY <4>2, <4>3
    <3> QED BY <1>4, <3>2 DEF Serve
  <2>4. CASE carried' # carried
    <3>0. /\ net[r] # NULL /\ net[r].to = "server" /\ net[r].what = "data"
          /\ \/ net' = [net EXCEPT ![r] = [to |-> "client", what |-> "ok", session |-> "none"]]
             \/ net' = [net EXCEPT ![r] = [to |-> "client", what |-> "error", session |-> "none"]]
          /\ carried' = [carried EXCEPT ![r] = OneMore(carried[r], Here(r))]
          /\ at' = at /\ lost' = lost
      BY <1>4, <2>4 DEF Serve, Out, Reply
    <3>1. at[r] = "data"
      BY <3>0
    <3>2. net'[r].to = "client" /\ net'[r].what \in {"ok", "error"}
      BY <3>0
    <3>3. carried'[r] = OneMore(carried[r], Here(r))
      BY <3>0
    <3>4. \A q \in Request \ lost : Effect(q)'
      <4> SUFFICES ASSUME NEW q \in Request \ lost PROVE Effect(q)'
        OBVIOUS
      <4>1. CASE q = r
        <5>1. \A n \in Node : carried[r][n] = 0
          BY <3>0, <3>1, <4>1
        <5>2. \A n \in Node : carried'[r][n] = 0 \/ (n = Here(r) /\ carried'[r][n] = 1)
          BY <3>3, <5>1, <2>1 DEF OneMore
        <5>3. \A n \in Node, m \in Node :
                carried'[r][n] <= 1 /\ (n # m => carried'[r][n] + carried'[r][m] <= 1)
          BY <5>2
        <5>4. at'[r] = "data" /\ net'[r].to = "client" /\ net'[r].what \in {"ok", "error"}
          BY <3>0, <3>1, <3>2
        <5> QED BY <4>1, <5>3, <5>4
      <4>2. CASE q # r
        <5>1. Effect(q)
          OBVIOUS
        <5> QED BY <3>0, <4>2, <5>1, <2>2
      <4> QED BY <4>1, <4>2
    <3> QED BY <3>0, <3>4
  <2> QED BY <2>3, <2>4
<1>5. ASSUME NEW r \in Request, Lose(r) PROVE Effects'
  BY <1>5 DEF Lose, Reply, Back, Got, Fault
<1>6. ASSUME NEW n \in Node, Restart(n) PROVE Effects'
  BY <1>6 DEF Restart, Dead, Fault
<1>7. CASE UNCHANGED vars
  BY <1>7
<1> QED
  BY <1>1, <1>2, <1>3, <1>4, <1>5, <1>6, <1>7, Turns
  DEF Next, Step, Frame

-----------------------------------------------------------------------------
(* Nothing was lost and at most one node restarted                             *)

Quiet == faults + restarts = MaxFaults /\ restarts <= 1 /\ 1 \notin Refusing

\* All that goes on is at the first node, where no login is under way while there is
\* a session.  Before the restart nothing is dead; after it, whoever asks a second
\* time does so in a session of after it, since a login that was under way when the
\* node restarted means that nobody had a session to ask in before.
FirstNode ==
    /\ active = 1
    /\ \A r \in Holding : Here(r) = 1
    /\ \A r \in Request : result[r] \in {"none", "ok", "error"}

WaitersMet == \A r \in Request : at[r] = "wait" => 1 \in pending \/ session[1] # "none"

LoginsAlone ==
    \A r \in Request : at[r] = "login" =>
        /\ session[1] = "none"
        /\ net[r].to = "client" => net[r].what = "session" /\ net[r].session \in {"live", "dead"}
        /\ net[r].to = "client" /\ net[r].session = "dead" =>
              \A q \in Request : at[q] # "data" /\ ~retried[q]

Asking ==
    \A r \in Request : at[r] = "data" =>
        /\ net[r].to = "server" => net[r].session \in {"live", "dead"}
        /\ net[r].to = "client" => net[r].what # "lost"
        /\ retried[r] => IF net[r].to = "server" THEN net[r].session = "live"
                                                ELSE net[r].what # "401"

RetriedLive == \A r \in Request : retried[r] => session[1] # "dead"

NothingDeadYet ==
    restarts = 0 =>
        /\ session[1] # "dead"
        /\ \A r \in Request :
              /\ ~retried[r]
              /\ at[r] \in {"login", "data"} => net[r].session # "dead"
              /\ at[r] = "data" => session[1] = "live" /\ net[r].what # "401"

Undisturbed ==
    FirstNode /\ WaitersMet /\ LoginsAlone /\ Asking /\ RetriedLive /\ NothingDeadYet

Calm == faults + restarts <= MaxFaults /\ (Quiet => Undisturbed)

LEMMA CalmStep ==
    ASSUME Types, Exchanges, Logins, Calm, [Next]_vars
    PROVE  Calm'
<1>0. 1 \in Node
  BY NodesAssumption DEF Node
<1>1. ASSUME NEW r \in Request, Start(r) PROVE Calm'
  BY <1>1
  DEF Start, Types, Calm, Quiet, Undisturbed, FirstNode, WaitersMet, LoginsAlone, Asking,
      RetriedLive, NothingDeadYet, Holding, Here, Goes, history
<1>2. ASSUME NEW r \in Request, _acquire_slot(r) PROVE Calm'
  <2>1. _node_order \in Seq(Node) /\ Head(_node_order) = active
    BY NodeOrder DEF Types
  <2> QED
    BY <1>2, <2>1
    DEF _acquire_slot, Types, Calm, Quiet, Undisturbed, FirstNode, WaitersMet, LoginsAlone,
        Asking, RetriedLive, NothingDeadYet, Holding, Here, Goes, history
<1>3. ASSUME NEW r \in Request, _ensure_login(r) PROVE Calm'
  <2> SUFFICES ASSUME Quiet PROVE Undisturbed'
    BY <1>3 DEF _ensure_login, Calm, Quiet, history
  <2>1. Undisturbed /\ Here(r) = 1 /\ at[r] = "node"
    BY <1>3
    DEF _ensure_login, Calm, Undisturbed, FirstNode, WaitersMet, LoginsAlone, Asking,
        RetriedLive, NothingDeadYet, Holding
  <2>2. CASE session[1] # "none"
    <3>1. Ask(r) /\ pending' = pending
      BY <1>3, <2>1, <2>2 DEF _ensure_login
    <3> QED
      BY <1>0, <1>3, <2>1, <2>2, <3>1
      DEF _ensure_login, Ask, Types, Exchanges, Undisturbed, FirstNode, WaitersMet,
          LoginsAlone, Asking, RetriedLive, NothingDeadYet, Holding, Here, Goes, Sends, history
  <2>3. CASE session[1] = "none"
    <3>1. LoginOrWait(r)
      BY <1>3, <2>1, <2>3 DEF _ensure_login
    <3>9. /\ \/ at' = [at EXCEPT ![r] = "wait"] /\ net' = [net EXCEPT ![r] = NULL]
                /\ pending' = pending /\ 1 \in pending
             \/ /\ at' = [at EXCEPT ![r] = "login"] /\ pending' = pending \cup {1}
                /\ net' = [net EXCEPT ![r] = [to |-> "server", what |-> "login", session |-> "none"]]
          /\ UNCHANGED <<todo, retried, result, active, session, restarts>>
      BY <1>3, <2>1, <3>1
      DEF _ensure_login, LoginOrWait, SendLogin, Goes, Sends, history
    <3>0. /\ \A q \in Request \ {r} : at'[q] = at[q] /\ net'[q] = net[q]
          /\ at'[r] = "wait" \/ (at'[r] = "login" /\ net'[r].to = "server")
          /\ retried' = retried /\ session' = session
      BY <3>9 DEF Types, Exchanges
    <3>2. FirstNode'
      BY <3>9, <2>1, <2>3 DEF FirstNode, Undisturbed, Types, Exchanges, Holding, Here
    <3>3. WaitersMet'
      BY <3>9, <2>1, <2>3 DEF WaitersMet, Undisturbed, Types, Exchanges, Holding, Here
    <3>4. LoginsAlone'
      BY <3>0, <2>1, <2>3 DEF LoginsAlone, Undisturbed
    <3>5. Asking'
      BY <3>9, <2>1, <2>3 DEF Asking, Undisturbed, Types, Exchanges, Holding, Here
    <3>6. RetriedLive'
      BY <3>9, <2>1, <2>3 DEF RetriedLive, Undisturbed, Types, Exchanges, Holding, Here
    <3>7. NothingDeadYet'
      BY <3>9, <2>1, <2>3 DEF NothingDeadYet, Undisturbed, Types, Exchanges, Holding, Here
    <3> QED BY <3>2, <3>3, <3>4, <3>5, <3>6, <3>7 DEF Undisturbed
  <2> QED BY <2>2, <2>3
<1>4. ASSUME NEW r \in Request, Waited(r) PROVE Calm'
  <2> SUFFICES ASSUME Quiet PROVE Undisturbed'
    BY <1>4 DEF Waited, Calm, Quiet, history
  <2>1. Undisturbed /\ Here(r) = 1 /\ at[r] = "wait" /\ session[1] # "none"
    BY <1>4
    DEF Waited, Calm, Undisturbed, FirstNode, WaitersMet, LoginsAlone, Asking, RetriedLive,
        NothingDeadYet, Holding
  <2>9. /\ at' = [at EXCEPT ![r] = "data"]
        /\ net' = [net EXCEPT ![r] = [to |-> "server", what |-> "data", session |-> session[1]]]
        /\ UNCHANGED <<todo, retried, result, active, session, restarts, pending>>
    BY <1>4, <2>1 DEF Waited, Ask, Goes, Sends, history
  <2>2. FirstNode'
    BY <2>9, <2>1, <1>0 DEF FirstNode, Undisturbed, Types, Exchanges, Holding, Here
  <2>3. WaitersMet'
    BY <2>9, <2>1, <1>0 DEF WaitersMet, Undisturbed, Types, Exchanges, Holding, Here
  <2>4. LoginsAlone'
    BY <2>9, <2>1, <1>0 DEF LoginsAlone, Undisturbed, Types, Exchanges, Holding, Here
  <2>5. Asking'
    BY <2>9, <2>1, <1>0 DEF Asking, RetriedLive, Undisturbed, Types, Exchanges, Holding, Here
  <2>6. RetriedLive'
    BY <2>9, <2>1, <1>0 DEF RetriedLive, Undisturbed, Types, Exchanges, Holding, Here
  <2>7. NothingDeadYet'
    BY <2>9, <2>1, <1>0 DEF NothingDeadYet, Undisturbed, Types, Exchanges, Holding, Here
  <2> QED BY <2>2, <2>3, <2>4, <2>5, <2>6, <2>7 DEF Undisturbed
<1>5. ASSUME NEW r \in Request, LoggedIn(r) PROVE Calm'
  <2> SUFFICES ASSUME Quiet PROVE Undisturbed'
    BY <1>5 DEF LoggedIn, Calm, Quiet, history
  <2>1. Undisturbed /\ Here(r) = 1 /\ at[r] = "login" /\ Got(r) = "session"
    BY <1>5
    DEF LoggedIn, Back, Got, Calm, Undisturbed, FirstNode, WaitersMet, LoginsAlone, Asking,
        RetriedLive, NothingDeadYet, Holding, Exchanges, Message
  <2>2. \A q \in Request : at[q] = "login" => q = r
    BY <2>1 DEF Undisturbed, FirstNode, Logins, Holding
  <2>9. /\ at' = [at EXCEPT ![r] = "data"]
        /\ net' = [net EXCEPT ![r] = [to |-> "server", what |-> "data", session |-> net[r].session]]
        /\ session' = [session EXCEPT ![1] = net[r].session]
        /\ net[r].to = "client" /\ net[r].session \in {"live", "dead"}
        /\ UNCHANGED <<todo, retried, result, active, restarts>>
    BY <1>5, <2>1 DEF LoggedIn, Back, Goes, Sends, history, Undisturbed, LoginsAlone
  <2>0. /\ \A q \in Request \ {r} : at'[q] = at[q] /\ net'[q] = net[q]
        /\ at'[r] = "data" /\ net'[r].to = "server" /\ net'[r].session = net[r].session
        /\ net[r].session \in {"live", "dead"}
        /\ retried' = retried /\ session'[1] = net[r].session
    BY <2>9, <1>0 DEF Types, Exchanges
  <2>3. FirstNode'
    BY <2>9, <2>1, <2>2, <1>0 DEF FirstNode, Undisturbed, Types, Exchanges, Holding, Here
  <2>4. WaitersMet'
    BY <2>9, <2>1, <2>2, <1>0 DEF WaitersMet, Undisturbed, Types, Exchanges, Holding, Here
  <2>5. LoginsAlone'
    BY <2>9, <2>1, <2>2, <1>0 DEF LoginsAlone, Undisturbed, Types, Exchanges, Holding, Here
  <2>6. Asking'
    BY <2>0, <2>1, <1>5 DEF Asking, LoginsAlone, Undisturbed, LoggedIn, Back
  <2>7. RetriedLive'
    BY <2>0, <2>1, <1>5 DEF RetriedLive, LoginsAlone, Undisturbed, LoggedIn, Back
  <2>8. NothingDeadYet'
    BY <2>9, <2>1, <2>2, <1>0 DEF NothingDeadYet, Undisturbed, Types, Exchanges, Holding, Here
  <2> QED BY <2>3, <2>4, <2>5, <2>6, <2>7, <2>8 DEF Undisturbed
<1>6. ASSUME NEW r \in Request, Answered(r) PROVE Calm'
  <2> SUFFICES ASSUME Quiet PROVE Undisturbed'
    BY <1>6 DEF Answered, Calm, Quiet, history
  <2>1. Undisturbed /\ Here(r) = 1 /\ at[r] = "data" /\ Got(r) \in {"ok", "error", "401"}
    BY <1>6
    DEF Answered, Back, Got, Calm, Undisturbed, FirstNode, WaitersMet, LoginsAlone, Asking,
        RetriedLive, NothingDeadYet, Holding, Exchanges, Message
  <2>2. CASE Got(r) = "401"
    <3>1. AskAgain(r)
      BY <1>6, <2>1, <2>2 DEF Answered, Undisturbed, Asking, Back, Got
    <3>9. /\ \/ at' = [at EXCEPT ![r] = "wait"] /\ net' = [net EXCEPT ![r] = NULL]
                /\ pending' = pending /\ 1 \in pending
             \/ /\ at' = [at EXCEPT ![r] = "login"] /\ pending' = pending \cup {1}
                /\ net' = [net EXCEPT ![r] = [to |-> "server", what |-> "login", session |-> "none"]]
          /\ session' = [session EXCEPT ![1] = "none"] /\ retried' = [retried EXCEPT ![r] = TRUE]
          /\ UNCHANGED <<todo, result, active, restarts>>
      BY <1>6, <2>1, <3>1
      DEF Answered, AskAgain, LoginOrWait, SendLogin, Goes, Sends, history
    <3>8. restarts # 0 /\ (\A q \in Request : at[q] = "login" /\ net[q].to = "client" =>
                                net[q].session # "dead")
      BY <1>6, <2>1, <2>2 DEF Answered, Got, Undisturbed, NothingDeadYet, LoginsAlone
    <3>7. \A q \in Request : at[q] = "login" => session[1] = "none" /\ 1 \in pending
      BY <2>1 DEF Undisturbed, LoginsAlone, FirstNode, Holding, Logins
    <3>0. /\ \A q \in Request \ {r} : at'[q] = at[q] /\ net'[q] = net[q]
          /\ at'[r] = "wait" \/ (at'[r] = "login" /\ net'[r].to = "server")
          /\ session'[1] = "none"
      BY <3>9, <1>0 DEF Types, Exchanges
    <3>F. FirstNode'
      BY <3>9, <2>1, <3>8, <3>7, <1>0
      DEF FirstNode, Undisturbed, Types, Exchanges, Holding, Here
    <3>2. WaitersMet'
      BY <3>9, <2>1, <3>8, <3>7, <1>0
      DEF WaitersMet, Undisturbed, Types, Exchanges, Holding, Here
    <3>3. LoginsAlone'
      BY <3>0, <2>1, <3>8, <3>7 DEF LoginsAlone, Undisturbed
    <3>4. Asking'
      BY <3>9, <2>1, <3>8, <3>7, <1>0 DEF Asking, Undisturbed, Types, Exchanges, Holding, Here
    <3>5. RetriedLive'
      BY <3>9, <2>1, <3>8, <3>7, <1>0
      DEF RetriedLive, Undisturbed, Types, Exchanges, Holding, Here
    <3>6. NothingDeadYet'
      BY <3>9, <2>1, <3>8, <3>7, <1>0
      DEF NothingDeadYet, Undisturbed, Types, Exchanges, Holding, Here
    <3> QED BY <3>F, <3>2, <3>3, <3>4, <3>5, <3>6 DEF Undisturbed
  <2>3. CASE Got(r) # "401"
    <3>1. Answer(r, Got(r)) /\ Sends(r, NULL) /\ UNCHANGED <<session, pending, history>>
      BY <1>6, <2>1, <2>3 DEF Answered, Settle
    <3> QED
      BY <1>0, <2>1, <2>3, <3>1
      DEF Answer, Returns, Types, Exchanges, Undisturbed, FirstNode, WaitersMet, LoginsAlone,
          Asking, RetriedLive, NothingDeadYet, Holding, Here, Goes, Sends, history
  <2> QED BY <2>2, <2>3
<1>7. ASSUME NEW r \in Request, Serve(r) PROVE Calm'
  <2> SUFFICES ASSUME Quiet PROVE Undisturbed'
    BY <1>7 DEF Serve, Calm, Quiet
  <2>1. Undisturbed /\ Here(r) = 1 /\ 1 \notin Refusing
    BY <1>7
    DEF Serve, Out, Calm, Undisturbed, FirstNode, WaitersMet, LoginsAlone, Asking, RetriedLive,
        NothingDeadYet, Holding, Exchanges, Quiet
  <2>9. /\ \/ /\ net[r].what = "login"
              /\ net' = [net EXCEPT ![r] = [to |-> "client", what |-> "session", session |-> "live"]]
           \/ /\ net[r].what = "data" /\ net[r].session = "live"
              /\ \E w \in {"ok", "error"} :
                    net' = [net EXCEPT ![r] = [to |-> "client", what |-> w, session |-> "none"]]
           \/ /\ net[r].what = "data" /\ net[r].session # "live"
              /\ net' = [net EXCEPT ![r] = [to |-> "client", what |-> "401", session |-> "none"]]
        /\ UNCHANGED <<at, todo, retried, result, active, session, pending, restarts>>
    BY <1>7, <2>1 DEF Serve, Out, Reply, Sends, client
  <2>8. net[r].to = "server" /\ at[r] \in {"login", "data"}
    BY <1>7 DEF Serve, Out, Exchanges
  <2>0. /\ \A q \in Request \ {r} : net'[q] = net[q]
        /\ net'[r].to = "client"
        /\ \/ at[r] = "login" /\ net'[r].what = "session" /\ net'[r].session = "live"
           \/ /\ at[r] = "data" /\ net'[r].what \in {"ok", "error"} /\ net'[r].session = "none"
           \/ /\ at[r] = "data" /\ net[r].session # "live"
              /\ net'[r].what = "401" /\ net'[r].session = "none"
        /\ UNCHANGED <<at, retried, session, restarts>>
    BY <2>9, <2>8 DEF Types, Exchanges
  <2>2. FirstNode'
    BY <2>9, <2>1, <2>8, <1>0 DEF FirstNode, Undisturbed, Types, Exchanges, Holding, Here
  <2>3. WaitersMet'
    BY <2>9, <2>1, <2>8, <1>0 DEF WaitersMet, Undisturbed, Types, Exchanges, Holding, Here
  <2>4. LoginsAlone'
    BY <2>0, <2>1, <2>8 DEF LoginsAlone, Undisturbed
  <2>5. Asking'
    BY <2>0, <2>1, <2>8 DEF Asking, Undisturbed
  <2>6. RetriedLive'
    BY <2>9, <2>1, <2>8, <1>0 DEF RetriedLive, Undisturbed, Types, Exchanges, Holding, Here
  <2>7. NothingDeadYet'
    BY <2>0, <2>1, <2>8 DEF NothingDeadYet, Asking, Undisturbed
  <2> QED BY <2>2, <2>3, <2>4, <2>5, <2>6, <2>7 DEF Undisturbed
<1>8. ASSUME NEW r \in Request, Lose(r) PROVE Calm'
  BY <1>8, FaultsAssumption DEF Lose, Fault, Types, Calm, Quiet
<1>9. ASSUME NEW n \in Node, Restart(n) PROVE Calm'
  <2>1. faults' = faults - 1 /\ restarts' = restarts + 1
    BY <1>9 DEF Restart, Fault
  <2> SUFFICES ASSUME Quiet' PROVE Undisturbed'
    BY <2>1 DEF Calm, Types
  <2>2. Undisturbed /\ restarts = 0
    BY <2>1 DEF Calm, Quiet, Types
  <2> QED
    BY <1>0, <1>9, <2>1, <2>2
    DEF Restart, Dead, Types, Exchanges, Undisturbed, FirstNode, WaitersMet, LoginsAlone,
        Asking, RetriedLive, NothingDeadYet, Holding, Here
<1>10. CASE UNCHANGED vars
  BY <1>10
  DEF vars, client, history, Calm, Quiet, Undisturbed, FirstNode, WaitersMet, LoginsAlone,
      Asking, RetriedLive, NothingDeadYet, Holding, Here
<1> QED
  BY <1>1, <1>2, <1>3, <1>4, <1>5, <1>6, <1>7, <1>8, <1>9, <1>10 DEF Next, Step, Frame

-----------------------------------------------------------------------------
IInv == Types /\ Exchanges /\ Logins /\ Slots /\ Effects /\ Calm

LEMMA InitIInv == Init => IInv
<1> SUFFICES ASSUME Init PROVE IInv
  OBVIOUS
<1>0. Holding = {} /\ 1 \in Node
  BY NodesAssumption DEF Init, Holding, Node
<1>1. Types
  BY <1>0, EmptySeq, FaultsAssumption DEF Init, Types
<1>2. Exchanges /\ Logins
  BY DEF Init, Exchanges, Logins
<1>3. Slots
  BY <1>0, FS_EmptySet, SlotsAssumption DEF Init, Slots
<1>4. Effects
  BY DEF Init, Effects, Effect
<1>5. Calm
  BY <1>0, FaultsAssumption
  DEF Init, Calm, Undisturbed, FirstNode, WaitersMet, LoginsAlone, Asking, RetriedLive,
      NothingDeadYet
<1> QED BY <1>1, <1>2, <1>3, <1>4, <1>5 DEF IInv

LEMMA Invariance == Spec => []IInv
<1>1. IInv /\ [Next]_vars => IInv'
  BY TypesStep, ExchangesStep, LoginsStep, SlotsStep, EffectsStep, CalmStep DEF IInv
<1> QED BY InitIInv, <1>1, PTL DEF Spec

\* No slot is lost and none is given back twice, for any number of requests and nodes.
THEOREM SlotsAreCounted == Spec => []TypeOK
<1>1. IInv => TypeOK
  BY DEF IInv, Types, Logins, Slots, TypeOK
<1> QED BY <1>1, Invariance, PTL

\* A request whose answer was not lost is carried out once at most, on one node.
THEOREM NothingTwice == Spec => []CarriedOutOnce
<1>1. IInv => CarriedOutOnce
  BY DEF IInv, Effects, Effect, CarriedOutOnce
<1> QED BY <1>1, Invariance, PTL

\* While nothing is lost, one restart of a node is noticed by no caller, however many
\* requests it finds on their way, waiting or logging in.
THEOREM RestartPassesUnnoticed == Spec => []RestartUnnoticed
<1>1. IInv => RestartUnnoticed
  BY DEF IInv, Calm, Quiet, Undisturbed, FirstNode, RestartUnnoticed
<1> QED BY <1>1, Invariance, PTL

-----------------------------------------------------------------------------
(* Requests end: what GetsAnswer needs besides fairness                        *)

\* What is still to come at a node: nothing done yet, the login of another request,
\* an own login, the request proper.
Awaits(r) ==
    IF at[r] = "node" THEN 6
    ELSE IF at[r] = "wait" THEN 5
    ELSE (IF at[r] = "login" THEN 3 ELSE 1) + (IF net[r].to = "server" THEN 1 ELSE 0)

Unretried(r) == IF retried[r] THEN 0 ELSE 6

\* A bound on the steps a request has still to take: twelve at each node it may get to,
\* six of them after a 401.
ToGo(r) ==
    IF at[r] = "idle" THEN 12 * Nodes + 2
    ELSE IF at[r] = "slot" THEN 12 * Nodes + 1
    ELSE IF at[r] = "done" THEN 0
    ELSE 12 * (Len(todo[r]) - 1) + Unretried(r) + Awaits(r)

\* A node that is turned to has not answered with a 401 yet.
Fresh == \A r \in Request : at[r] \in {"idle", "slot", "node"} => ~retried[r]

AsItWas(q) == at'[q] = at[q] /\ todo'[q] = todo[q] /\ net'[q] = net[q] /\ retried'[q] = retried[q]

\* A step of r that brings it closer to its end.
Advances(r) ==
    /\ ToGo(r)' < ToGo(r)
    /\ at'[r] \in {"slot", "node"} => ~retried'[r]
    /\ at'[r] # "idle"
    /\ \A q \in Request \ {r} : AsItWas(q)

LEMMA ToGoHolding ==
    ASSUME Types, Exchanges, NEW r \in Holding
    PROVE  /\ r \in Request /\ Len(todo[r]) \in Nat /\ Len(todo[r]) > 0
           /\ todo[r] \in Seq(Node) /\ todo[r] # <<>> /\ Len(Tail(todo[r])) = Len(todo[r]) - 1
           /\ Awaits(r) \in 1..6 /\ Unretried(r) \in {0, 6}
           /\ ToGo(r) = 12 * (Len(todo[r]) - 1) + Unretried(r) + Awaits(r)
           /\ ToGo(r) \in Nat /\ 12 * (Len(todo[r]) - 1) < ToGo(r)
<1>1. r \in Request /\ todo[r] \in Seq(Node) /\ todo[r] # <<>>
  BY DEF Types, Holding
<1>2. Len(todo[r]) \in Nat /\ Len(todo[r]) > 0 /\ Len(Tail(todo[r])) = Len(todo[r]) - 1
  BY <1>1, LenProperties, EmptySeq, HeadTailProperties
<1>3. Awaits(r) \in 1..6
  BY DEF Awaits
<1>4. at[r] # "idle" /\ at[r] # "slot" /\ at[r] # "done"
  BY DEF Holding
<1>5. ToGo(r) = 12 * (Len(todo[r]) - 1) + Unretried(r) + Awaits(r)
  BY <1>4 DEF ToGo
<1>6. Unretried(r) \in {0, 6}
  BY DEF Unretried
<1>7. PICK k \in 1..6 : k = Awaits(r)
  BY <1>3
<1>8. PICK u \in {0, 6} : u = Unretried(r)
  BY <1>6
<1>9. PICK l \in Nat : l = Len(todo[r]) /\ l > 0
  BY <1>2
<1>10. ToGo(r) = 12 * (l - 1) + u + k
  BY <1>5, <1>7, <1>8, <1>9
<1>11. ToGo(r) \in Nat /\ 12 * (l - 1) < ToGo(r)
  BY <1>7, <1>8, <1>9, <1>10
<1> QED BY <1>1, <1>2, <1>3, <1>5, <1>6, <1>9, <1>11

\* Where a step of r that stays at its node takes it.
LEMMA ToGoHere ==
    ASSUME Types, Exchanges, NEW r \in Holding, todo' = todo,
           at'[r] # "idle", at'[r] # "slot", at'[r] # "done"
    PROVE  ToGo(r)' = 12 * (Len(todo[r]) - 1) + Unretried(r)' + Awaits(r)'
BY DEF ToGo

LEMMA NextNodeAdvances ==
    ASSUME Types, Exchanges, NEW r \in Holding, NEW refusedHere \in BOOLEAN, NextNode(r, refusedHere)
    PROVE  /\ ToGo(r)' < ToGo(r) /\ at'[r] \in {"node", "done"} /\ ~retried'[r]
           /\ retried' = [retried EXCEPT ![r] = FALSE]
<1>1. /\ r \in Request /\ Len(todo[r]) \in Nat /\ Len(todo[r]) > 0
      /\ Len(Tail(todo[r])) = Len(todo[r]) - 1
      /\ ToGo(r) \in Nat /\ 12 * (Len(todo[r]) - 1) < ToGo(r)
  BY ToGoHolding
<1>2. CASE Len(todo[r]) > 1
  <2>1. /\ todo' = [todo EXCEPT ![r] = Tail(todo[r])]
        /\ retried' = [retried EXCEPT ![r] = FALSE] /\ at' = [at EXCEPT ![r] = "node"]
    BY <1>2 DEF NextNode, Goes
  <2>2. todo'[r] = Tail(todo[r]) /\ ~retried'[r] /\ at'[r] = "node"
    BY <1>1, <2>1 DEF Types
  <2>3. Awaits(r)' = 6 /\ Unretried(r)' = 6
    BY <2>2 DEF Awaits, Unretried
  <2>4. ToGo(r)' = 12 * (Len(Tail(todo[r])) - 1) + Unretried(r)' + Awaits(r)'
    BY <2>2 DEF ToGo
  <2>5. ToGo(r)' = 12 * (Len(todo[r]) - 1)
    BY <1>1, <2>3, <2>4
  <2>6. ToGo(r)' < ToGo(r)
    BY <1>1, <2>5
  <2> QED BY <2>1, <2>2, <2>6
<1>3. CASE ~(Len(todo[r]) > 1)
  <2>1. retried' = [retried EXCEPT ![r] = FALSE] /\ at' = [at EXCEPT ![r] = "done"]
    BY <1>3 DEF NextNode, Returns, Goes
  <2>2. ~retried'[r] /\ at'[r] = "done"
    BY <1>1, <2>1 DEF Types
  <2>3. ToGo(r)' = 0
    BY <2>2 DEF ToGo
  <2>4. ToGo(r)' < ToGo(r)
    BY <1>1, <2>3
  <2> QED BY <2>1, <2>2, <2>4
<1> QED BY <1>2, <1>3

LEMMA AnswerAdvances ==
    ASSUME Types, Exchanges, NEW r \in Holding, NEW g, Answer(r, g)
    PROVE  /\ ToGo(r)' < ToGo(r) /\ at'[r] \in {"node", "done"} /\ ~retried'[r]
           /\ retried' = [retried EXCEPT ![r] = FALSE]
<1>1. /\ r \in Request /\ Len(todo[r]) \in Nat /\ Len(todo[r]) > 0
      /\ ToGo(r) \in Nat /\ 12 * (Len(todo[r]) - 1) < ToGo(r)
  BY ToGoHolding
<1>2. retried' = [retried EXCEPT ![r] = FALSE] /\ at' = [at EXCEPT ![r] = "done"]
  BY DEF Answer, Returns, Goes
<1>3. ~retried'[r] /\ at'[r] = "done"
  BY <1>1, <1>2 DEF Types
<1>4. ToGo(r)' = 0
  BY <1>3 DEF ToGo
<1>5. ToGo(r)' < ToGo(r)
  BY <1>1, <1>4
<1> QED BY <1>2, <1>3, <1>5

\* Asking, logging in or waiting at the node it is at.
LEMMA HereAdvances ==
    ASSUME Types, Exchanges, NEW r \in Holding, todo' = todo,
           \/ /\ Goes(r, "data")
              /\ \E s : Sends(r, [to |-> "server", what |-> "data", session |-> s])
              /\ retried' = retried
              /\ at[r] \in {"node", "wait"} \/ (at[r] = "login" /\ net[r].to = "client")
           \/ /\ \/ Goes(r, "wait")
                 \/ /\ Goes(r, "login")
                    /\ Sends(r, [to |-> "server", what |-> "login", session |-> "none"])
              /\ \/ retried' = retried /\ at[r] = "node"
                 \/ /\ at[r] = "data" /\ ~retried[r]
                    /\ retried' = [retried EXCEPT ![r] = TRUE]
    PROVE  ToGo(r)' < ToGo(r)
<1>1. /\ r \in Request /\ Len(todo[r]) \in Nat /\ Len(todo[r]) > 0 /\ Awaits(r) \in 1..6
      /\ ToGo(r) = 12 * (Len(todo[r]) - 1) + Unretried(r) + Awaits(r)
  BY ToGoHolding
<1>2. ASSUME Goes(r, "data"), NEW s, Sends(r, [to |-> "server", what |-> "data", session |-> s])
      PROVE  Awaits(r)' = 2 /\ at'[r] = "data"
  BY <1>1, <1>2 DEF Awaits, Goes, Sends, Types, Exchanges
<1>3. ASSUME Goes(r, "wait") PROVE Awaits(r)' = 5 /\ at'[r] = "wait"
  BY <1>1, <1>3 DEF Awaits, Goes, Types
<1>4. ASSUME Goes(r, "login"), Sends(r, [to |-> "server", what |-> "login", session |-> "none"])
      PROVE  Awaits(r)' = 4 /\ at'[r] = "login"
  BY <1>1, <1>4 DEF Awaits, Goes, Sends, Types, Exchanges
<1>5. /\ at[r] = "node" => Awaits(r) = 6
      /\ at[r] = "wait" => Awaits(r) = 5
      /\ at[r] = "login" /\ net[r].to = "client" => Awaits(r) = 3
  BY DEF Awaits
<1>6. /\ Awaits(r)' \in {2, 4, 5}
      /\ at'[r] # "idle" /\ at'[r] # "slot" /\ at'[r] # "done"
      /\ \/ retried' = retried /\ Awaits(r)' < Awaits(r)
         \/ retried' = [retried EXCEPT ![r] = TRUE] /\ ~retried[r]
  <2> HIDE DEF Awaits
  <2>1. CASE Goes(r, "data")
    <3>1. Awaits(r)' = 2 /\ at'[r] = "data" /\ retried' = retried
          /\ (at[r] \in {"node", "wait"} \/ (at[r] = "login" /\ net[r].to = "client"))
      <4>1. at'[r] = "data"
        BY <1>1, <2>1 DEF Goes, Types
      <4>2. ~Goes(r, "wait") /\ ~Goes(r, "login")
        BY <1>1, <4>1 DEF Goes, Types
      <4>3. /\ retried' = retried
            /\ at[r] \in {"node", "wait"} \/ (at[r] = "login" /\ net[r].to = "client")
        BY <4>2
      <4>4. PICK s : Sends(r, [to |-> "server", what |-> "data", session |-> s])
        BY <4>2
      <4>5. Awaits(r)' = 2
        BY <1>2, <2>1, <4>4
      <4> QED BY <4>1, <4>3, <4>5
    <3> QED BY <1>5, <3>1
  <2>2. CASE Goes(r, "wait")
    <3>1. Awaits(r)' = 5 /\ at'[r] = "wait"
      BY <1>3, <2>2
    <3>2. ~Goes(r, "data") /\ ~Goes(r, "login")
      BY <1>1, <3>1 DEF Goes, Types
    <3>3. \/ retried' = retried /\ at[r] = "node"
          \/ retried' = [retried EXCEPT ![r] = TRUE] /\ ~retried[r]
      BY <3>2
    <3> QED BY <1>5, <3>1, <3>3
  <2>3. CASE Goes(r, "login")
    <3>1. at'[r] = "login"
      BY <1>1, <2>3 DEF Goes, Types
    <3>2. ~Goes(r, "data") /\ ~Goes(r, "wait")
      BY <1>1, <3>1 DEF Goes, Types
    <3>3. \/ retried' = retried /\ at[r] = "node"
          \/ retried' = [retried EXCEPT ![r] = TRUE] /\ ~retried[r]
      BY <3>2
    <3>4. Awaits(r)' = 4
      BY <1>4, <2>3, <3>2
    <3> QED BY <1>5, <3>1, <3>3, <3>4
  <2> QED BY <2>1, <2>2, <2>3
<1>7. Unretried(r) \in {0, 6}
  BY DEF Unretried
<1>8. ToGo(r)' = 12 * (Len(todo[r]) - 1) + Unretried(r)' + Awaits(r)'
  BY <1>6, ToGoHere
<1>9. CASE retried' = retried /\ Awaits(r)' < Awaits(r)
  <2>1. Unretried(r)' = Unretried(r)
    BY <1>9 DEF Unretried
  <2> QED BY <1>1, <1>6, <1>7, <1>8, <1>9, <2>1
<1>10. CASE retried' = [retried EXCEPT ![r] = TRUE] /\ ~retried[r]
  <2>1. Unretried(r)' = 0 /\ Unretried(r) = 6
    BY <1>1, <1>10 DEF Unretried, Types
  <2> QED BY <1>1, <1>6, <1>8, <2>1
<1> QED BY <1>6, <1>9, <1>10

\* Every step of a request brings it closer to its end and leaves the others alone.
LEMMA StepAdvances ==
    ASSUME Types, Exchanges, Fresh, NEW r \in Request, Step(r)
    PROVE  Advances(r)
<1>1. CASE _acquire_slot(r)
  <2>1. /\ at[r] = "slot" /\ at' = [at EXCEPT ![r] = "node"]
        /\ todo' = [todo EXCEPT ![r] = _node_order] /\ UNCHANGED <<retried, net>>
    BY <1>1 DEF _acquire_slot, Goes
  <2>2. at'[r] = "node" /\ todo'[r] = _node_order /\ \A q \in Request \ {r} : AsItWas(q)
    BY <2>1 DEF Types, AsItWas
  <2>3. Len(_node_order) = Nodes /\ Nodes \in Nat
    BY NodesAssumption DEF _node_order, Node
  <2>4. ~retried'[r]
    BY <2>1 DEF Fresh
  <2>5. ToGo(r)' < ToGo(r)
    <3>1. Awaits(r)' = 6 /\ Unretried(r)' = 6
      BY <2>2, <2>4 DEF Awaits, Unretried
    <3>2. ToGo(r)' = 12 * (Nodes - 1) + Unretried(r)' + Awaits(r)'
      BY <2>2, <2>3 DEF ToGo
    <3>3. ToGo(r) = 12 * Nodes + 1
      BY <2>1 DEF ToGo
    <3> QED BY <2>3, <3>1, <3>2, <3>3
  <2> QED BY <2>2, <2>3, <2>4, <2>5 DEF Advances
<1>2. CASE Serve(r)
  <2>1. UNCHANGED <<at, todo, retried>> /\ net[r].to = "server" /\ net[r] # NULL
        /\ \E m : net' = [net EXCEPT ![r] = m] /\ m.to = "client"
    <3>1. UNCHANGED <<at, todo, retried>> /\ net[r].to = "server" /\ net[r] # NULL
      BY <1>2 DEF Serve, Out, client
    <3>2. \A what, s : Reply(what, s).to = "client"
      BY DEF Reply
    <3>3. \E what, s : net' = [net EXCEPT ![r] = Reply(what, s)]
      BY <1>2 DEF Serve, Sends
    <3> QED BY <3>1, <3>2, <3>3
  <2>2. at[r] \in {"login", "data"} /\ r \in Holding
    BY <2>1 DEF Exchanges, Holding
  <2>3. net'[r].to = "client" /\ \A q \in Request \ {r} : AsItWas(q)
    BY <2>1 DEF Exchanges, AsItWas
  <2>4. Awaits(r)' < Awaits(r) /\ Awaits(r) \in Nat /\ Awaits(r)' \in Nat
    BY <2>1, <2>2, <2>3 DEF Awaits
  <2>5. ToGo(r)' < ToGo(r)
    <3>1. at'[r] # "idle" /\ at'[r] # "slot" /\ at'[r] # "done" /\ Unretried(r)' = Unretried(r)
      BY <2>1, <2>2 DEF Unretried
    <3>2. ToGo(r)' = 12 * (Len(todo[r]) - 1) + Unretried(r)' + Awaits(r)'
      BY <2>1, <2>2, <3>1, ToGoHere
    <3>3. /\ ToGo(r) = 12 * (Len(todo[r]) - 1) + Unretried(r) + Awaits(r)
          /\ Len(todo[r]) \in Nat /\ Unretried(r) \in {0, 6}
      BY <2>2, ToGoHolding
    <3> QED BY <2>4, <3>1, <3>2, <3>3
  <2> QED BY <2>1, <2>2, <2>3, <2>5 DEF Advances
<1>3. ASSUME _ensure_login(r) \/ Waited(r) \/ LoggedIn(r) \/ Answered(r)
      PROVE  Advances(r)
  <2>1. Turn(r)
    BY <1>3, Turns
  <2>2. r \in Holding
    BY <2>1 DEF Turn, Holding
  <2>3. \A q \in Request \ {r} : at'[q] = at[q] /\ todo'[q] = todo[q] /\ net'[q] = net[q]
    BY <2>1, OthersStay
  <2>4. ASSUME NEW refusedHere \in BOOLEAN, NextNode(r, refusedHere) PROVE Advances(r)
    BY <2>2, <2>3, <2>4, NextNodeAdvances DEF Advances, AsItWas, Types
  <2>5. ASSUME NEW g, Answer(r, g) PROVE Advances(r)
    BY <2>2, <2>3, <2>5, AnswerAdvances DEF Advances, AsItWas, Types
  <2>6. ASSUME ToGo(r)' < ToGo(r), at'[r] \in {"data", "wait", "login"},
               \E b \in BOOLEAN : retried' = [retried EXCEPT ![r] = b]
        PROVE  Advances(r)
    BY <2>3, <2>6 DEF Advances, AsItWas, Types
  <2>7. retried' = retried => \E b \in BOOLEAN : retried' = [retried EXCEPT ![r] = b]
    <3>1. retried[r] \in BOOLEAN /\ retried = [retried EXCEPT ![r] = retried[r]]
      BY DEF Types
    <3> QED BY <3>1
  <2>8. CASE _ensure_login(r)
    <3>1. todo' = todo /\ retried' = retried /\ at[r] = "node"
      BY <2>8 DEF _ensure_login
    <3>2. ToGo(r)' < ToGo(r)
      BY <2>2, <2>8, <3>1, HereAdvances DEF _ensure_login, Ask, LoginOrWait, SendLogin
    <3>3. at'[r] \in {"data", "wait", "login"}
      BY <2>8 DEF _ensure_login, Ask, LoginOrWait, SendLogin, Goes, Types
    <3> QED BY <2>6, <2>7, <3>1, <3>2, <3>3
  <2>9. CASE Waited(r)
    <3>1. CASE session[Here(r)] # "none"
      <4>1. todo' = todo /\ retried' = retried /\ at[r] = "wait" /\ Ask(r)
        BY <2>9, <3>1 DEF Waited
      <4>2. ToGo(r)' < ToGo(r)
        BY <2>2, <4>1, HereAdvances DEF Ask
      <4>3. at'[r] = "data"
        BY <4>1 DEF Ask, Goes, Types
      <4> QED BY <2>6, <2>7, <4>1, <4>2, <4>3
    <3>2. CASE session[Here(r)] = "none"
      BY <2>4, <2>5, <2>9, <3>2 DEF Waited, LoginFailed
    <3> QED BY <3>1, <3>2
  <2>10. CASE LoggedIn(r)
    <3>1. CASE Got(r) = "session"
      <4>1. /\ todo' = todo /\ retried' = retried /\ at[r] = "login" /\ net[r].to = "client"
            /\ Goes(r, "data")
            /\ Sends(r, [to |-> "server", what |-> "data", session |-> net[r].session])
        BY <2>10, <3>1 DEF LoggedIn, Back
      <4>2. ToGo(r)' < ToGo(r)
        BY <2>2, <4>1, HereAdvances
      <4>3. at'[r] = "data"
        BY <4>1 DEF Goes, Types
      <4> QED BY <2>6, <2>7, <4>1, <4>2, <4>3
    <3>2. CASE Got(r) # "session"
      BY <2>4, <2>5, <2>10, <3>2 DEF LoggedIn, LoginFailed
    <3> QED BY <3>1, <3>2
  <2>11. CASE Answered(r)
    <3>1. CASE Got(r) = "401" /\ ~retried[r]
      <4>1. /\ todo' = todo /\ retried' = [retried EXCEPT ![r] = TRUE]
            /\ at[r] = "data" /\ ~retried[r] /\ LoginOrWait(r)
        BY <2>11, <3>1 DEF Answered, AskAgain
      <4>2. ToGo(r)' < ToGo(r)
        BY <2>2, <4>1, HereAdvances DEF LoginOrWait, SendLogin
      <4>3. at'[r] \in {"wait", "login"}
        BY <4>1 DEF LoginOrWait, SendLogin, Goes, Types
      <4> QED BY <2>6, <4>1, <4>2, <4>3
    <3>2. CASE ~(Got(r) = "401" /\ ~retried[r])
      BY <2>4, <2>5, <2>11, <3>2 DEF Answered, Settle
    <3> QED BY <3>1, <3>2
  <2> QED BY <1>3, <2>8, <2>9, <2>10, <2>11
<1> QED BY <1>1, <1>2, <1>3 DEF Step

LEMMA StartAdvances ==
    ASSUME Types, Exchanges, Fresh, NEW r \in Request, Start(r)
    PROVE  Advances(r)
<1>1. at[r] = "idle" /\ at' = [at EXCEPT ![r] = "slot"] /\ UNCHANGED <<todo, retried, net>>
  BY DEF Start, Goes
<1>2. at'[r] = "slot" /\ ~retried'[r] /\ \A q \in Request \ {r} : AsItWas(q)
  BY <1>1 DEF Types, AsItWas, Fresh
<1>3. ToGo(r)' < ToGo(r)
  BY <1>1, <1>2, NodesAssumption DEF ToGo
<1> QED BY <1>2, <1>3 DEF Advances

\* A fault takes nobody further from its end.
LEMMA FaultSetsNobodyBack ==
    ASSUME Types, Exchanges,
           (\E r \in Request : Lose(r)) \/ (\E n \in Node : Restart(n)) \/ UNCHANGED vars
    PROVE  UNCHANGED <<at, retried>> /\ \A q \in Request : ToGo(q)' <= ToGo(q)
<1>1. UNCHANGED <<at, todo, retried>>
  BY DEF Lose, Restart, client, vars
<1>2. ASSUME NEW q \in Request, at[q] \in {"login", "data"}
      PROVE  net'[q].to \in {"client", net[q].to} /\ net[q].to \in {"client", "server"}
  <2>1. net[q] \in Message
    BY <1>2 DEF Exchanges
  <2>2. ASSUME NEW r \in Request, Lose(r) PROVE net'[q].to \in {"client", net[q].to}
    BY <2>2 DEF Lose, Sends, Reply, Exchanges
  <2>3. ASSUME NEW n \in Node, Restart(n) PROVE net'[q].to \in {"client", net[q].to}
    BY <2>1, <2>3 DEF Restart, Message
  <2>4. ASSUME UNCHANGED vars PROVE net'[q].to = net[q].to
    BY <2>4 DEF vars
  <2>5. net[q].to \in {"client", "server"}
    BY <2>1 DEF Message
  <2> QED BY <2>2, <2>3, <2>4, <2>5
<1>3. ASSUME NEW q \in Request PROVE ToGo(q)' <= ToGo(q)
  <2>1. CASE q \in Holding
    <3>1. Awaits(q)' <= Awaits(q) /\ Awaits(q) \in Nat /\ Awaits(q)' \in Nat
      <4>1. at[q] \in {"node", "wait", "login", "data"}
        BY <2>1 DEF Types, Holding
      <4> QED BY <1>1, <1>2, <4>1 DEF Awaits
    <3>2. at'[q] # "idle" /\ at'[q] # "slot" /\ at'[q] # "done" /\ Unretried(q)' = Unretried(q)
      BY <1>1, <2>1 DEF Holding, Unretried
    <3>3. ToGo(q)' = 12 * (Len(todo[q]) - 1) + Unretried(q)' + Awaits(q)'
      BY <1>1, <2>1, <3>2, ToGoHere
    <3>4. /\ ToGo(q) = 12 * (Len(todo[q]) - 1) + Unretried(q) + Awaits(q)
          /\ Len(todo[q]) \in Nat /\ Unretried(q) \in {0, 6}
      BY <2>1, ToGoHolding
    <3> QED BY <3>1, <3>2, <3>3, <3>4
  <2>2. CASE q \notin Holding
    <3>1. at[q] \in {"idle", "slot", "done"} /\ at'[q] = at[q]
      BY <1>1, <2>2 DEF Holding
    <3>2. ToGo(q)' = ToGo(q) /\ ToGo(q) \in {0, 12 * Nodes + 1, 12 * Nodes + 2}
      BY <3>1 DEF ToGo
    <3> QED BY <3>2, NodesAssumption
  <2> QED BY <2>1, <2>2
<1> QED BY <1>1, <1>3

LEMMA ToGoIsNatural ==
    ASSUME Types, Exchanges, NEW r \in Request
    PROVE  ToGo(r) \in Nat
<1>1. CASE r \in Holding
  BY <1>1, ToGoHolding
<1>2. CASE r \notin Holding
  <2>1. ToGo(r) \in {0, 12 * Nodes + 1, 12 * Nodes + 2}
    BY <1>2 DEF Holding, ToGo
  <2> QED BY <2>1, NodesAssumption
<1> QED BY <1>1, <1>2

LEMMA AsItWasToGo ==
    ASSUME NEW q \in Request, AsItWas(q)
    PROVE  ToGo(q)' = ToGo(q)
BY DEF AsItWas, ToGo, Awaits, Unretried

LEMMA FreshStep ==
    ASSUME Types, Exchanges, Fresh, [Next]_vars
    PROVE  Fresh'
<1>1. ASSUME NEW r \in Request, Advances(r) PROVE Fresh'
  BY <1>1 DEF Fresh, Advances, AsItWas
<1>2. ASSUME UNCHANGED <<at, retried>> PROVE Fresh'
  BY <1>2 DEF Fresh
<1> QED
  BY <1>1, <1>2, StepAdvances, StartAdvances, FaultSetsNobodyBack DEF Next, Frame

\* No request walks for ever, whatever is lost and whoever restarts: each of its steps
\* uses up one of the at most 12 * Nodes + 2 it has, and no step of anybody gives one back
\* (api.gd _do_request_slot_held: one retry at a node, no node twice).
THEOREM WalksAreFinite ==
    Spec => /\ [](\A r \in Request : ToGo(r) \in Nat)
            /\ [][\A r \in Request : /\ ToGo(r)' <= ToGo(r)
                                     /\ Step(r) => ToGo(r)' < ToGo(r)]_vars
<1> DEFINE Walk == \A r \in Request : /\ ToGo(r)' <= ToGo(r)
                                      /\ Step(r) => ToGo(r)' < ToGo(r)
           Natural == \A r \in Request : ToGo(r) \in Nat
<1>1. Init => Fresh
  BY DEF Init, Fresh
<1>2. IInv /\ Fresh /\ [Next]_vars => Fresh'
  BY FreshStep DEF IInv
<1>3. IInv => Natural
  BY ToGoIsNatural DEF IInv
<1> HIDE DEF Natural
<1>31. IInv' => Natural'
  BY <1>3, PTL
<1> USE DEF Natural
<1>4. IInv /\ Fresh /\ IInv' /\ [Next]_vars => [Walk]_vars
  <2> SUFFICES ASSUME IInv, Fresh, IInv', Next, NEW r \in Request
               PROVE  ToGo(r)' <= ToGo(r) /\ (Step(r) => ToGo(r)' < ToGo(r))
    OBVIOUS
  <2>1. Types /\ Exchanges /\ ToGo(r) \in Nat /\ ToGo(r)' \in Nat
    <3>1. Natural /\ Natural'
      BY <1>3, <1>31
    <3> QED BY <3>1 DEF IInv
  <2>2. ASSUME NEW q \in Request, Advances(q) PROVE ToGo(r)' <= ToGo(r)
    <3>1. CASE r = q
      BY <2>1, <2>2, <3>1 DEF Advances
    <3>2. CASE r # q
      BY <2>1, <2>2, <3>2, AsItWasToGo DEF Advances
    <3> QED BY <3>1, <3>2
  <2>3. ToGo(r)' <= ToGo(r)
    BY <2>1, <2>2, StepAdvances, StartAdvances, FaultSetsNobodyBack DEF Next, Frame
  <2>4. Step(r) => ToGo(r)' < ToGo(r)
    BY <2>1, StepAdvances DEF Advances
  <2> QED BY <2>3, <2>4
<1> HIDE DEF Walk, Natural
<1>5. Spec => []Natural /\ [][Walk]_vars
  BY <1>1, <1>2, <1>3, <1>4, Invariance, PTL DEF Spec
<1> QED BY <1>5 DEF Walk, Natural

\* What a step of a request waits for.
CanGo(r) ==
    \/ at[r] = "slot" /\ inflight < MAX_CONCURRENT_REQUESTS
    \/ at[r] = "node"
    \/ at[r] = "wait" /\ Here(r) \notin pending
    \/ at[r] \in {"login", "data"} /\ (Out(r) \/ Back(r))

\* Who waits for a slot waits for a request that has one, and who waits for a login for
\* the request that is logging in at that node: nobody waits for itself, and in the end
\* somebody waits for a node only.
WaitsEnd ==
    \A r \in Request :
        /\ at[r] = "slot" => CanGo(r) \/ \E q \in Request : at[q] \in {"node", "wait", "login", "data"}
        /\ at[r] = "wait" => CanGo(r) \/ \E q \in Request : /\ at[q] = "login" /\ Here(q) = Here(r)
                                                            /\ CanGo(q)
        /\ at[r] \in {"node", "login", "data"} => CanGo(r)

\* Everyone never waits on everyone: while a request is on its way, some request can go
\* on, however few slots there are (api.gd: a login is sent under the slot of the request
\* that needs it).
THEOREM NobodyIsStuck ==
    Spec => [](/\ WaitsEnd
               /\ (\E r \in Request : at[r] \notin {"idle", "done"}) => \E q \in Request : CanGo(q))
<1> DEFINE Somebody == (\E r \in Request : at[r] \notin {"idle", "done"})
                          => \E q \in Request : CanGo(q)
<1>1. IInv => WaitsEnd
  <2> SUFFICES ASSUME IInv, NEW r \in Request
               PROVE  /\ at[r] = "slot" =>
                            CanGo(r) \/ \E q \in Request : at[q] \in {"node", "wait", "login", "data"}
                      /\ at[r] = "wait" =>
                            CanGo(r) \/ \E q \in Request : /\ at[q] = "login" /\ Here(q) = Here(r)
                                                           /\ CanGo(q)
                      /\ at[r] \in {"node", "login", "data"} => CanGo(r)
    BY DEF WaitsEnd
  <2>1. \A q \in Request : at[q] \in {"login", "data"} => CanGo(q)
    <3> SUFFICES ASSUME NEW q \in Request, at[q] \in {"login", "data"} PROVE CanGo(q)
      OBVIOUS
    <3>1. net[q] \in Message /\ net[q] # NULL
      BY NullAssumption DEF IInv, Exchanges
    <3> QED BY <3>1 DEF CanGo, Out, Back, Message
  <2>2. at[r] = "slot" => CanGo(r) \/ \E q \in Request : at[q] \in {"node", "wait", "login", "data"}
    <3> SUFFICES ASSUME at[r] = "slot", ~ \E q \in Request : at[q] \in {"node", "wait", "login", "data"}
                 PROVE  CanGo(r)
      OBVIOUS
    <3>1. Holding = {}
      BY DEF Holding, IInv, Types
    <3>2. inflight = 0
      BY <3>1, FS_EmptySet DEF IInv, Slots
    <3> QED BY <3>2, SlotsAssumption DEF CanGo
  <2>3. at[r] = "wait" => CanGo(r) \/ \E q \in Request : at[q] = "login" /\ Here(q) = Here(r) /\ CanGo(q)
    BY <2>1 DEF CanGo, IInv, Logins
  <2>4. at[r] \in {"node", "login", "data"} => CanGo(r)
    BY <2>1 DEF CanGo
  <2> QED BY <2>2, <2>3, <2>4
<1>2. IInv /\ WaitsEnd => Somebody
  <2> SUFFICES ASSUME IInv, WaitsEnd, NEW r \in Request, at[r] \notin {"idle", "done"}
               PROVE  \E q \in Request : CanGo(q)
    OBVIOUS
  <2>1. \A q \in Request : at[q] \in {"node", "wait", "login", "data"} => \E p \in Request : CanGo(p)
    BY DEF WaitsEnd
  <2>2. at[r] \in {"slot", "node", "wait", "login", "data"}
    BY DEF IInv, Types
  <2> QED BY <2>1, <2>2 DEF WaitsEnd
<1> HIDE DEF Somebody
<1>3. Spec => [](WaitsEnd /\ Somebody)
  BY <1>1, <1>2, Invariance, PTL
<1> QED BY <1>3, PTL DEF Somebody
=============================================================================
