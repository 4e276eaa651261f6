------------------------------- MODULE Nodes -------------------------------
(***************************************************************************)
(* The HTTP client, api.gd: requests take one of the slots, walk the list   *)
(* of server nodes, log in where they have no session and once more after   *)
(* a 401.  The nodes forget every session when they restart; requests and   *)
(* answers get lost.                                                        *)
(*                                                                         *)
(* Abstractions: a session is live or dead, whichever token it is; what a   *)
(* request asks for is left out, also what an adopted identity resets;      *)
(* turning to the next node is a step of its own, where the code awaits     *)
(* nothing.                                                                *)
(***************************************************************************)
EXTENDS Integers, FiniteSets, Sequences

CONSTANTS
    Request,
    Nodes,        \* bound: how many nodes are saved, the first being the most wanted
    Refusing,     \* nodes that do not know the identity, or not with this PIN
    MAX_CONCURRENT_REQUESTS,
    MaxFaults,    \* bound: losses and restarts
    NULL

ASSUME NodesAssumption == Nodes \in Nat \ {0}
ASSUME SlotsAssumption == MAX_CONCURRENT_REQUESTS \in Nat \ {0}
ASSUME FaultsAssumption == MaxFaults \in Nat
ASSUME RequestAssumption == IsFiniteSet(Request)

Node == 1..Nodes

Message ==
    [to : {"server", "client"},
     what : {"login", "data", "session", "refused", "ok", "error", "401", "lost"},
     session : {"none", "live", "dead"}]
ASSUME NullAssumption == NULL \notin Node \cup Message

VARIABLES
    at,        \* what a request is doing
    todo,      \* the nodes it has still to try, the first being the one it is at
    retried,   \* it has had a 401 from that node
    refused,   \* loginIdx: the first node that refused its login
    net,       \* its HTTP exchange: what was sent, or what came back
    result,    \* what its caller got
    inflight,  \* slots taken
    active,    \* Store.active_server
    session,   \* _sessions: node -> "none", "live" or "dead"
    pending,   \* _login_pending
    faults,
    restarts,  \* history: how many of them were restarts
    carried,   \* history: how often a node carried out a request
    lost       \* history: requests that lost the answer to something carried out

client == <<at, todo, retried, refused, result, inflight, active, session, pending>>
history == <<faults, restarts, carried, lost>>
vars == <<client, net, history>>

Here(r) == Head(todo[r])
Goes(r, a) == at' = [at EXCEPT ![r] = a]
Sends(r, m) == net' = [net EXCEPT ![r] = m]
Fault == faults > 0 /\ faults' = faults - 1

-----------------------------------------------------------------------------
(* A request of the client                                                  *)

Start(r) ==
    /\ at[r] = "idle"
    /\ Goes(r, "slot")
    /\ UNCHANGED <<todo, retried, refused, net, result, inflight, active, session, pending, history>>

\* The active node first, then the others in their order.
_node_order ==
    [i \in Node |-> IF i = 1 THEN active ELSE IF i <= active THEN i - 1 ELSE i]

_acquire_slot(r) ==
    /\ at[r] = "slot"
    /\ inflight < MAX_CONCURRENT_REQUESTS
    /\ inflight' = inflight + 1
    /\ todo' = [todo EXCEPT ![r] = _node_order]
    /\ Goes(r, "node")
    /\ UNCHANGED <<retried, refused, net, result, active, session, pending, history>>

\* The caller gets g, and the slot is free again.
Returns(r, g) ==
    /\ Goes(r, "done")
    /\ result' = [result EXCEPT ![r] = g]
    /\ inflight' = inflight - 1
    /\ todo' = [todo EXCEPT ![r] = <<>>]
    /\ retried' = [retried EXCEPT ![r] = FALSE]

\* An answer, whatever it says, makes the node the active one.
Answer(r, g) ==
    /\ Returns(r, g)
    /\ active' = Here(r)
    /\ UNCHANGED refused

\* No use here: the next node, or the end, where a refused login is what counts.
NextNode(r, refusedHere) ==
    LET first == IF refused[r] = NULL /\ refusedHere THEN Here(r) ELSE refused[r]
    IN  /\ refused' = [refused EXCEPT ![r] = first]
        /\ IF Len(todo[r]) > 1
           THEN /\ todo' = [todo EXCEPT ![r] = Tail(@)]
                /\ retried' = [retried EXCEPT ![r] = FALSE]
                /\ Goes(r, "node")
                /\ UNCHANGED <<result, inflight, active>>
           ELSE /\ Returns(r, IF first = NULL THEN "unreachable" ELSE "refused")
                /\ active' = IF first = NULL THEN active ELSE first

\* A login that failed after a 401 leaves the 401 for an answer.
LoginFailed(r, refusedHere) ==
    IF retried[r] THEN Answer(r, "401") ELSE NextNode(r, refusedHere)

Ask(r) ==
    /\ Goes(r, "data")
    /\ Sends(r, [to |-> "server", what |-> "data", session |-> session[Here(r)]])

SendLogin(r) ==
    /\ pending' = pending \cup {Here(r)}
    /\ Goes(r, "login")
    /\ Sends(r, [to |-> "server", what |-> "login", session |-> "none"])

\* Mutant: a login is a request like any other and takes a slot of its own.
LoginOrWaitForSlot(r) ==
    IF Here(r) \in pending
    THEN Goes(r, "wait") /\ Sends(r, NULL) /\ UNCHANGED pending
    ELSE inflight < MAX_CONCURRENT_REQUESTS /\ SendLogin(r)

\* One login for a node at a time; whoever comes second waits for it.
LoginOrWait(r) ==
    IF Here(r) \in pending
    THEN Goes(r, "wait") /\ Sends(r, NULL) /\ UNCHANGED pending
    ELSE SendLogin(r)

_ensure_login(r) ==
    /\ at[r] = "node"
    /\ IF session[Here(r)] # "none" THEN Ask(r) /\ UNCHANGED pending ELSE LoginOrWait(r)
    /\ UNCHANGED <<todo, retried, refused, result, inflight, active, session, history>>

Waited(r) ==
    /\ at[r] = "wait"
    /\ Here(r) \notin pending
    /\ IF session[Here(r)] # "none"
       THEN Ask(r) /\ UNCHANGED <<todo, retried, refused, result, inflight, active>>
       ELSE LoginFailed(r, TRUE) /\ UNCHANGED net
    /\ UNCHANGED <<session, pending, history>>

Back(r) == net[r] # NULL /\ net[r].to = "client"
Got(r) == net[r].what

LoggedIn(r) ==
    /\ at[r] = "login" /\ Back(r)
    /\ pending' = pending \ {Here(r)}
    /\ IF Got(r) = "session"
       THEN /\ session' = [session EXCEPT ![Here(r)] = net[r].session]
            /\ Goes(r, "data")
            /\ Sends(r, [to |-> "server", what |-> "data", session |-> net[r].session])
            /\ UNCHANGED <<todo, retried, refused, result, inflight, active>>
       ELSE /\ LoginFailed(r, Got(r) = "refused")
            /\ Sends(r, NULL)
            /\ UNCHANGED session
    /\ UNCHANGED history

\* Mutant: the session that got the 401 is kept.
AskAgainInSession(r) ==
    /\ retried' = [retried EXCEPT ![r] = TRUE]
    /\ Ask(r)
    /\ UNCHANGED <<todo, refused, result, inflight, active, session, pending>>

\* The node may have restarted: forget the session, log in and ask once more.
AskAgain(r) ==
    /\ session' = [session EXCEPT ![Here(r)] = "none"]
    /\ retried' = [retried EXCEPT ![r] = TRUE]
    /\ LoginOrWait(r)
    /\ UNCHANGED <<todo, refused, result, inflight, active>>

\* Mutants: an error sends it on as well; the slot is kept when no node answered.
SettleErrors(r) ==
    IF Got(r) \in {"lost", "error"} THEN NextNode(r, FALSE) ELSE Answer(r, Got(r))
SettleInSlot(r) ==
    IF Got(r) = "lost" /\ Len(todo[r]) = 1
    THEN /\ Goes(r, "done")
         /\ result' = [result EXCEPT ![r] = "unreachable"]
         /\ todo' = [todo EXCEPT ![r] = <<>>]
         /\ UNCHANGED <<retried, refused, inflight, active>>
    ELSE IF Got(r) = "lost" THEN NextNode(r, FALSE) ELSE Answer(r, Got(r))

\* Anything the node said is an answer; only silence sends the request on.
Settle(r) == IF Got(r) = "lost" THEN NextNode(r, FALSE) ELSE Answer(r, Got(r))

Answered(r) ==
    /\ at[r] = "data" /\ Back(r)
    /\ IF Got(r) = "401" /\ ~retried[r]
       THEN AskAgain(r)
       ELSE Settle(r) /\ Sends(r, NULL) /\ UNCHANGED <<session, pending>>
    /\ UNCHANGED history

-----------------------------------------------------------------------------
(* The nodes and the network                                                *)

Out(r) == net[r] # NULL /\ net[r].to = "server"
Reply(what, s) == [to |-> "client", what |-> what, session |-> s]

OneMore(counts, n) == [counts EXCEPT ![n] = @ + 1]

\* A login is accepted or refused; anything else needs a live session, and is
\* carried out even if the answer is an error.
Serve(r) ==
    /\ Out(r)
    /\ \/ /\ net[r].what = "login"
          /\ Sends(r, IF Here(r) \in Refusing THEN Reply("refused", "none")
                      ELSE Reply("session", "live"))
          /\ UNCHANGED carried
       \/ /\ net[r].what = "data" /\ net[r].session = "live"
          /\ Sends(r, Reply("ok", "none")) \/ Sends(r, Reply("error", "none"))
          /\ carried' = [carried EXCEPT ![r] = OneMore(carried[r], Here(r))]
       \/ /\ net[r].what = "data" /\ net[r].session # "live"
          /\ Sends(r, Reply("401", "none"))
          /\ UNCHANGED carried
    /\ UNCHANGED <<client, faults, restarts, lost>>

\* The request or its answer does not get through before the timeout.
Lose(r) ==
    /\ net[r] # NULL /\ net[r].what # "lost"
    /\ Fault
    /\ Sends(r, Reply("lost", "none"))
    /\ lost' = IF at[r] = "data" /\ Back(r) /\ Got(r) # "401" THEN lost \cup {r} ELSE lost
    /\ UNCHANGED <<client, restarts, carried>>

Dead(s) == IF s = "live" THEN "dead" ELSE s

\* Sessions are kept in the memory of the node only.
Restart(n) ==
    /\ Fault
    /\ restarts' = restarts + 1
    /\ session' = [session EXCEPT ![n] = Dead(@)]
    /\ net' = [r \in Request |->
                 IF net[r] # NULL /\ Here(r) = n THEN [net[r] EXCEPT !.session = Dead(@)] ELSE net[r]]
    /\ UNCHANGED <<at, todo, retried, refused, result, inflight, active, pending, carried, lost>>

Init ==
    /\ at = [r \in Request |-> "idle"]
    /\ todo = [r \in Request |-> <<>>]
    /\ retried = [r \in Request |-> FALSE]
    /\ refused = [r \in Request |-> NULL]
    /\ net = [r \in Request |-> NULL]
    /\ result = [r \in Request |-> "none"]
    /\ inflight = 0
    /\ active = 1
    /\ session = [n \in Node |-> "none"]
    /\ pending = {}
    /\ faults = MaxFaults
    /\ restarts = 0
    /\ carried = [r \in Request |-> [n \in Node |-> 0]]
    /\ lost = {}

Step(r) ==
    _acquire_slot(r) \/ _ensure_login(r) \/ Waited(r) \/ LoggedIn(r) \/ Answered(r) \/ Serve(r)

\* process_frame: whoever waits for a slot or for a login looks again.
Frame == UNCHANGED vars

Next ==
    \/ \E r \in Request : Start(r) \/ Step(r) \/ Lose(r)
    \/ \E n \in Node : Restart(n)
    \/ Frame

\* The loops over process_frame go on, and HTTPRequest ends in an answer or in its
\* timeout.
Fairness == \A r \in Request : WF_vars(Step(r))

Spec == Init /\ [][Next]_vars /\ Fairness

-----------------------------------------------------------------------------
(* Properties                                                               *)

Holding == {r \in Request : at[r] \notin {"idle", "slot", "done"}}

\* Types, and that the slots taken are those of requests on their way: none is lost
\* and none given back twice (api.gd _do_request, _release_slot).
TypeOK ==
    /\ at \in [Request -> {"idle", "slot", "node", "wait", "login", "data", "done"}]
    /\ \A r \in Request : todo[r] \in Seq(Node) /\ (r \in Holding <=> todo[r] # <<>>)
    /\ refused \in [Request -> Node \cup {NULL}]
    /\ result \in [Request -> {"none", "ok", "error", "401", "refused", "unreachable"}]
    /\ inflight = Cardinality(Holding)
    /\ inflight <= MAX_CONCURRENT_REQUESTS
    /\ active \in Node
    /\ session \in [Node -> {"none", "live", "dead"}]
    /\ pending = {Here(r) : r \in {r \in Request : at[r] = "login"}}

\* Every request comes to an end, however many wait for slots and for each other's
\* logins (api.gd: a login is sent under the slot of the request that needs it).
GetsAnswer == \A r \in Request : at[r] = "slot" ~> at[r] = "done"

\* A restart of one node, whatever is on its way then, is not noticed by any caller
\* (api.gd: 服务器重启过：会话只在内存里，用存的 身份/PIN 重登一次再试).
RestartUnnoticed ==
    /\ faults + restarts = MaxFaults
    /\ restarts <= 1
    /\ 1 \notin Refusing
    => \A r \in Request : result[r] \in {"none", "ok", "error"}

\* Walking the list and asking again carry out no request twice, unless the answer
\* to the first was lost (api.gd _do_request_slot_held).
CarriedOutOnce ==
    \A r \in Request \ lost :
        \A n \in Node, m \in Node : carried[r][n] <= 1 /\ (n # m => carried[r][n] + carried[r][m] <= 1)
=============================================================================
