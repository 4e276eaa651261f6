--------------------------- MODULE SessionsProofs ---------------------------
(***************************************************************************)
(* Proofs about module Sessions, for any identities, PINs, tokens and        *)
(* requests.  With the types, OldSessionsDropped is inductive: a change of   *)
(* PIN makes every session of its identity old, and is from then on, until it *)
(* has dropped them, the change the invariant speaks of.                     *)
(***************************************************************************)
EXTENDS Sessions, TLAPS

IInv == TypeOK /\ OldSessionsDropped

LEMMA InitIInv == Init => IInv
BY ChangesAssumption DEF Init, IInv, TypeOK, OldSessionsDropped, Idle

\* The table newSession leaves: one session more, of the identity of the request.
LEMMA SessionMade ==
    ASSUME TypeOK, NEW c \in Conn, newSession(c)
    PROVE  /\ conn[c].who \in Identity
           /\ DOMAIN sessions' \subseteq Token
           /\ sessions' \in [DOMAIN sessions' -> Session]
           /\ \A u \in DOMAIN sessions' :
                \/ u \in DOMAIN sessions /\ sessions'[u] = sessions[u]
                \/ /\ sessions'[u].who = conn[c].who
                   /\ sessions'[u].made = changes[conn[c].who]
           /\ DOMAIN sessions \subseteq DOMAIN sessions'
<1> USE DEF TypeOK, ConnState, Idle, Session
<1>1. conn[c].who \in Identity /\ conn[c].opened \in 0..MaxChanges
  BY DEF newSession
<1>2. PICK t \in Token \ DOMAIN sessions :
        sessions' = [u \in DOMAIN sessions \cup {t} |->
            IF u = t THEN [who |-> conn[c].who, opened |-> conn[c].opened,
                           made |-> changes[conn[c].who]]
            ELSE sessions[u]]
  BY DEF newSession
<1> QED BY <1>1, <1>2

\* Every step keeps the types.
LEMMA TypeStep ==
    ASSUME TypeOK, [Next]_vars
    PROVE  TypeOK'
<1>0. ASSUME NEW c \in Conn, newSession(c)
      PROVE  /\ DOMAIN sessions' \subseteq Token
             /\ sessions' \in [DOMAIN sessions' -> Session]
             /\ \A u \in DOMAIN sessions' :
                  \/ u \in DOMAIN sessions /\ sessions'[u] = sessions[u]
                  \/ /\ sessions'[u].who = conn[c].who
                     /\ sessions'[u].made = changes[conn[c].who]
  BY <1>0, SessionMade
<1> USE NullAssumption, ChangesAssumption DEF TypeOK, Idle, ConnState
<1>1. ASSUME NEW c \in Conn, NEW i \in Identity, NEW p \in PIN, AuthIdentity(c, i, p)
      PROVE  TypeOK'
  BY <1>1 DEF AuthIdentity, Session
<1>2. ASSUME NEW c \in Conn, newSession(c) PROVE TypeOK'
  <2>1. conn[c] # Idle
    BY <1>2 DEF newSession
  <2> QED BY <1>0, <1>2, <2>1 DEF newSession
<1>3. ASSUME NEW c \in Conn, NEW t \in Token, withIdentity(c, t) PROVE TypeOK'
  <2>1. sessions[t].who \in Identity /\ sessions[t].opened \in 0..MaxChanges
    BY <1>3 DEF withIdentity, Session
  <2> QED BY <1>3, <2>1 DEF withIdentity
<1>4. ASSUME NEW c \in Conn, NEW old \in PIN, NEW new \in PIN, SetIdentityPIN(c, old, new)
      PROVE  TypeOK'
  <2>1. conn[c].who \in Identity /\ changes[conn[c].who] + 1 \in 0..MaxChanges
    BY <1>4 DEF SetIdentityPIN
  <2> QED BY <1>4, <2>1 DEF SetIdentityPIN, Session
<1>5. ASSUME NEW c \in Conn, RefusePIN(c) PROVE TypeOK'
  BY <1>5 DEF RefusePIN
<1>6. ASSUME NEW c \in Conn, dropSessions(c) PROVE TypeOK'
  <2>1. [conn[c] EXCEPT !.at = "dropped"] \in ConnState
    BY <1>6 DEF dropSessions
  <2> QED BY <1>6, <2>1 DEF dropSessions
<1>7. CASE Restart
  BY <1>7 DEF Restart
<1>8. CASE UNCHANGED vars
  BY <1>8 DEF vars
<1> QED BY <1>1, <1>2, <1>3, <1>4, <1>5, <1>6, <1>7, <1>8 DEF Next

\* Every step keeps old sessions to those a pending change is about to drop.
LEMMA DropStep ==
    ASSUME TypeOK, OldSessionsDropped, [Next]_vars
    PROVE  OldSessionsDropped'
<1>0. ASSUME NEW c \in Conn, newSession(c)
      PROVE  /\ DOMAIN sessions' \subseteq Token
             /\ sessions' \in [DOMAIN sessions' -> Session]
             /\ \A u \in DOMAIN sessions' :
                  \/ u \in DOMAIN sessions /\ sessions'[u] = sessions[u]
                  \/ /\ sessions'[u].who = conn[c].who
                     /\ sessions'[u].made = changes[conn[c].who]
  BY <1>0, SessionMade
<1> USE DEF TypeOK, OldSessionsDropped, Changing, Idle
<1>1. ASSUME NEW c \in Conn, NEW i \in Identity, NEW p \in PIN, AuthIdentity(c, i, p)
      PROVE  OldSessionsDropped'
  BY <1>1 DEF AuthIdentity
<1>2. ASSUME NEW c \in Conn, newSession(c) PROVE OldSessionsDropped'
  <2>1. /\ changes' = changes
        /\ \A d \in Conn : conn[d].at = "changed" => conn'[d] = conn[d]
    BY <1>2 DEF newSession
  <2> QED BY <1>0, <1>2, <2>1
<1>3. ASSUME NEW c \in Conn, NEW t \in Token, withIdentity(c, t) PROVE OldSessionsDropped'
  BY <1>3 DEF withIdentity
<1>4. ASSUME NEW c \in Conn, NEW old \in PIN, NEW new \in PIN, SetIdentityPIN(c, old, new)
      PROVE  OldSessionsDropped'
  BY <1>4 DEF SetIdentityPIN, Session
<1>5. ASSUME NEW c \in Conn, RefusePIN(c) PROVE OldSessionsDropped'
  BY <1>5 DEF RefusePIN
<1>6. ASSUME NEW c \in Conn, dropSessions(c) PROVE OldSessionsDropped'
  BY <1>6 DEF dropSessions
<1>7. CASE Restart
  BY <1>7 DEF Restart
<1>8. CASE UNCHANGED vars
  BY <1>8 DEF vars
<1> QED BY <1>1, <1>2, <1>3, <1>4, <1>5, <1>6, <1>7, <1>8 DEF Next

\* Sessions, PINs and requests keep their types, for any number of each.
THEOREM TypeCorrect == Spec => []TypeOK
<1>1. Init => TypeOK
  BY InitIInv DEF IInv
<1> QED BY <1>1, TypeStep, PTL DEF Spec

\* A change of PIN leaves no session of before it alive, once it has answered, for any
\* number of logins and changes in progress at once.
THEOREM RotationDropsOldSessions == Spec => []OldSessionsDropped
<1>1. IInv /\ [Next]_vars => IInv'
  BY TypeStep, DropStep DEF IInv
<1> QED BY InitIInv, <1>1, PTL DEF Spec, IInv

\* A session ends only by a restart or by a change of its own identity's PIN.
THEOREM RotationIsPrivate == Spec => OthersStayLoggedIn
<1>1. TypeOK /\ [Next]_vars =>
        [\A t \in DOMAIN sessions : t \in DOMAIN sessions' \/ Changing(sessions[t].who)
                                     \/ Restart]_vars
  <2> SUFFICES ASSUME TypeOK, Next, NEW t \in DOMAIN sessions, ~Changing(sessions[t].who),
                      ~Restart
               PROVE  t \in DOMAIN sessions'
    OBVIOUS
  <2>1. ASSUME NEW c \in Conn, dropSessions(c) PROVE t \in DOMAIN sessions'
    BY <2>1 DEF dropSessions, Changing
  <2>2. ASSUME NEW c \in Conn, newSession(c) PROVE t \in DOMAIN sessions'
    BY <2>2, SessionMade
  <2> QED BY <2>1, <2>2 DEF Next, AuthIdentity, withIdentity, SetIdentityPIN, RefusePIN
<1> QED BY <1>1, TypeCorrect, PTL DEF Spec, OthersStayLoggedIn
=============================================================================
