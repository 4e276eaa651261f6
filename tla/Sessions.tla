------------------------------ MODULE Sessions ------------------------------
(***************************************************************************)
(* Who is logged in.  The server keeps sessions in memory, under a lock of  *)
(* their own, and PINs in the database: a login and a change of PIN each     *)
(* take one transaction and one or two accesses to the session table, and    *)
(* requests served in parallel interleave between them.                      *)
(*                                                                         *)
(* Left out: the shape of names and PINs, hashing and salts, and the family  *)
(* token every route asks for first.                                        *)
(***************************************************************************)
EXTENDS Integers, FiniteSets

CONSTANTS
    Identity,
    PIN,
    Token,      \* session tokens; one in no session stands for a fresh random one
    Conn,       \* requests served in parallel
    NULL,
    MaxChanges  \* bound: changes of PIN per identity

ASSUME NullAssumption == NULL \notin PIN \cup Identity
ASSUME ChangesAssumption == MaxChanges \in Nat

VARIABLES
    pin,       \* identity -> its PIN, NULL until it registers
    changes,   \* history: how often its PIN was changed
    sessions,  \* token -> session, for the live ones
    conn       \* what each request is doing

vars == <<pin, changes, sessions, conn>>

\* Besides its identity a session is marked, as history, with the PIN that opened
\* it and the PIN that was valid when it was made, counted in changes.
Session == [who: Identity, opened: 0..MaxChanges, made: 0..MaxChanges]

\* A login has passed its PIN check ("authed"); a change of PIN has passed the
\* session check ("admitted"), is committed ("changed"), has logged the identity
\* out ("dropped").
ConnState == [at: {"authed", "admitted", "changed", "dropped"},
              who: Identity, opened: 0..MaxChanges]
Idle == [at |-> "idle"]

Changing(i) == \E c \in Conn : conn[c].at = "changed" /\ conn[c].who = i

-----------------------------------------------------------------------------
(* Logging in                                                               *)

\* Mutant: a name is let in that never registers.
AuthNoRegister(c, i, p) ==
    /\ conn[c] = Idle
    /\ pin[i] \in {NULL, p}
    /\ conn' = [conn EXCEPT ![c] = [at |-> "authed", who |-> i, opened |-> changes[i]]]
    /\ UNCHANGED <<pin, changes, sessions>>

\* An unknown name registers with the PIN it gives; a known one has to match.
AuthIdentity(c, i, p) ==
    /\ conn[c] = Idle
    /\ pin[i] \in {NULL, p}
    /\ pin' = [pin EXCEPT ![i] = p]
    /\ conn' = [conn EXCEPT ![c] = [at |-> "authed", who |-> i, opened |-> changes[i]]]
    /\ UNCHANGED <<changes, sessions>>

\* The last step of a login, and of a change of PIN.
newSession(c) ==
    /\ conn[c].at \in {"authed", "dropped"}
    /\ \E t \in Token \ DOMAIN sessions :
        sessions' = [u \in DOMAIN sessions \cup {t} |->
            IF u = t THEN [who |-> conn[c].who, opened |-> conn[c].opened,
                           made |-> changes[conn[c].who]]
            ELSE sessions[u]]
    /\ conn' = [conn EXCEPT ![c] = Idle]
    /\ UNCHANGED <<pin, changes>>

-----------------------------------------------------------------------------
(* Changing the PIN                                                         *)

\* The session is looked up once, before the body is read.
withIdentity(c, t) ==
    /\ conn[c] = Idle
    /\ t \in DOMAIN sessions
    /\ conn' = [conn EXCEPT ![c] =
            [at |-> "admitted", who |-> sessions[t].who, opened |-> sessions[t].opened]]
    /\ UNCHANGED <<pin, changes, sessions>>

\* Mutant: a PIN that stays the same needs no rotation.
SetIdentityPINUnlessSame(c, old, new) ==
    LET i == conn[c].who IN
    /\ conn[c].at = "admitted"
    /\ old = pin[i]
    /\ changes[i] < MaxChanges
    /\ pin' = [pin EXCEPT ![i] = new]
    /\ changes' = [changes EXCEPT ![i] = @ + 1]
    /\ conn' = [conn EXCEPT ![c] =
            [at |-> IF new = pin[i] THEN "dropped" ELSE "changed",
             who |-> i, opened |-> changes[i] + 1]]
    /\ UNCHANGED sessions

\* The old PIN is checked in the transaction that replaces it.
SetIdentityPIN(c, old, new) ==
    LET i == conn[c].who IN
    /\ conn[c].at = "admitted"
    /\ old = pin[i]
    /\ changes[i] < MaxChanges
    /\ pin' = [pin EXCEPT ![i] = new]
    /\ changes' = [changes EXCEPT ![i] = @ + 1]
    /\ conn' = [conn EXCEPT ![c] =
            [at |-> "changed", who |-> i, opened |-> changes[i] + 1]]
    /\ UNCHANGED sessions

\* The PIN it gave is wrong, or the request is malformed.
RefusePIN(c) ==
    /\ conn[c].at = "admitted"
    /\ conn' = [conn EXCEPT ![c] = Idle]
    /\ UNCHANGED <<pin, changes, sessions>>

\* Mutant: everybody is logged out.
dropEverySession(c) ==
    /\ conn[c].at = "changed"
    /\ sessions' = [t \in {} |-> NULL]
    /\ conn' = [conn EXCEPT ![c].at = "dropped"]
    /\ UNCHANGED <<pin, changes>>

dropSessions(c) ==
    /\ conn[c].at = "changed"
    /\ sessions' = [t \in {t \in DOMAIN sessions : sessions[t].who # conn[c].who}
                        |-> sessions[t]]
    /\ conn' = [conn EXCEPT ![c].at = "dropped"]
    /\ UNCHANGED <<pin, changes>>

-----------------------------------------------------------------------------
\* The server stops: sessions and requests are gone, PINs are not.
Restart ==
    /\ sessions' = [t \in {} |-> NULL]
    /\ conn' = [c \in Conn |-> Idle]
    /\ UNCHANGED <<pin, changes>>

Init ==
    /\ pin = [i \in Identity |-> NULL]
    /\ changes = [i \in Identity |-> 0]
    /\ sessions = [t \in {} |-> NULL]
    /\ conn = [c \in Conn |-> Idle]

Next ==
    \/ \E c \in Conn :
        \/ \E i \in Identity, p \in PIN : AuthIdentity(c, i, p)
        \/ newSession(c)
        \/ \E t \in Token : withIdentity(c, t)
        \/ \E old \in PIN, new \in PIN : SetIdentityPIN(c, old, new)
        \/ RefusePIN(c)
        \/ dropSessions(c)
    \/ Restart

Spec == Init /\ [][Next]_vars

-----------------------------------------------------------------------------
(* Properties                                                               *)

\* Every variable keeps its type, and only registered identities have sessions and
\* requests past their check (api.go withIdentity, store.go AuthIdentity).
TypeOK ==
    /\ pin \in [Identity -> PIN \cup {NULL}]
    /\ changes \in [Identity -> 0..MaxChanges]
    /\ DOMAIN sessions \subseteq Token
    /\ sessions \in [DOMAIN sessions -> Session]
    /\ conn \in [Conn -> ConnState \cup {Idle}]
    /\ \A c \in Conn : conn[c] # Idle => pin[conn[c].who] # NULL
    /\ \A t \in DOMAIN sessions : pin[sessions[t].who] # NULL

\* A session made before a change of PIN does not outlive that change: it is there
\* only while some change of that identity is between its transaction and dropSessions
\* (api.go handleIdentityPin).
OldSessionsDropped ==
    \A t \in DOMAIN sessions :
        sessions[t].made = changes[sessions[t].who] \/ Changing(sessions[t].who)

\* A change of PIN logs out nobody else: a session ends only when the server stops or
\* when a PIN of its identity has changed (api.go dropSessions).
OthersStayLoggedIn ==
    [][\A t \in DOMAIN sessions :
        t \in DOMAIN sessions' \/ Changing(sessions[t].who) \/ Restart]_vars

\* What api.go says of a change of PIN: it leaves no old login alive, that is, none
\* opened with a PIN that is not the valid one.
NoOldLogin ==
    \A t \in DOMAIN sessions :
        sessions[t].opened = changes[sessions[t].who] \/ Changing(sessions[t].who)
=============================================================================
