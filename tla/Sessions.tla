------------------------------- MODULE Sessions -------------------------------
(***************************************************************************)
(* The sessions of one user: AuthService.  A sign-in opens a session, and  *)
(* every refresh is to end the session it found and open the next one.     *)
(* The refresh is three calls to the database and no transaction, so two   *)
(* of them, or one and a logout, can find the same session.  A token is a  *)
(* signed payload whose only varying part is the second it was signed in,  *)
(* so the two tokens of a session are known by that second.  Refresh       *)
(* tokens outlive the run, and the user stays active.                      *)
(***************************************************************************)
EXTENDS Accounts

CONSTANTS
    SessionCaller,  \* requests in flight at once
    LastSecond      \* bound on the clock

VARIABLES
    clock,          \* the second of the day
    session,        \* rows of sessions, by the second of their tokens
    handed,         \* tokens whose answer has reached a client
    sessionCall,    \* the handler each caller is running
    forestalled     \* history, by sign-in: refreshes that had found a session
                    \* when another request revoked it

sessionVars == <<clock, session, handed, sessionCall, forestalled>>

Second == 1..LastSecond

\* origin is history: the sign-in that the session descends from.
SessionRow == [origin : Second, revoked : BOOLEAN]

\* origin: the sign-in of the session to come, or None when this is it.
SessionCall ==
    [pc : {"revoke"}, token : Second, origin : Second]
    \cup [pc : {"sign"}, token : {None}, origin : Second \cup {None}]
    \cup [pc : {"insert", "answer"}, token : Second,
          origin : Second \cup {None}]

ASSUME SessionAssumption ==
    /\ IsFiniteSet(SessionCaller)
    /\ LastSecond \in Nat \ {0}
    /\ None \notin Second \cup SessionRow \cup SessionCall

-----------------------------------------------------------------------------

SessionAt(c, pc) == sessionCall[c] # None /\ sessionCall[c].pc = pc

SessionGoto(c, pc, token) ==
    sessionCall' = [sessionCall EXCEPT ![c].pc = pc, ![c].token = token]

SessionReturn(c) == sessionCall' = [sessionCall EXCEPT ![c] = None]

LiveSession(s) == session[s] # None /\ ~ session[s].revoked

\* The refreshes that have found session s and have not revoked it yet.
Finders(s) ==
    {c \in SessionCaller : SessionAt(c, "revoke") /\ sessionCall[c].token = s}

\* Session s is revoked by a request that none of these finders makes.
Forestall(s, finders) ==
    forestalled' = IF LiveSession(s)
                 THEN [forestalled EXCEPT ![session[s].origin] =
                          @ + Cardinality(finders)]
                 ELSE forestalled

Revoke(s) == session' = [session EXCEPT ![s].revoked = TRUE]

-----------------------------------------------------------------------------
(* Requests. *)

\* login and register, once the user is known.
StartSignIn(c) ==
    /\ sessionCall[c] = None
    /\ sessionCall' = [sessionCall EXCEPT ![c] =
          [pc |-> "sign", token |-> None, origin |-> None]]
    /\ UNCHANGED <<clock, session, handed, forestalled>>

\* refreshTokens looks for the session of the token, not revoked; without one
\* it answers 401 and nothing changes.
FindSession(c, s) ==
    /\ sessionCall[c] = None
    /\ s \in handed
    /\ LiveSession(s)
    /\ sessionCall' = [sessionCall EXCEPT ![c] =
          [pc |-> "revoke", token |-> s, origin |-> session[s].origin]]
    /\ UNCHANGED <<clock, session, handed, forestalled>>

\* Faulty variant: the old session stays.
RevokeSessionNot(c) ==
    /\ SessionAt(c, "revoke")
    /\ SessionGoto(c, "sign", None)
    /\ UNCHANGED <<clock, session, handed, forestalled>>

\* The session found is revoked by its id, whoever has revoked it since.
RevokeSession(c) ==
    LET s == sessionCall[c].token IN
    /\ SessionAt(c, "revoke")
    /\ Revoke(s)
    /\ Forestall(s, Finders(s) \ {c})
    /\ SessionGoto(c, "sign", None)
    /\ UNCHANGED <<clock, handed>>

\* generateTokens.
SignTokens(c) ==
    /\ SessionAt(c, "sign")
    /\ SessionGoto(c, "insert", clock)
    /\ UNCHANGED <<clock, session, handed, forestalled>>

\* createSession.  A session signed in the same second has the same tokens,
\* and the unique index throws.
CreateSession(c) ==
    LET call == sessionCall[c] IN
    /\ SessionAt(c, "insert")
    /\ IF session[call.token] = None
       THEN /\ session' = [session EXCEPT ![call.token] =
                  [origin |-> IF call.origin = None THEN call.token
                              ELSE call.origin,
                   revoked |-> FALSE]]
            /\ SessionGoto(c, "answer", call.token)
       ELSE SessionReturn(c) /\ UNCHANGED session
    /\ UNCHANGED <<clock, handed, forestalled>>

AnswerTokens(c) ==
    /\ SessionAt(c, "answer")
    /\ handed' = handed \cup {sessionCall[c].token}
    /\ SessionReturn(c)
    /\ UNCHANGED <<clock, session, forestalled>>

\* logout revokes the session of the access token, unless it is revoked.  The
\* guard before it asks for the signature, the expiry and the user only.
Logout(s) ==
    /\ s \in handed
    /\ LiveSession(s)
    /\ Revoke(s)
    /\ Forestall(s, Finders(s))
    /\ UNCHANGED <<clock, handed, sessionCall>>

-----------------------------------------------------------------------------
(* Time and faults. *)

Tick ==
    /\ clock < LastSecond
    /\ clock' = clock + 1
    /\ UNCHANGED <<session, handed, sessionCall, forestalled>>

\* The server or the database fails, or the answer is lost.
AbandonSession(c) ==
    /\ sessionCall[c] # None
    /\ SessionReturn(c)
    /\ UNCHANGED <<clock, session, handed, forestalled>>

-----------------------------------------------------------------------------

SessionInit ==
    /\ clock = 1
    /\ session = [s \in Second |-> None]
    /\ handed = {}
    /\ sessionCall = [c \in SessionCaller |-> None]
    /\ forestalled = [s \in Second |-> 0]

SessionNext ==
    \/ \E c \in SessionCaller :
          \/ StartSignIn(c)
          \/ \E s \in Second : FindSession(c, s)
          \/ RevokeSession(c) \/ SignTokens(c) \/ CreateSession(c)
          \/ AnswerTokens(c) \/ AbandonSession(c)
    \/ \E s \in Second : Logout(s)
    \/ Tick

-----------------------------------------------------------------------------
(* Properties. *)

SessionTypeOK ==
    /\ clock \in Second
    /\ session \in [Second -> SessionRow \cup {None}]
    /\ handed \subseteq {s \in Second : session[s] # None}
    /\ sessionCall \in [SessionCaller -> SessionCall \cup {None}]
    /\ forestalled \in [Second -> Nat]

\* Rotation keeps a sign-in at one live session: each one more is due to a
\* refresh that had found a session when another request revoked it, through
\* any overlap of refreshes and logouts, tokens presented again, lost answers
\* and refreshes that broke off.
RotationBounded ==
    \A o \in Second :
        Cardinality({s \in Second : LiveSession(s) /\ session[s].origin = o})
            <= 1 + forestalled[o]

=============================================================================
