---------------------------- MODULE AccountProofs ----------------------------
(***************************************************************************)
(* The properties of LoginSessions, for any handlers, states, tokens and   *)
(* lifetimes, and of CredentialVault, for any users, keys and KEK          *)
(* versions and any assignment of requests to handlers.                    *)
(*                                                                         *)
(* A login state that no two callbacks found unconsumed at once is worked  *)
(* on by one callback, once.  The sessions that descend from it are then   *)
(* one branch: one session is accepted, or one handler is about to replace *)
(* it, and after a log-out neither.                                        *)
(*                                                                         *)
(* A record of the vault, and what a handler read of it, is its user's.    *)
(***************************************************************************)
EXTENDS LoginSessions, CredentialVault, TLAPS


Calling == {"checked", "exchanging", "resolved"}
Holding == {"entering", "inside", "rotating"}

\* What a handler has in hand at each label.
HandlerHolds ==
  \A h \in Handlers :
    /\ pc[h] \in Calling => state[h] \in States /\ code[h] \in codes /\ pending[state[h]] # None
    /\ pc[h] \in Holding => token[h] \in Tokens /\ sessions[token[h]] # None
    /\ pc[h] = "resolved" => code[h].valid /\ code[h].nonce = state[h]

CallsWith(g, s) == pc[g] \in Calling /\ state[g] = s

\* The callbacks of a state that was not doubled.
OneCallFor(s) ==
  /\ \A g, h \in Handlers : CallsWith(g, s) /\ CallsWith(h, s) => g = h
  /\ made[s] \in {0, 1}
  /\ made[s] = 1 => \A g \in Handlers : ~CallsWith(g, s)
  /\ made[s] = 1 \/ (\E g \in Handlers : CallsWith(g, s) /\ pc[g] # "checked")
       => pending[s] # None /\ pending[s].consumed

OneCall == \A s \in States \ doubled : OneCallFor(s)

Descends(t, s) == t \in Tokens /\ sessions[t] # None /\ sessions[t].login = s
Live(t, s) == Descends(t, s) /\ ~sessions[t].revoked
HandlesAt(g, label, s) == pc[g] = label /\ Descends(token[g], s)

\* The sessions of a login that no other request was inside of at a log-out or rotation.
OneBranchOf(s) ==
  /\ \A t, u \in Tokens : Live(t, s) /\ Live(u, s) => t = u
  /\ \A g \in Handlers : HandlesAt(g, "inside", s) => Live(token[g], s)
  /\ \A g, h \in Handlers :
       HandlesAt(g, "rotating", s) /\ HandlesAt(h, "rotating", s) => g = h
  /\ \A g \in Handlers : HandlesAt(g, "rotating", s) => \A t \in Tokens : ~Live(t, s)
  /\ s \in out => /\ \A t \in Tokens : ~Live(t, s)
                  /\ \A g \in Handlers : ~HandlesAt(g, "rotating", s)

OneBranch == \A s \in States \ (crossed \cup doubled) : OneBranchOf(s)

\* A session, and a log-out, is of a login that made a session.
LoginsMade ==
  /\ \A t \in Tokens : sessions[t] # None => made[sessions[t].login] # 0
  /\ \A s \in out : made[s] # 0

TypeInv == TypeOK /\ HandlerHolds /\ SessionsFollowLogins
IInv == TypeInv /\ OneCall /\ OneBranch /\ LoginsMade

-----------------------------------------------------------------------------

LEMMA InitTyped == Init => TypeInv
BY LoginAssumption DEF Init, TypeInv, TypeOK, HandlerHolds, SessionsFollowLogins,
   Labels, Calling, Holding, Times

\* Marking a record keeps its other fields, and a record is not None.
LEMMA Marked ==
  /\ \A p \in Pending : LET q == [p EXCEPT !.consumed = TRUE] IN
       q \in Pending /\ q # None /\ q.consumed
  /\ \A p \in Session : LET q == [p EXCEPT !.revoked = TRUE] IN
       q \in Session /\ q # None /\ q.revoked /\ q.user = p.user /\ q.login = p.login
BY LoginAssumption DEF Pending, Session

\* Every handler returned to idle keeps what the others hold.
LEMMA Returned ==
  ASSUME TypeOK, NEW h \in Handlers, Return(h)
  PROVE  /\ pc' \in [Handlers -> Labels] /\ state' \in [Handlers -> States \cup {None}]
         /\ code' \in [Handlers -> Claims \cup {None}] /\ now' \in [Handlers -> 0 .. MaxTime]
         /\ token' \in [Handlers -> Tokens \cup {None}]
         /\ pc'[h] = "idle"
         /\ \A g \in Handlers \ {h} :
              pc'[g] = pc[g] /\ state'[g] = state[g] /\ code'[g] = code[g]
              /\ now'[g] = now[g] /\ token'[g] = token[g]
<1>1. 0 \in 0 .. MaxTime
  BY LoginAssumption
<1> QED
  BY <1>1 DEF TypeOK, Return, Goto, Labels

\* A revocation changes only whether the session is accepted.
LEMMA Revoked ==
  ASSUME TypeOK, NEW t \in Tokens, sessions[t] # None, Revoke(t)
  PROVE  /\ sessions' \in [Tokens -> Session \cup {None}]
         /\ sessions'[t] # None /\ sessions'[t].revoked
         /\ sessions'[t].user = sessions[t].user /\ sessions'[t].login = sessions[t].login
         /\ \A u \in Tokens \ {t} : sessions'[u] = sessions[u]
<1>1. sessions[t] \in Session
  BY DEF TypeOK
<1>2. sessions' = [sessions EXCEPT ![t] = [sessions[t] EXCEPT !.revoked = TRUE]]
  BY DEF Revoke
<1> QED
  BY <1>1, <1>2, Marked DEF TypeOK

\* A new session takes a free token.
LEMMA Created ==
  ASSUME TypeOK, NEW t \in Tokens, NEW who \in Subjects, NEW at \in 0 .. MaxTime,
         NEW login \in States, NewSession(t, who, at, login)
  PROVE  /\ sessions[t] = None
         /\ sessions' \in [Tokens -> Session \cup {None}]
         /\ sessions'[t] # None /\ sessions'[t].user = who /\ sessions'[t].login = login
         /\ ~sessions'[t].revoked
         /\ \A u \in Tokens \ {t} : sessions'[u] = sessions[u]
<1>1. at + SessionTtl \in Times
  BY LoginAssumption DEF Times
<1>2. [user |-> who, expires |-> at + SessionTtl, revoked |-> FALSE, login |-> login] \in Session
  BY <1>1 DEF Session
<1> QED
  BY <1>2, LoginAssumption DEF TypeOK, NewSession

\* Every step keeps the shape of the stores, what a handler has in hand, and
\* the sign-in behind every session.
LEMMA StepTyped == TypeInv /\ [Next]_vars => TypeInv'
<1> SUFFICES ASSUME TypeInv, [Next]_vars PROVE TypeInv'
  OBVIOUS
<1> USE DEF TypeInv
<1>1. CASE Tick
  BY <1>1, LoginAssumption DEF Tick, TypeOK, HandlerHolds, SessionsFollowLogins, locals, history
<1>2. ASSUME NEW s \in States, NEW who \in Subjects, NEW valid \in BOOLEAN,
             Authorize(s, who, valid)
      PROVE  TypeInv'
  <2>1. clock + CodeTtl \in Times
    BY LoginAssumption DEF TypeOK, Times
  <2>2. TypeOK'
    BY <1>2, <2>1 DEF Authorize, TypeOK, Claims, locals, history
  <2> QED
    BY <1>2, <2>2 DEF Authorize, HandlerHolds, SessionsFollowLogins, locals, history
<1>3. ASSUME NEW h \in Handlers, NEW s \in States, BeginLogin(h, s)
      PROVE  TypeInv'
  <2>1. [expires |-> clock + StateTtl, consumed |-> FALSE] \in Pending
    BY LoginAssumption DEF TypeOK, Times, Pending
  <2>2. TypeOK' /\ \A r \in States : pending[r] # None => pending'[r] # None
    BY <1>3, <2>1, LoginAssumption DEF BeginLogin, TypeOK, locals, history
  <2> QED
    BY <1>3, <2>2 DEF BeginLogin, TypeOK, HandlerHolds, SessionsFollowLogins, locals, history
<1>4. ASSUME NEW h \in Handlers, NEW s \in States, NEW k \in codes, ReceiveCallback(h, s, k)
      PROVE  TypeInv'
  <2>1. TypeOK'
    BY <1>4 DEF ReceiveCallback, Goto, TypeOK, Labels
  <2> QED
    BY <1>4, <2>1 DEF ReceiveCallback, Goto, TypeOK, HandlerHolds, SessionsFollowLogins,
       Calling, Holding
<1>5. ASSUME NEW h \in Handlers, Consume(h)
      PROVE  TypeInv'
  <2>1. state[h] \in States /\ pending[state[h]] \in Pending
    BY <1>5 DEF Consume, TypeOK, HandlerHolds, Calling
  <2>2. pending' = [pending EXCEPT ![state[h]] = [pending[state[h]] EXCEPT !.consumed = TRUE]]
    BY <1>5 DEF Consume
  <2>3. TypeOK' /\ \A s \in States : pending[s] # None => pending'[s] # None
    BY <1>5, <2>1, <2>2, Marked DEF Consume, Goto, TypeOK, Labels, locals, history
  <2> QED
    BY <1>5, <2>3 DEF Consume, Goto, TypeOK, HandlerHolds, SessionsFollowLogins,
       Calling, Holding, locals, history
<1>6. ASSUME NEW h \in Handlers, Exchange(h)
      PROVE  TypeInv'
  <2>1. TypeOK'
    BY <1>6 DEF Exchange, Goto, TypeOK, Labels, locals, history
  <2> QED
    BY <1>6, <2>1 DEF Exchange, Accepted, Goto, TypeOK, HandlerHolds, SessionsFollowLogins,
       Calling, Holding, locals, history
<1>7. ASSUME NEW h \in Handlers, ExchangeFails(h)
      PROVE  TypeInv'
  BY <1>7, Returned DEF ExchangeFails, TypeOK, HandlerHolds, SessionsFollowLogins,
     Calling, Holding, history
<1>8. ASSUME NEW h \in Handlers, NEW t \in Tokens, CompleteCallback(h, t)
      PROVE  TypeInv'
  <2>1. /\ state[h] \in States /\ code[h] \in codes /\ code[h] \in Claims
        /\ code[h].valid /\ code[h].nonce = state[h]
    BY <1>8 DEF CompleteCallback, TypeOK, HandlerHolds, Calling
  <2>2. code[h].subject \in Subjects /\ now[h] \in 0 .. MaxTime
    BY <2>1 DEF Claims, TypeOK
  <2>3. /\ sessions[t] = None
        /\ sessions' \in [Tokens -> Session \cup {None}]
        /\ sessions'[t] # None
        /\ sessions'[t].user = code[h].subject /\ sessions'[t].login = state[h]
        /\ \A u \in Tokens \ {t} : sessions'[u] = sessions[u]
    BY <1>8, <2>1, <2>2, Created DEF CompleteCallback
  <2>4. TypeOK'
    BY <1>8, <2>1, <2>3, Returned DEF CompleteCallback, TypeOK
  <2>5. HandlerHolds'
    BY <1>8, <2>3, Returned DEF CompleteCallback, HandlerHolds, Calling, Holding
  <2>6. SessionsFollowLogins'
    BY <1>8, <2>1, <2>3 DEF CompleteCallback, SessionsFollowLogins
  <2> QED
    BY <2>4, <2>5, <2>6
<1>9. ASSUME NEW h \in Handlers, NEW t \in Tokens, ReceiveRequest(h, t)
      PROVE  TypeInv'
  <2>1. TypeOK'
    BY <1>9 DEF ReceiveRequest, Goto, TypeOK, Labels, history
  <2> QED
    BY <1>9, <2>1 DEF ReceiveRequest, Goto, TypeOK, HandlerHolds, SessionsFollowLogins,
       Calling, Holding, history
<1>10. ASSUME NEW h \in Handlers, RequireSession(h)
       PROVE  TypeInv'
  <2>1. CASE Goto(h, "inside") /\ UNCHANGED locals
    <3>1. TypeOK'
      BY <1>10, <2>1 DEF RequireSession, Goto, TypeOK, Labels, locals, history
    <3> QED
      BY <1>10, <2>1, <3>1 DEF RequireSession, Goto, TypeOK, HandlerHolds,
         SessionsFollowLogins, Calling, Holding, locals, history
  <2>2. CASE Return(h)
    BY <1>10, <2>2, Returned DEF RequireSession, TypeOK, HandlerHolds, SessionsFollowLogins,
       Calling, Holding, history
  <2> QED
    BY <1>10, <2>1, <2>2 DEF RequireSession
<1>11. ASSUME NEW h \in Handlers, Leave(h)
       PROVE  TypeInv'
  BY <1>11, Returned DEF Leave, TypeOK, HandlerHolds, SessionsFollowLogins,
     Calling, Holding, history
<1>12. ASSUME NEW h \in Handlers, Logout(h)
       PROVE  TypeInv'
  <2>1. token[h] \in Tokens /\ sessions[token[h]] # None
    BY <1>12 DEF Logout, HandlerHolds, Holding
  <2>2. sessions[token[h]].login \in States
    BY <2>1 DEF TypeOK, Session
  <2>3. /\ sessions' \in [Tokens -> Session \cup {None}]
        /\ \A t \in Tokens :
             /\ sessions'[t] # None <=> sessions[t] # None
             /\ sessions'[t].user = sessions[t].user /\ sessions'[t].login = sessions[t].login
    BY <1>12, <2>1, Revoked DEF Logout
  <2>4. TypeOK'
    BY <1>12, <2>2, <2>3, Returned DEF Logout, NoteOthers, TypeOK
  <2>5. HandlerHolds'
    BY <1>12, <2>3, Returned DEF Logout, HandlerHolds, Calling, Holding
  <2> QED
    BY <1>12, <2>3, <2>4, <2>5 DEF Logout, SessionsFollowLogins
<1>13. ASSUME NEW h \in Handlers, BeginRotate(h)
       PROVE  TypeInv'
  <2>1. token[h] \in Tokens /\ sessions[token[h]] # None
    BY <1>13 DEF BeginRotate, HandlerHolds, Holding
  <2>2. sessions[token[h]].login \in States
    BY <2>1 DEF TypeOK, Session
  <2>3. /\ sessions' \in [Tokens -> Session \cup {None}]
        /\ \A t \in Tokens :
             /\ sessions'[t] # None <=> sessions[t] # None
             /\ sessions'[t].user = sessions[t].user /\ sessions'[t].login = sessions[t].login
    BY <1>13, <2>1, Revoked DEF BeginRotate
  <2>4. TypeOK'
    BY <1>13, <2>2, <2>3 DEF BeginRotate, NoteOthers, Goto, TypeOK, Labels, locals
  <2>5. HandlerHolds'
    BY <1>13, <2>1, <2>3 DEF BeginRotate, Goto, TypeOK, HandlerHolds, Calling, Holding, locals
  <2> QED
    BY <1>13, <2>3, <2>4, <2>5 DEF BeginRotate, SessionsFollowLogins, locals
<1>14. ASSUME NEW h \in Handlers, NEW t \in Tokens, FinishRotate(h, t)
       PROVE  TypeInv'
  <2> DEFINE old == sessions[token[h]]
  <2>1. token[h] \in Tokens /\ old # None
    BY <1>14 DEF FinishRotate, HandlerHolds, Holding
  <2>2. old.user \in Subjects /\ old.login \in States /\ now[h] \in 0 .. MaxTime
    BY <2>1 DEF TypeOK, Session
  <2>3. /\ sessions[t] = None
        /\ sessions' \in [Tokens -> Session \cup {None}]
        /\ sessions'[t] # None
        /\ sessions'[t].user = old.user /\ sessions'[t].login = old.login
        /\ \A u \in Tokens \ {t} : sessions'[u] = sessions[u]
    BY <1>14, <2>2, Created DEF FinishRotate
  <2>4. TypeOK'
    BY <1>14, <2>3, Returned DEF FinishRotate, TypeOK, history
  <2>5. HandlerHolds'
    BY <1>14, <2>3, Returned DEF FinishRotate, HandlerHolds, Calling, Holding
  <2>6. SessionsFollowLogins'
    BY <1>14, <2>1, <2>3 DEF FinishRotate, SessionsFollowLogins, history
  <2> QED
    BY <2>4, <2>5, <2>6
<1>15. CASE UNCHANGED vars
  BY <1>15 DEF vars, TypeOK, HandlerHolds, SessionsFollowLogins, locals, history
<1> QED
  BY <1>1, <1>2, <1>3, <1>4, <1>5, <1>6, <1>7, <1>8, <1>9, <1>10, <1>11, <1>12, <1>13, <1>14,
     <1>15 DEF Next, Callback, Request

\* The dictionaries keep their shape, and every session, rotated ones too,
\* belongs to somebody who signed in at Google for the login it came from:
\* no browser ends up in a foreign account, whatever handlers interleave.
THEOREM LoginsCorrect == Spec => []LoginsAreSound
<1>1. TypeInv => LoginsAreSound
  BY DEF TypeInv, LoginsAreSound
<1> QED
  BY <1>1, InitTyped, StepTyped, PTL DEF Spec

-----------------------------------------------------------------------------

\* Callbacks that only end, or change nothing, keep OneCall.
LEMMA CallsKept ==
  ASSUME OneCall, UNCHANGED <<pending, made, doubled>>,
         \A g \in Handlers : pc'[g] \in Calling => pc'[g] = pc[g] /\ state'[g] = state[g]
  PROVE  OneCall'
BY DEF OneCall, OneCallFor, CallsWith

\* A state that was not doubled has one callback at work, and one session made.
LEMMA StepOneCall == TypeInv /\ OneCall /\ [Next]_vars => OneCall'
<1> SUFFICES ASSUME TypeInv, OneCall, [Next]_vars PROVE OneCall'
  OBVIOUS
<1> USE DEF TypeInv
<1>1. CASE Tick \/ UNCHANGED vars
  BY <1>1, CallsKept DEF Tick, vars, locals, history
<1>2. ASSUME NEW s \in States, NEW who \in Subjects, NEW valid \in BOOLEAN,
             Authorize(s, who, valid)
      PROVE  OneCall'
  BY <1>2, CallsKept DEF Authorize, locals, history
<1>3. ASSUME NEW h \in Handlers, NEW s \in States, BeginLogin(h, s)
      PROVE  OneCall'
  <2>1. \A r \in States \ {s} : pending'[r] = pending[r]
    BY <1>3 DEF BeginLogin, TypeOK
  <2>2. \A g \in Handlers : CallsWith(g, s) => FALSE
    BY <1>3 DEF BeginLogin, CallsWith, HandlerHolds
  <2>3. s \notin doubled => made[s] = 0
    BY <1>3 DEF BeginLogin, OneCall, OneCallFor
  <2> QED
    BY <1>3, <2>1, <2>2, <2>3 DEF BeginLogin, OneCall, OneCallFor, CallsWith, locals, history
<1>4. ASSUME NEW h \in Handlers, NEW s \in States, NEW k \in codes, ReceiveCallback(h, s, k)
      PROVE  OneCall'
  <2>1. s \notin doubled' =>
          s \notin doubled /\ made[s] = 0 /\ \A g \in Handlers : ~CallsWith(g, s)
    BY <1>4 DEF ReceiveCallback, OneCall, OneCallFor, CallsWith, Calling
  <2>2. doubled \subseteq doubled' /\ pc[h] = "idle" /\ pc'[h] = "checked" /\ state'[h] = s
    BY <1>4 DEF ReceiveCallback, Goto, TypeOK
  <2>3. \A g \in Handlers \ {h} : pc'[g] = pc[g] /\ state'[g] = state[g]
    BY <1>4 DEF ReceiveCallback, Goto, TypeOK
  <2>4. pending' = pending /\ made' = made
    BY <1>4 DEF ReceiveCallback
  <2> SUFFICES ASSUME NEW r \in States \ doubled'
               PROVE  OneCallFor(r)'
    BY DEF OneCall, OneCallFor
  <2>5. CASE r = s
    BY <2>1, <2>2, <2>3, <2>4, <2>5 DEF OneCallFor, CallsWith
  <2>6. CASE r # s
    <3>1. \A g \in Handlers : CallsWith(g, r)' => CallsWith(g, r) /\ pc'[g] = pc[g]
      BY <2>2, <2>3, <2>6 DEF CallsWith
    <3> QED
      BY <2>2, <2>4, <3>1 DEF OneCall, OneCallFor
  <2> QED
    BY <2>5, <2>6
<1>5. ASSUME NEW h \in Handlers, Consume(h)
      PROVE  OneCall'
  <2>1. state[h] \in States /\ pending[state[h]] \in Pending
    BY <1>5 DEF Consume, TypeOK, HandlerHolds, Calling
  <2>2. pending' = [pending EXCEPT ![state[h]] = [pending[state[h]] EXCEPT !.consumed = TRUE]]
    BY <1>5 DEF Consume
  <2>3. /\ pending'[state[h]] # None /\ pending'[state[h]].consumed
        /\ \A r \in States \ {state[h]} : pending'[r] = pending[r]
    BY <2>1, <2>2, Marked DEF TypeOK
  <2>4. \A r \in States, g \in Handlers :
          /\ CallsWith(g, r)' => CallsWith(g, r)
          /\ g # h => pc'[g] = pc[g]
    BY <1>5 DEF Consume, CallsWith, Goto, TypeOK, Calling, locals
  <2>5. \A r \in States \ {state[h]} : ~CallsWith(h, r)'
    BY <1>5 DEF Consume, CallsWith, locals
  <2> QED
    BY <1>5, <2>3, <2>4, <2>5 DEF Consume, OneCall, OneCallFor, history
<1>6. ASSUME NEW h \in Handlers, Exchange(h)
      PROVE  OneCall'
  <2>1. \A r \in States, g \in Handlers :
          /\ CallsWith(g, r)' => CallsWith(g, r)
          /\ pc'[g] # "checked" => pc[g] # "checked"
    BY <1>6 DEF Exchange, CallsWith, Goto, TypeOK, Calling, locals
  <2> QED
    BY <1>6, <2>1 DEF Exchange, OneCall, OneCallFor, locals, history
<1>7. ASSUME NEW h \in Handlers, ExchangeFails(h)
      PROVE  OneCall'
  BY <1>7, Returned, CallsKept DEF ExchangeFails, Calling, history
<1>8. ASSUME NEW h \in Handlers, NEW t \in Tokens, CompleteCallback(h, t)
      PROVE  OneCall'
  <2> PICK s \in States : s = state[h]
    BY <1>8 DEF CompleteCallback, TypeOK, HandlerHolds, Calling
  <2>1. CallsWith(h, s) /\ pc[h] # "checked"
    BY <1>8 DEF CompleteCallback, CallsWith, Calling
  <2>2. \A r \in States, g \in Handlers :
          CallsWith(g, r)' => CallsWith(g, r) /\ g # h /\ pc'[g] = pc[g]
    BY <1>8, Returned DEF CompleteCallback, CallsWith, Calling
  <2>3. /\ made'[s] = made[s] + 1
        /\ \A r \in States \ {s} : made'[r] = made[r]
        /\ pending' = pending /\ doubled' = doubled
    BY <1>8 DEF CompleteCallback, TypeOK
  <2>4. s \notin doubled =>
          /\ made'[s] = 1
          /\ pending[s] # None /\ pending[s].consumed
          /\ \A g \in Handlers : ~CallsWith(g, s)'
    <3> HAVE s \notin doubled
    <3>1. made[s] \in {0, 1} /\ made[s] # 1
      BY <2>1 DEF OneCall, OneCallFor
    <3>2. pending[s] # None /\ pending[s].consumed
      BY <2>1 DEF OneCall, OneCallFor
    <3>3. \A g \in Handlers : ~CallsWith(g, s)'
      BY <2>1, <2>2 DEF OneCall, OneCallFor
    <3> QED
      BY <2>3, <3>1, <3>2, <3>3
  <2> QED
    BY <2>2, <2>3, <2>4 DEF OneCall, OneCallFor
<1>9. ASSUME NEW h \in Handlers, Request(h)
      PROVE  OneCall'
  <2>1. \A g \in Handlers : pc'[g] \in Calling => pc'[g] = pc[g] /\ state'[g] = state[g]
    BY <1>9, Returned DEF Request, ReceiveRequest, RequireSession, Leave, Logout, BeginRotate,
       FinishRotate, Goto, TypeOK, Calling, locals
  <2>2. UNCHANGED <<pending, made, doubled>>
    BY <1>9 DEF Request, ReceiveRequest, RequireSession, Leave, Logout, NoteOthers, BeginRotate,
       FinishRotate, history
  <2> QED
    BY <2>1, <2>2, CallsKept
<1> QED
  BY <1>1, <1>2, <1>3, <1>4, <1>5, <1>6, <1>7, <1>8, <1>9 DEF Next, Callback

\* A callback replayed after the first consumed its state makes no session;
\* only two that both found the state unconsumed can.
THEOREM StatesAreUsedOnce == Spec => []StateUsedOnce
<1>1. Init => OneCall
  BY DEF Init, OneCall, OneCallFor, CallsWith, Calling
<1>2. OneCall /\ TypeInv => StateUsedOnce
  BY DEF OneCall, OneCallFor, TypeInv, TypeOK, StateUsedOnce
<1> QED
  BY <1>1, <1>2, InitTyped, StepTyped, StepOneCall, PTL DEF Spec

-----------------------------------------------------------------------------

\* A session is made by a callback, or from a session of the same login.
LEMMA StepLoginsMade == TypeInv /\ LoginsMade /\ [Next]_vars => LoginsMade'
<1> SUFFICES ASSUME TypeInv, LoginsMade, [Next]_vars PROVE LoginsMade'
  OBVIOUS
<1> USE DEF TypeInv
<1>1. ASSUME UNCHANGED <<sessions, made, out>>
      PROVE  LoginsMade'
  BY <1>1 DEF LoginsMade
<1>2. ASSUME NEW h \in Handlers, NEW t \in Tokens, CompleteCallback(h, t)
      PROVE  LoginsMade'
  <2> PICK s \in States : s = state[h]
    BY <1>2 DEF CompleteCallback, TypeOK, HandlerHolds, Calling
  <2>1. code[h].subject \in Subjects /\ now[h] \in 0 .. MaxTime
    BY <1>2 DEF CompleteCallback, TypeOK, HandlerHolds, Calling, Claims
  <2>2. sessions'[t].login = s /\ \A u \in Tokens \ {t} : sessions'[u] = sessions[u]
    BY <1>2, <2>1, Created DEF CompleteCallback
  <2>3. made'[s] # 0 /\ \A r \in States \ {s} : made'[r] = made[r]
    BY <1>2 DEF CompleteCallback, TypeOK
  <2>4. \A u \in Tokens : sessions[u] # None => sessions[u].login \in States
    BY DEF TypeOK, Session
  <2> QED
    BY <1>2, <2>2, <2>3, <2>4 DEF CompleteCallback, LoginsMade, TypeOK
<1>3. ASSUME NEW h \in Handlers, Logout(h) \/ BeginRotate(h)
      PROVE  LoginsMade'
  <2>1. token[h] \in Tokens /\ sessions[token[h]] # None
    BY <1>3 DEF Logout, BeginRotate, HandlerHolds, Holding
  <2>2. \A u \in Tokens : /\ sessions'[u] # None => sessions[u] # None
                          /\ sessions'[u].login = sessions[u].login
    BY <1>3, <2>1, Revoked DEF Logout, BeginRotate
  <2> QED
    BY <1>3, <2>1, <2>2 DEF Logout, BeginRotate, LoginsMade
<1>4. ASSUME NEW h \in Handlers, NEW t \in Tokens, FinishRotate(h, t)
      PROVE  LoginsMade'
  <2> DEFINE old == sessions[token[h]]
  <2>1. token[h] \in Tokens /\ old # None
    BY <1>4 DEF FinishRotate, HandlerHolds, Holding
  <2>2. old.user \in Subjects /\ old.login \in States /\ now[h] \in 0 .. MaxTime
    BY <2>1 DEF TypeOK, Session
  <2>3. sessions'[t].login = old.login /\ \A u \in Tokens \ {t} : sessions'[u] = sessions[u]
    BY <1>4, <2>2, Created DEF FinishRotate
  <2> QED
    BY <1>4, <2>1, <2>3 DEF FinishRotate, LoginsMade, history
<1> QED
  BY <1>1, <1>2, <1>3, <1>4 DEF Next, Callback, Request, vars, locals, history, Tick, Authorize,
     BeginLogin, ReceiveCallback, Consume, Exchange, ExchangeFails, ReceiveRequest,
     RequireSession, Leave

\* Handlers that neither enter a session nor replace one keep OneBranch.
LEMMA BranchKept ==
  ASSUME OneBranch, UNCHANGED <<sessions, out, crossed>>, doubled \subseteq doubled',
         \A g \in Handlers : pc'[g] \in {"inside", "rotating"}
                            => pc'[g] = pc[g] /\ token'[g] = token[g]
  PROVE  OneBranch'
BY DEF OneBranch, OneBranchOf, HandlesAt, Descends, Live

\* A session is revoked while no other request is inside its login, or rotates it.
LEMMA BranchCut ==
  ASSUME TypeInv, OneBranch, NEW h \in Handlers, pc[h] = "inside",
         NoteOthers(h), Revoke(token[h]),
         NEW s \in States \ (crossed' \cup doubled), Descends(token[h], s)
  PROVE  /\ s \notin crossed /\ s \notin out
         /\ \A t \in Tokens : ~Live(t, s)'
         /\ \A g \in Handlers \ {h} : ~HandlesAt(g, "inside", s) /\ ~HandlesAt(g, "rotating", s)
<1>1. token[h] \in Tokens /\ sessions[token[h]] # None /\ sessions[token[h]].login = s
  BY DEF Descends
<1>2. s \notin crossed /\ \A g \in Handlers \ {h} : ~SameLogin(g, s)
  BY <1>1 DEF NoteOthers
<1>3. Live(token[h], s) /\ \A t \in Tokens : Live(t, s) => t = token[h]
  BY <1>1, <1>2 DEF OneBranch, OneBranchOf, HandlesAt
<1>4. /\ sessions'[token[h]].revoked
      /\ \A u \in Tokens \ {token[h]} : sessions'[u] = sessions[u]
  BY <1>1, Revoked DEF TypeInv
<1>5. \A t \in Tokens : ~Live(t, s)'
  BY <1>3, <1>4 DEF Live, Descends
<1>6. s \notin out
  BY <1>1, <1>2, <1>3 DEF OneBranch, OneBranchOf
<1> QED
  BY <1>2, <1>5, <1>6 DEF HandlesAt, SameLogin, Descends

\* A login that no other request was inside of keeps one branch of sessions.
LEMMA StepOneBranch ==
  TypeInv /\ OneCall /\ LoginsMade /\ OneBranch /\ [Next]_vars => OneBranch'
<1> SUFFICES ASSUME TypeInv, OneCall, LoginsMade, OneBranch, [Next]_vars PROVE OneBranch'
  OBVIOUS
<1> USE DEF TypeInv
<1>1. CASE Tick \/ UNCHANGED vars
  BY <1>1, BranchKept DEF Tick, vars, locals, history
<1>2. ASSUME NEW s \in States, NEW who \in Subjects, NEW valid \in BOOLEAN,
             Authorize(s, who, valid)
      PROVE  OneBranch'
  BY <1>2, BranchKept DEF Authorize, locals, history
<1>3. ASSUME NEW h \in Handlers, NEW s \in States, BeginLogin(h, s)
      PROVE  OneBranch'
  BY <1>3, BranchKept DEF BeginLogin, locals, history
<1>4. ASSUME NEW h \in Handlers, NEW s \in States, NEW k \in codes, ReceiveCallback(h, s, k)
      PROVE  OneBranch'
  BY <1>4, BranchKept DEF ReceiveCallback, Goto, TypeOK
<1>5. ASSUME NEW h \in Handlers, Consume(h) \/ Exchange(h)
      PROVE  OneBranch'
  BY <1>5, BranchKept DEF Consume, Exchange, Goto, TypeOK, locals, history
<1>6. ASSUME NEW h \in Handlers, ExchangeFails(h) \/ Leave(h)
      PROVE  OneBranch'
  BY <1>6, Returned, BranchKept DEF ExchangeFails, Leave, history
<1>7. ASSUME NEW h \in Handlers, NEW t \in Tokens, ReceiveRequest(h, t)
      PROVE  OneBranch'
  BY <1>7, BranchKept DEF ReceiveRequest, Goto, TypeOK, history
<1>8. ASSUME NEW h \in Handlers, NEW t \in Tokens, CompleteCallback(h, t)
      PROVE  OneBranch'
  <2> PICK s \in States : s = state[h]
    BY <1>8 DEF CompleteCallback, TypeOK, HandlerHolds, Calling
  <2>1. code[h].subject \in Subjects /\ now[h] \in 0 .. MaxTime
    BY <1>8 DEF CompleteCallback, TypeOK, HandlerHolds, Calling, Claims
  <2>2. /\ sessions[t] = None /\ sessions'[t].login = s
        /\ \A u \in Tokens \ {t} : sessions'[u] = sessions[u]
    BY <1>8, <2>1, Created DEF CompleteCallback
  <2>3. \A g \in Handlers : pc'[g] \in {"inside", "rotating"} =>
          pc'[g] = pc[g] /\ token'[g] = token[g] /\ token[g] # t
    BY <1>8, <2>2, Returned DEF CompleteCallback, HandlerHolds, Holding
  <2>4. s \notin doubled => s \notin out /\ \A u \in Tokens : ~Descends(u, s)
    <3> HAVE s \notin doubled
    <3>1. CallsWith(h, s)
      BY <1>8 DEF CompleteCallback, CallsWith, Calling
    <3>2. made[s] = 0
      BY <3>1 DEF OneCall, OneCallFor
    <3> QED
      BY <3>2 DEF LoginsMade, Descends
  <2>5. \A r \in States, u \in Tokens : Descends(u, r)' => Descends(u, r) \/ (u = t /\ r = s)
    BY <2>2 DEF Descends
  <2>6. \A u \in Tokens \ {t}, r \in States :
          (Descends(u, r)' <=> Descends(u, r)) /\ (Live(u, r)' <=> Live(u, r))
    BY <2>2 DEF Descends, Live
  <2>7. \A r \in States, g \in Handlers, label \in {"inside", "rotating"} :
          HandlesAt(g, label, r)' =>
            HandlesAt(g, label, r) /\ token'[g] = token[g] /\ token[g] \in Tokens \ {t}
    BY <2>3, <2>6 DEF HandlesAt, Descends
  <2> SUFFICES ASSUME NEW r \in States \ (crossed \cup doubled)
               PROVE  OneBranchOf(r)'
    BY <1>8 DEF CompleteCallback, OneBranch, OneBranchOf
  <2>8. CASE r = s
    <3>1. \A g \in Handlers, label \in {"inside", "rotating"} : ~HandlesAt(g, label, r)'
      BY <2>4, <2>7, <2>8 DEF HandlesAt
    <3>2. \A u \in Tokens : Live(u, r)' => u = t
      BY <2>4, <2>6, <2>8 DEF Live
    <3> QED
      BY <1>8, <2>4, <2>8, <3>1, <3>2 DEF CompleteCallback, OneBranchOf
  <2>9. CASE r # s
    <3>1. \A u \in Tokens : Live(u, r)' => Live(u, r)
      BY <2>5, <2>6, <2>9, <2>2 DEF Live, Descends
    <3>2. \A g \in Handlers : HandlesAt(g, "inside", r)' => Live(token[g], r)'
      BY <2>6, <2>7 DEF OneBranch, OneBranchOf, HandlesAt, Live
    <3> QED
      BY <1>8, <2>7, <3>1, <3>2 DEF CompleteCallback, OneBranch, OneBranchOf
  <2> QED
    BY <2>8, <2>9
<1>9. ASSUME NEW h \in Handlers, RequireSession(h)
      PROVE  OneBranch'
  <2>1. CASE Return(h)
    BY <1>9, <2>1, Returned, BranchKept DEF RequireSession, history
  <2>2. CASE Goto(h, "inside") /\ UNCHANGED locals /\ ~sessions[token[h]].revoked
    <3>1. \A g \in Handlers, r \in States :
            /\ HandlesAt(g, "inside", r)' =>
                 \/ HandlesAt(g, "inside", r)
                 \/ (g = h /\ Live(token[h], r))
            /\ HandlesAt(g, "rotating", r)' => HandlesAt(g, "rotating", r)
      BY <1>9, <2>2 DEF RequireSession, Goto, TypeOK, HandlesAt, Descends, Live, locals, history
    <3>2. \A g \in Handlers, r \in States : Live(token[g], r)' <=> Live(token[g], r)
      BY <1>9, <2>2 DEF RequireSession, Live, Descends, locals
    <3>3. \A u \in Tokens, r \in States : Live(u, r)' <=> Live(u, r)
      BY <1>9 DEF RequireSession, Live, Descends
    <3> QED
      BY <1>9, <3>1, <3>2, <3>3 DEF RequireSession, OneBranch, OneBranchOf, history
  <2> QED
    BY <1>9, <2>1, <2>2 DEF RequireSession, Passes
<1>10. ASSUME NEW h \in Handlers, Logout(h) \/ BeginRotate(h)
       PROVE  OneBranch'
  <2>1. token[h] \in Tokens /\ sessions[token[h]] # None
    BY <1>10 DEF Logout, BeginRotate, HandlerHolds, Holding
  <2> PICK s \in States : s = sessions[token[h]].login
    BY <2>1 DEF TypeOK, Session
  <2>2. /\ NoteOthers(h) /\ Revoke(token[h]) /\ pc[h] = "inside" /\ doubled' = doubled
        /\ crossed \subseteq crossed' /\ out' \subseteq out \cup {s}
        /\ BeginRotate(h) => out' = out
    BY <1>10 DEF Logout, BeginRotate, NoteOthers
  <2>3. /\ sessions'[token[h]] # None /\ sessions'[token[h]].login = s
        /\ \A u \in Tokens \ {token[h]} : sessions'[u] = sessions[u]
    BY <2>1, <2>2, Revoked
  <2>4. \A u \in Tokens, r \in States : Descends(u, r)' <=> Descends(u, r)
    BY <2>1, <2>3 DEF Descends
  <2>5. \A u \in Tokens, r \in States \ {s} : Live(u, r)' <=> Live(u, r)
    BY <2>1, <2>3 DEF Descends, Live
  <2>6. \A g \in Handlers, r \in States :
          /\ HandlesAt(g, "inside", r)' =>
               HandlesAt(g, "inside", r) /\ g # h /\ token'[g] = token[g]
          /\ HandlesAt(g, "rotating", r)' =>
               \/ HandlesAt(g, "rotating", r) /\ g # h
               \/ g = h /\ BeginRotate(h) /\ r = s
    <3>1. ASSUME Logout(h)
          PROVE  \A g \in Handlers : pc'[g] \in {"inside", "rotating"} =>
                   g # h /\ pc'[g] = pc[g] /\ token'[g] = token[g] /\ token[g] \in Tokens
      BY <3>1, Returned DEF Logout, HandlerHolds, Holding
    <3>2. ASSUME BeginRotate(h)
          PROVE  /\ pc'[h] = "rotating" /\ token' = token
                 /\ \A g \in Handlers \ {h} : pc'[g] = pc[g]
      BY <3>2 DEF BeginRotate, Goto, TypeOK, locals
    <3>3. \A g \in Handlers : token'[g] = token[g] =>
            \A r \in States : Descends(token[g], r)' <=> Descends(token[g], r)
      BY <2>1, <2>3 DEF Descends
    <3>4. \A r \in States : Descends(token[h], r) => r = s
      BY DEF Descends
    <3> QED
      BY <1>10, <2>2, <3>1, <3>2, <3>3, <3>4 DEF HandlesAt
  <2> SUFFICES ASSUME NEW r \in States \ (crossed' \cup doubled)
               PROVE  OneBranchOf(r)'
    BY <2>2 DEF OneBranch, OneBranchOf
  <2>7. r \in States \ (crossed \cup doubled)
    BY <2>2
  <2>8. CASE r = s
    <3>1. /\ s \notin out /\ \A u \in Tokens : ~Live(u, s)'
          /\ \A g \in Handlers \ {h} : ~HandlesAt(g, "inside", s) /\ ~HandlesAt(g, "rotating", s)
      BY <2>1, <2>2, <2>8, BranchCut DEF Descends
    <3> QED
      BY <2>2, <2>6, <2>8, <3>1 DEF OneBranchOf
  <2>9. CASE r # s
    <3>1. \A g \in Handlers : HandlesAt(g, "inside", r)' => Live(token[g], r)'
      BY <2>5, <2>6, <2>7, <2>9 DEF OneBranch, OneBranchOf, HandlesAt, Descends, Live
    <3> QED
      BY <2>2, <2>5, <2>6, <2>7, <2>9, <3>1 DEF OneBranch, OneBranchOf
  <2> QED
    BY <2>8, <2>9
<1>11. ASSUME NEW h \in Handlers, NEW t \in Tokens, FinishRotate(h, t)
       PROVE  OneBranch'
  <2>1. token[h] \in Tokens /\ sessions[token[h]] # None
    BY <1>11 DEF FinishRotate, HandlerHolds, Holding
  <2> PICK s \in States : s = sessions[token[h]].login
    BY <2>1 DEF TypeOK, Session
  <2>2. /\ sessions[t] = None /\ sessions'[t].login = s
        /\ \A u \in Tokens \ {t} : sessions'[u] = sessions[u]
    <3>1. sessions[token[h]].user \in Subjects /\ now[h] \in 0 .. MaxTime
      BY <2>1 DEF TypeOK, Session
    <3> QED
      BY <1>11, <3>1, Created DEF FinishRotate
  <2>3. /\ UNCHANGED <<doubled, out, crossed>> /\ pc[h] = "rotating" /\ HandlesAt(h, "rotating", s)
        /\ \A g \in Handlers : pc'[g] \in {"inside", "rotating"} =>
             g # h /\ pc'[g] = pc[g] /\ token'[g] = token[g] /\ token[g] \in Tokens \ {t}
    BY <1>11, <2>1, <2>2, Returned DEF FinishRotate, HandlerHolds, Holding, HandlesAt,
       Descends, history
  <2>4. \A u \in Tokens, r \in States : Live(u, r)' => Live(u, r) \/ (u = t /\ r = s)
    BY <2>2 DEF Live, Descends
  <2>5. \A r \in States, g \in Handlers, label \in {"inside", "rotating"} :
          HandlesAt(g, label, r)' => HandlesAt(g, label, r) /\ g # h
    BY <2>2, <2>3 DEF HandlesAt, Descends
  <2>6. \A r \in States, g \in Handlers :
          HandlesAt(g, "inside", r)' => (Live(token[g], r)' <=> Live(token[g], r))
    BY <2>2, <2>3 DEF HandlesAt, Descends, Live
  <2>7. s \notin crossed \cup doubled =>
          /\ s \notin out /\ \A u \in Tokens : ~Live(u, s)
          /\ \A g \in Handlers \ {h} : ~HandlesAt(g, "inside", s) /\ ~HandlesAt(g, "rotating", s)
    BY <2>3 DEF OneBranch, OneBranchOf, HandlesAt, Descends
  <2> SUFFICES ASSUME NEW r \in States \ (crossed \cup doubled)
               PROVE  OneBranchOf(r)'
    BY <2>3 DEF OneBranch, OneBranchOf
  <2>8. CASE r = s
    BY <2>3, <2>4, <2>5, <2>7, <2>8 DEF OneBranchOf
  <2>9. CASE r # s
    BY <2>3, <2>4, <2>5, <2>6, <2>9 DEF OneBranch, OneBranchOf
  <2> QED
    BY <2>8, <2>9
<1> QED
  BY <1>1, <1>2, <1>3, <1>4, <1>5, <1>6, <1>7, <1>8, <1>9, <1>10, <1>11
     DEF Next, Callback, Request

\* The invariant is inductive.
LEMMA StepIInv == IInv /\ [Next]_vars => IInv'
BY StepTyped, StepOneCall, StepLoginsMade, StepOneBranch DEF IInv

\* A log-out ends every session of its login, unless another request was
\* inside one of them or the login state was used twice.
THEOREM LogoutsAreFinal == Spec => []LogoutIsFinal
<1>1. Init => IInv
  <2>1. Init => OneCall /\ OneBranch /\ LoginsMade
    BY DEF Init, OneCall, OneCallFor, CallsWith, Calling, OneBranch, OneBranchOf,
       HandlesAt, Descends, Live, LoginsMade
  <2> QED
    BY <2>1, InitTyped DEF IInv
<1>2. IInv => LogoutIsFinal
  BY DEF IInv, TypeInv, TypeOK, OneBranch, OneBranchOf, Live, Descends, LogoutIsFinal, Session
<1> QED
  BY <1>1, <1>2, StepIInv, PTL DEF Spec

-----------------------------------------------------------------------------
(* The credential vault *)

\* What a handler holds at each point of its operation.
HeldIn(h) ==
  /\ step[h] = "idle" => user[h] = None /\ seen[h] = None /\ key[h] = None
                       /\ target[h] = None
  /\ step[h] # "idle" => user[h] \in Users
  /\ step[h] \in {"mark", "unwrap"} => key[h] = None
  /\ step[h] \in {"mark", "unwrap", "calling", "rotate"} => seen[h] # None
  /\ step[h] = "mark" => target[h] \in Statuses
  /\ step[h] = "unwrap" => target[h] \in {None} \cup Keks
  /\ step[h] = "rotate" => target[h] \in Keks
  /\ step[h] \in {"wrap", "store"} => id[h] \in Ids
  /\ step[h] \in {"wrap", "store"} /\ target[h] # None => seen[h] # None
  /\ step[h] = "store" => wrapped[h] \in Keks
  /\ step[h] \in {"wrap", "store", "calling", "rotate"} => key[h] # None

\* A record a handler read is its user's, and the store still has one.
SeenIsOwn(h) ==
  seen[h] # None => /\ user[h] \in Users
                    /\ seen[h].user = user[h]
                    /\ seen[h].key \in entered[user[h]]
                    /\ record[user[h]] # None

\* Every stored credential follows a request of its user.
StoredWasAsked == \A u \in Users : record[u] # None => wish[u] # None

VaultInv ==
  /\ VaultTypeOK
  /\ OwnKeyOnly
  /\ StoredWasAsked
  /\ \A h \in Handlers : HeldIn(h) /\ SeenIsOwn(h)

LEMMA VaultInitInv == VaultInit => VaultInv
BY VaultAssumption
   DEF VaultInit, VaultInv, VaultTypeOK, OwnKeyOnly, StoredWasAsked, HeldIn, SeenIsOwn

\* What the end of an operation leaves of the handlers.
LEMMA DoneHolds ==
  ASSUME VaultInv, NEW h \in Handlers, Done(h),
         record' \in [Users -> {None} \cup Record],
         \A u \in Users : record[u] # None => record'[u] # None,
         entered' = entered
  PROVE  /\ step' \in [Handlers -> {"idle", "wrap", "store", "mark", "unwrap",
                                  "calling", "rotate"}]
         /\ user' \in [Handlers -> {None} \cup Users]
         /\ seen' \in [Handlers -> {None} \cup Record]
         /\ key' \in [Handlers -> {None} \cup Keys]
         /\ id' \in [Handlers -> {None} \cup Ids]
         /\ wrapped' \in [Handlers -> {None} \cup Keks]
         /\ target' \in [Handlers -> {None} \cup Statuses \cup Keks]
         /\ \A g \in Handlers : HeldIn(g)' /\ SeenIsOwn(g)'
         /\ \A g \in Handlers : key'[g] # None => key'[g] \in entered'[user'[g]]
<1>1. VaultTypeOK /\ OwnKeyOnly /\ \A g \in Handlers : HeldIn(g) /\ SeenIsOwn(g)
  BY DEF VaultInv
<1>2. /\ step' \in [Handlers -> {"idle", "wrap", "store", "mark", "unwrap",
                               "calling", "rotate"}]
      /\ user' \in [Handlers -> {None} \cup Users]
      /\ seen' \in [Handlers -> {None} \cup Record]
      /\ key' \in [Handlers -> {None} \cup Keys]
      /\ id' \in [Handlers -> {None} \cup Ids]
      /\ wrapped' \in [Handlers -> {None} \cup Keks]
      /\ target' \in [Handlers -> {None} \cup Statuses \cup Keks]
  BY <1>1 DEF VaultTypeOK, Done
<1>3. ASSUME NEW g \in Handlers
      PROVE  /\ HeldIn(g)'
             /\ SeenIsOwn(g)'
             /\ key'[g] # None => key'[g] \in entered'[user'[g]]
  <2>1. CASE g = h
    BY <1>1, <2>1 DEF VaultTypeOK, Done, HeldIn, SeenIsOwn
  <2>2. CASE g # h
    BY <1>1, <2>2 DEF VaultTypeOK, Done, HeldIn, SeenIsOwn, OwnKeyOnly
  <2> QED BY <2>1, <2>2
<1> QED BY <1>2, <1>3

LEMMA VaultNextInv == VaultInv /\ [VaultNext]_vault => VaultInv'
<1> SUFFICES ASSUME VaultInv, [VaultNext]_vault PROVE VaultInv'
  OBVIOUS
<1>0. VaultTypeOK /\ OwnKeyOnly /\ StoredWasAsked /\ \A g \in Handlers : HeldIn(g) /\ SeenIsOwn(g)
  BY DEF VaultInv
<1>1. ASSUME NEW h \in Handlers, NEW u \in Users, NEW k \in Keys, BeginSet(h, u, k)
      PROVE  VaultInv'
  <2>1. VaultTypeOK'
    BY <1>0, <1>1 DEF VaultTypeOK, BeginSet
  <2>2. OwnKeyOnly' /\ StoredWasAsked'
    BY <1>0, <1>1, VaultAssumption DEF VaultTypeOK, BeginSet, OwnKeyOnly, StoredWasAsked, HeldIn
  <2>3. \A g \in Handlers : HeldIn(g)'
    BY <1>0, <1>1, VaultAssumption DEF VaultTypeOK, BeginSet, HeldIn
  <2>4. \A g \in Handlers : SeenIsOwn(g)'
    BY <1>0, <1>1, VaultAssumption DEF VaultTypeOK, BeginSet, HeldIn, SeenIsOwn
  <2> QED BY <2>1, <2>2, <2>3, <2>4 DEF VaultInv
<1>2. ASSUME NEW h \in Handlers, NEW u \in Users, NEW s \in Statuses \ {"active"},
             BeginMark(h, u, s)
      PROVE  VaultInv'
  <2>1. VaultTypeOK'
    BY <1>0, <1>2 DEF VaultTypeOK, BeginMark
  <2>2. OwnKeyOnly' /\ StoredWasAsked'
    BY <1>0, <1>2 DEF VaultTypeOK, BeginMark, OwnKeyOnly, StoredWasAsked, HeldIn
  <2>3. \A g \in Handlers : HeldIn(g)'
    BY <1>0, <1>2, VaultAssumption DEF VaultTypeOK, BeginMark, HeldIn
  <2>4. \A g \in Handlers : SeenIsOwn(g)'
    BY <1>0, <1>2 DEF VaultTypeOK, BeginMark, OwnKeyOnly, SeenIsOwn
  <2> QED BY <2>1, <2>2, <2>3, <2>4 DEF VaultInv
<1>3. ASSUME NEW h \in Handlers, NEW u \in Users, NEW p \in Keks \cup {None},
             BeginUnwrap(h, u, p)
      PROVE  VaultInv'
  <2>1. VaultTypeOK'
    BY <1>0, <1>3 DEF VaultTypeOK, BeginUnwrap
  <2>2. OwnKeyOnly' /\ StoredWasAsked'
    BY <1>0, <1>3 DEF VaultTypeOK, BeginUnwrap, OwnKeyOnly, StoredWasAsked, HeldIn
  <2>3. \A g \in Handlers : HeldIn(g)'
    BY <1>0, <1>3, VaultAssumption DEF VaultTypeOK, BeginUnwrap, HeldIn
  <2>4. \A g \in Handlers : SeenIsOwn(g)'
    BY <1>0, <1>3 DEF VaultTypeOK, BeginUnwrap, OwnKeyOnly, SeenIsOwn
  <2> QED BY <2>1, <2>2, <2>3, <2>4 DEF VaultInv
<1>4. ASSUME NEW h \in Handlers, Wrap(h) PROVE VaultInv'
  BY <1>0, <1>4
     DEF VaultInv, VaultTypeOK, Wrap, OwnKeyOnly, StoredWasAsked, HeldIn, SeenIsOwn
<1>5. ASSUME NEW h \in Handlers, Store(h) PROVE VaultInv'
  <2>1. /\ user[h] \in Users /\ key[h] \in Keys /\ id[h] \in Ids
        /\ wrapped[h] \in Keks /\ key[h] \in entered[user[h]]
        /\ target[h] # None => record[user[h]] # None
    BY <1>0, <1>5 DEF VaultTypeOK, Store, HeldIn, SeenIsOwn, OwnKeyOnly
  <2> DEFINE new == [id |-> id[h], user |-> user[h], key |-> key[h],
                     status |-> "active", kek |-> wrapped[h]]
  <2>2. new \in Record /\ new # None
    BY <2>1, VaultAssumption DEF Record, Statuses
  <2>3. record' = [record EXCEPT ![user[h]] = new] /\ entered' = entered
    BY <1>5 DEF Store
  <2>4. /\ record' \in [Users -> {None} \cup Record]
        /\ \A u \in Users : record[u] # None => record'[u] # None
    BY <1>0, <2>1, <2>2, <2>3 DEF VaultTypeOK
  <2>5. /\ wish' \in [Users -> {None} \cup [key : Keys, status : Statuses]]
        /\ StoredWasAsked'
    <3>1. CASE target[h] = None
      <4>1. [key |-> key[h], status |-> "active"] \in [key : Keys, status : Statuses]
        BY <2>1 DEF Statuses
      <4>2. wish' = [wish EXCEPT ![user[h]] = [key |-> key[h], status |-> "active"]]
        BY <1>5, <3>1 DEF Store
      <4> QED BY <1>0, <2>1, <2>3, <4>1, <4>2, VaultAssumption DEF VaultTypeOK, StoredWasAsked
    <3>2. CASE target[h] # None
      <4>1. wish' = wish
        BY <1>5, <3>2 DEF Store
      <4> QED BY <1>0, <2>1, <2>3, <3>2, <4>1 DEF VaultTypeOK, StoredWasAsked
    <3> QED BY <3>1, <3>2
  <2>6. \A u \in Users : record'[u] # None =>
           record'[u].user = u /\ record'[u].key \in entered'[u]
    BY <1>0, <2>1, <2>2, <2>3 DEF VaultTypeOK, OwnKeyOnly
  <2>7. Done(h)
    BY <1>5 DEF Store
  <2>8. kek' \in Keks /\ entered' \in [Users -> SUBSET Keys]
    BY <1>0, <1>5 DEF VaultTypeOK, Store
  <2> HIDE DEF new
  <2> QED
    BY <2>3, <2>4, <2>5, <2>6, <2>7, <2>8, DoneHolds DEF VaultInv, VaultTypeOK, OwnKeyOnly
<1>6. ASSUME NEW h \in Handlers, Mark(h) PROVE VaultInv'
  <2>1. /\ user[h] \in Users /\ seen[h] \in Record /\ target[h] \in Statuses
        /\ seen[h].user = user[h] /\ seen[h].key \in entered[user[h]]
        /\ record[user[h]] # None
    BY <1>0, <1>6 DEF VaultTypeOK, Mark, HeldIn, SeenIsOwn
  <2>2. wish[user[h]] \in [key : Keys, status : Statuses]
    BY <1>0, <2>1 DEF VaultTypeOK, StoredWasAsked
  <2> DEFINE new == [seen[h] EXCEPT !.status = target[h]]
  <2> DEFINE asked == [wish[user[h]] EXCEPT !.status = target[h]]
  <2>3. /\ new \in Record /\ new # None
        /\ new.user = user[h] /\ new.key \in entered[user[h]]
        /\ asked \in [key : Keys, status : Statuses] /\ asked # None
    BY <2>1, <2>2, VaultAssumption DEF Record
  <2>4. /\ record' = [record EXCEPT ![user[h]] = new]
        /\ wish' = [wish EXCEPT ![user[h]] = asked]
        /\ entered' = entered
    BY <1>6 DEF Mark
  <2> HIDE DEF new, asked
  <2>5. /\ record' \in [Users -> {None} \cup Record]
        /\ \A u \in Users : record[u] # None => record'[u] # None
        /\ wish' \in [Users -> {None} \cup [key : Keys, status : Statuses]]
        /\ StoredWasAsked'
    BY <1>0, <2>1, <2>3, <2>4 DEF VaultTypeOK, StoredWasAsked
  <2>6. \A u \in Users : record'[u] # None =>
           record'[u].user = u /\ record'[u].key \in entered'[u]
    BY <1>0, <2>1, <2>3, <2>4 DEF VaultTypeOK, OwnKeyOnly
  <2>7. Done(h) /\ kek' \in Keks /\ entered' \in [Users -> SUBSET Keys]
    BY <1>0, <1>6 DEF VaultTypeOK, Mark
  <2> QED
    BY <2>4, <2>5, <2>6, <2>7, DoneHolds DEF VaultInv, VaultTypeOK, OwnKeyOnly
<1>7. ASSUME NEW h \in Handlers, UnwrapFails(h) \/ CallProvider(h) PROVE VaultInv'
  <2>1. Done(h) /\ record' = record /\ kek' = kek /\ entered' = entered /\ wish' = wish
    BY <1>7 DEF UnwrapFails, CallProvider
  <2>2. record' \in [Users -> {None} \cup Record]
    BY <1>0, <2>1 DEF VaultTypeOK
  <2> QED
    BY <1>0, <2>1, <2>2, DoneHolds DEF VaultInv, VaultTypeOK, OwnKeyOnly, StoredWasAsked
<1>8. ASSUME NEW h \in Handlers, Unwrap(h) PROVE VaultInv'
  <2>1. seen[h] \in Record /\ seen[h].key \in entered[user[h]] /\ seen[h].key \in Keys
    BY <1>0, <1>8 DEF VaultTypeOK, Unwrap, HeldIn, SeenIsOwn, Record
  <2>2. VaultTypeOK'
    BY <1>0, <1>8, <2>1 DEF VaultTypeOK, Unwrap
  <2>3. OwnKeyOnly' /\ StoredWasAsked'
    BY <1>0, <1>8, <2>1 DEF VaultTypeOK, Unwrap, OwnKeyOnly, StoredWasAsked
  <2>4. \A g \in Handlers : HeldIn(g)' /\ SeenIsOwn(g)'
    BY <1>0, <1>8, <2>1, VaultAssumption DEF VaultTypeOK, Unwrap, HeldIn, SeenIsOwn
  <2> QED BY <2>2, <2>3, <2>4 DEF VaultInv
<1>9. ASSUME NEW h \in Handlers, Rotate(h) PROVE VaultInv'
  <2>1. /\ target[h] \in Keks /\ user[h] \in Users
        /\ record[user[h]] \in Record /\ record[user[h]].id \in Ids
    BY <1>0, <1>9 DEF VaultTypeOK, Rotate, HeldIn, SeenIsOwn, Record
  <2>2. VaultTypeOK'
    BY <1>0, <1>9, <2>1 DEF VaultTypeOK, Rotate
  <2>3. OwnKeyOnly' /\ StoredWasAsked'
    BY <1>0, <1>9 DEF VaultTypeOK, Rotate, OwnKeyOnly, StoredWasAsked
  <2>4. \A g \in Handlers : HeldIn(g)' /\ SeenIsOwn(g)'
    BY <1>0, <1>9, <2>1 DEF VaultTypeOK, Rotate, HeldIn, SeenIsOwn
  <2> QED BY <2>2, <2>3, <2>4 DEF VaultInv
<1>10. CASE UNCHANGED vault
  BY <1>0, <1>10
     DEF vault, inHand, VaultInv, VaultTypeOK, OwnKeyOnly, StoredWasAsked, HeldIn, SeenIsOwn
<1> QED
  BY <1>1, <1>2, <1>3, <1>4, <1>5, <1>6, <1>7, <1>8, <1>9, <1>10 DEF VaultNext, Operation

\* A plaintext key in a handler's memory, and every stored key, is one that the
\* user it is used for entered: whatever operations run at the same time, of the
\* same user or of others, and whatever KEK rotations happen in between.
THEOREM KeysAreOwnCorrect == VaultSpec => []KeysAreOwn
<1>1. VaultInv => KeysAreOwn
  BY DEF VaultInv, KeysAreOwn
<1> QED BY <1>1, VaultInitInv, VaultNextInv, PTL DEF VaultSpec

-----------------------------------------------------------------------------
(* Serial requests *)

\* One handler serves a user.
OneServer ==
  \A g, h \in Handlers : g # h => ServedBy[g] \cap ServedBy[h] = {}

\* The record of a user is what the user asked for last, also while an operation runs.
Follows ==
  \A u \in Users : record[u] # None =>
    wish[u] = [key |-> record[u].key, status |-> record[u].status]

\* What a handler read is still what the store has, and what it unwrapped is of it.
SeenIsCurrent(h) ==
  /\ user[h] # None => user[h] \in ServedBy[h]
  /\ seen[h] # None => seen[h] = record[user[h]]
  /\ seen[h] # None /\ step[h] # "mark" => seen[h].status = "active"
  /\ seen[h] # None /\ key[h] # None => key[h] = seen[h].key
  /\ step[h] \in {"wrap", "store"} /\ seen[h] # None => target[h] # None

SerialInv == VaultInv /\ Follows /\ \A h \in Handlers : SeenIsCurrent(h)

\* A write for one's own user leaves what the others have read.
LEMMA OthersSeeTheirs ==
  ASSUME OneServer, SerialInv, NEW h \in Handlers, user[h] \in Users,
         Done(h), NEW new, record' = [record EXCEPT ![user[h]] = new]
  PROVE  \A g \in Handlers : SeenIsCurrent(g)'
<1>1. ASSUME NEW g \in Handlers \ {h}, user[g] # None
      PROVE  user[g] \in Users /\ user[g] # user[h]
  <2>1. user[g] \in ServedBy[g] /\ user[h] \in ServedBy[h]
    BY <1>1, VaultAssumption DEF SerialInv, SeenIsCurrent
  <2> QED
    BY <1>1, <2>1 DEF OneServer, SerialInv, VaultInv, HeldIn, VaultTypeOK
<1>2. SeenIsCurrent(h)'
  BY DEF SerialInv, VaultInv, VaultTypeOK, Done, SeenIsCurrent
<1>3. ASSUME NEW g \in Handlers \ {h}
      PROVE  SeenIsCurrent(g)'
  <2>1. /\ user'[g] = user[g] /\ seen'[g] = seen[g] /\ key'[g] = key[g]
        /\ step'[g] = step[g] /\ target'[g] = target[g]
    BY DEF SerialInv, VaultInv, VaultTypeOK, Done
  <2>2. seen[g] # None => user[g] # None /\ record'[user[g]] = record[user[g]]
    BY <1>1, VaultAssumption DEF SerialInv, VaultInv, SeenIsOwn, VaultTypeOK
  <2> QED
    BY <2>1, <2>2 DEF SerialInv, SeenIsCurrent
<1> QED
  BY <1>2, <1>3

LEMMA SerialStep == OneServer /\ SerialInv /\ [VaultNext]_vault => SerialInv'
<1> SUFFICES ASSUME OneServer, SerialInv, [VaultNext]_vault PROVE SerialInv'
  OBVIOUS
<1>1. VaultInv /\ VaultInv' /\ Follows /\ \A h \in Handlers : SeenIsCurrent(h)
  BY VaultNextInv DEF SerialInv
<1>2. VaultTypeOK /\ \A h \in Handlers : HeldIn(h) /\ SeenIsOwn(h)
  BY <1>1 DEF VaultInv
<1> SUFFICES Follows' /\ \A h \in Handlers : SeenIsCurrent(h)'
  BY <1>1 DEF SerialInv
<1>3. ASSUME NEW h \in Handlers, NEW u \in Users, NEW k \in Keys, BeginSet(h, u, k)
      PROVE  Follows' /\ \A g \in Handlers : SeenIsCurrent(g)'
  BY <1>1, <1>2, <1>3 DEF BeginSet, VaultTypeOK, HeldIn, Follows, SeenIsCurrent
<1>4. ASSUME NEW h \in Handlers, NEW u \in Users, NEW s \in Statuses \ {"active"},
             BeginMark(h, u, s)
      PROVE  Follows' /\ \A g \in Handlers : SeenIsCurrent(g)'
  BY <1>1, <1>2, <1>4 DEF BeginMark, VaultTypeOK, HeldIn, Follows, SeenIsCurrent
<1>5. ASSUME NEW h \in Handlers, NEW u \in Users, NEW p \in Keks \cup {None},
             BeginUnwrap(h, u, p)
      PROVE  Follows' /\ \A g \in Handlers : SeenIsCurrent(g)'
  BY <1>1, <1>2, <1>5 DEF BeginUnwrap, VaultTypeOK, HeldIn, Follows, SeenIsCurrent
<1>6. ASSUME NEW h \in Handlers, Wrap(h)
      PROVE  Follows' /\ \A g \in Handlers : SeenIsCurrent(g)'
  BY <1>1, <1>2, <1>6 DEF Wrap, VaultTypeOK, Follows, SeenIsCurrent
<1>7. ASSUME NEW h \in Handlers, Store(h)
      PROVE  Follows' /\ \A g \in Handlers : SeenIsCurrent(g)'
  <2> DEFINE new == [id |-> id[h], user |-> user[h], key |-> key[h],
                     status |-> "active", kek |-> wrapped[h]]
  <2>1. user[h] \in Users /\ new.key = key[h] /\ new.status = "active"
    BY <1>2, <1>7 DEF Store, HeldIn
  <2>2. Done(h) /\ record' = [record EXCEPT ![user[h]] = new]
    BY <1>7 DEF Store
  <2>3. wish'[user[h]] = [key |-> key[h], status |-> "active"]
    <3>1. CASE target[h] = None
      BY <1>2, <1>7, <2>1, <3>1 DEF Store, VaultTypeOK
    <3>2. CASE target[h] # None
      <4>1. seen[h] # None /\ key[h] # None /\ step[h] # "mark"
        BY <1>2, <1>7, <3>2 DEF Store, HeldIn
      <4>2. record[user[h]].key = key[h] /\ record[user[h]].status = "active"
        BY <1>1, <4>1 DEF SeenIsCurrent
      <4>3. record[user[h]] # None
        BY <1>2, <4>1 DEF SeenIsOwn
      <4> QED
        BY <1>1, <1>7, <2>1, <3>2, <4>2, <4>3 DEF Store, Follows
    <3> QED
      BY <3>1, <3>2
  <2>4. \A u \in Users \ {user[h]} : wish'[u] = wish[u]
    BY <1>2, <1>7 DEF Store, VaultTypeOK
  <2> HIDE DEF new
  <2>5. Follows'
    BY <1>1, <1>2, <2>1, <2>2, <2>3, <2>4 DEF Follows, VaultTypeOK
  <2> QED
    BY <2>1, <2>2, <2>5, OthersSeeTheirs
<1>8. ASSUME NEW h \in Handlers, Mark(h)
      PROVE  Follows' /\ \A g \in Handlers : SeenIsCurrent(g)'
  <2> DEFINE new == [seen[h] EXCEPT !.status = target[h]]
  <2>1. /\ user[h] \in Users /\ seen[h] \in Record /\ target[h] \in Statuses
        /\ seen[h] # None /\ record[user[h]] # None
    BY <1>2, <1>8 DEF Mark, HeldIn, SeenIsOwn, VaultTypeOK
  <2>2. new.key = seen[h].key /\ new.status = target[h]
    BY <2>1 DEF Record
  <2>3. Done(h) /\ record' = [record EXCEPT ![user[h]] = new]
    BY <1>8 DEF Mark
  <2>4. wish[user[h]] = [key |-> seen[h].key, status |-> seen[h].status]
    BY <1>1, <2>1 DEF Follows, SeenIsCurrent
  <2>5. wish' = [wish EXCEPT ![user[h]] = [wish[user[h]] EXCEPT !.status = target[h]]]
    BY <1>8 DEF Mark
  <2>6. /\ wish'[user[h]] = [key |-> seen[h].key, status |-> target[h]]
        /\ \A u \in Users \ {user[h]} : wish'[u] = wish[u]
    BY <1>2, <2>1, <2>4, <2>5 DEF VaultTypeOK
  <2> HIDE DEF new
  <2>7. Follows'
    BY <1>1, <1>2, <2>1, <2>2, <2>3, <2>6 DEF Follows, VaultTypeOK
  <2> QED
    BY <2>1, <2>3, <2>7, OthersSeeTheirs
<1>9. ASSUME NEW h \in Handlers, UnwrapFails(h) \/ CallProvider(h)
      PROVE  Follows' /\ \A g \in Handlers : SeenIsCurrent(g)'
  <2>1. Done(h) /\ UNCHANGED <<record, wish>>
    BY <1>9 DEF UnwrapFails, CallProvider
  <2> QED
    BY <1>1, <1>2, <2>1 DEF Done, VaultTypeOK, Follows, SeenIsCurrent
<1>10. ASSUME NEW h \in Handlers, Unwrap(h)
       PROVE  Follows' /\ \A g \in Handlers : SeenIsCurrent(g)'
  BY <1>1, <1>2, <1>10 DEF Unwrap, VaultTypeOK, Follows, SeenIsCurrent
<1>11. ASSUME NEW h \in Handlers, Rotate(h)
       PROVE  Follows' /\ \A g \in Handlers : SeenIsCurrent(g)'
  BY <1>1, <1>2, <1>11, VaultAssumption DEF Rotate, VaultTypeOK, HeldIn, Follows, SeenIsCurrent
<1>12. CASE UNCHANGED vault
  BY <1>1, <1>12 DEF vault, inHand, Follows, SeenIsCurrent
<1> QED
  BY <1>3, <1>4, <1>5, <1>6, <1>7, <1>8, <1>9, <1>10, <1>11, <1>12 DEF VaultNext, Operation

\* With one handler for each user, the store follows what the users asked for,
\* through rotations and withdrawals: the guarantee that two requests of one user
\* at once break.
THEOREM StoreFollowsUserCorrect ==
  ASSUME OneServer
  PROVE  VaultSpec => []StoreFollowsUser
<1>1. VaultInit => SerialInv
  BY VaultInitInv DEF VaultInit, SerialInv, Follows, SeenIsCurrent
<1>2. SerialInv => StoreFollowsUser
  BY DEF SerialInv, Follows, StoreFollowsUser
<1>3. SerialInv /\ [VaultNext]_vault => SerialInv'
  BY SerialStep
<1> QED
  BY <1>1, <1>2, <1>3, PTL DEF VaultSpec
=============================================================================
