---------------------------- MODULE LoginSessions ----------------------------
(***************************************************************************)
(* GoogleOidcAuthService and ServerSessionStore: login states that a       *)
(* callback consumes, sessions that are required, rotated and revoked.     *)
(* Handlers run on threads and share both dictionaries without a lock;     *)
(* the check of a login state and its consumption are two steps, and so    *)
(* are the revocation and the creation of a rotation.                      *)
(*                                                                         *)
(* Tokens are unguessable, so a state, its nonce and its PKCE verifier are *)
(* one name, and a hash is the name it hashes.  A code of Google is the    *)
(* claims of the ID token it is exchanged for.                             *)
(***************************************************************************)
EXTENDS Naturals, FiniteSets, ServerThreads

CONSTANTS
  States,       \* login states begin_login can make
  Tokens,       \* session tokens
  Subjects,     \* Google subjects; a user id is a function of the subject
  StateTtl, SessionTtl,
  CodeTtl,      \* lifetime of the ID token of a code
  MaxCodes,     \* bound of the codes
  MaxTime       \* bound of the clock

Times == 0 .. MaxTime + StateTtl + SessionTtl + CodeTtl
Pending == [expires : Times, consumed : BOOLEAN]
\* valid: issuer, audience, verified email and domain are as _validate_claims wants.
Claims == [nonce : States, subject : Subjects, expires : Times, valid : BOOLEAN]
Session == [user : Subjects, expires : Times, revoked : BOOLEAN, login : States]

ASSUME LoginAssumption ==
  /\ StateTtl \in Nat \ {0} /\ SessionTtl \in Nat \ {0}
  /\ CodeTtl \in Nat /\ MaxTime \in Nat /\ MaxCodes \in Nat
  /\ None \notin States \cup Tokens \cup Subjects
  /\ \A p \in Pending : p # None
  /\ \A s \in Session : s # None
  /\ \A k \in Claims : k # None

VARIABLES
  clock,
  pending,    \* _pending_by_state_hash
  codes,      \* the authorization codes Google has issued
  sessions,   \* _sessions_by_hash; login is a history field: the login it descends from
  pc,
  state,      \* the login state a callback works on
  code,       \* the code it presents
  now,        \* what the handler read from the clock at its start
  token,      \* the session a request came with
  made,       \* history: made[s], how many callbacks made a session from s
  doubled,    \* history: states two callbacks found unconsumed at once
  out,        \* history: logins a user logged out of
  crossed     \* history: logins with another request inside at a log-out or rotation

locals == <<state, code, now, token>>
history == <<made, doubled, out, crossed>>
vars == <<clock, pending, codes, sessions, pc, locals, history>>

Init ==
  /\ clock = 0
  /\ pending = [s \in States |-> None]
  /\ codes = {}
  /\ sessions = [t \in Tokens |-> None]
  /\ pc = [h \in Handlers |-> "idle"]
  /\ state = [h \in Handlers |-> None]
  /\ code = [h \in Handlers |-> None]
  /\ now = [h \in Handlers |-> 0]
  /\ token = [h \in Handlers |-> None]
  /\ made = [s \in States |-> 0]
  /\ doubled = {} /\ out = {} /\ crossed = {}

Goto(h, label) == pc' = [pc EXCEPT ![h] = label]

\* A response or a HostedAuthError: the handler forgets what it had.
Return(h) ==
  /\ Goto(h, "idle")
  /\ state' = [state EXCEPT ![h] = None]
  /\ code' = [code EXCEPT ![h] = None]
  /\ now' = [now EXCEPT ![h] = 0]
  /\ token' = [token EXCEPT ![h] = None]

(* Google and time *)

Tick ==
  /\ clock < MaxTime
  /\ clock' = clock + 1
  /\ UNCHANGED <<pending, codes, sessions, pc, locals, history>>

\* Somebody signs in at Google for the login state s.
Authorize(s, who, valid) ==
  /\ Cardinality(codes) < MaxCodes
  /\ pending[s] # None
  /\ codes' = codes \cup
       {[nonce |-> s, subject |-> who, expires |-> clock + CodeTtl, valid |-> valid]}
  /\ UNCHANGED <<clock, pending, sessions, pc, locals, history>>

(* Login *)

BeginLogin(h, s) ==
  /\ pc[h] = "idle"
  /\ pending[s] = None
  /\ pending' = [pending EXCEPT ![s] = [expires |-> clock + StateTtl, consumed |-> FALSE]]
  /\ UNCHANGED <<clock, codes, sessions, pc, locals, history>>

\* A browser may pair any state with any code.
ReceiveCallback(h, s, k) ==
  /\ pc[h] = "idle"
  /\ pending[s] # None
  /\ ~pending[s].consumed
  /\ clock < pending[s].expires
  /\ Goto(h, "checked")
  /\ state' = [state EXCEPT ![h] = s]
  /\ code' = [code EXCEPT ![h] = k]
  /\ now' = [now EXCEPT ![h] = clock]
  /\ doubled' = IF \E g \in Handlers : pc[g] = "checked" /\ state[g] = s
                THEN doubled \cup {s} ELSE doubled
  /\ UNCHANGED <<clock, pending, codes, sessions, token, made, out, crossed>>

\* Variant: The callback does not mark its state.
ConsumeNothing(h) ==
  /\ pc[h] = "checked"
  /\ Goto(h, "exchanging")
  /\ UNCHANGED <<clock, pending, codes, sessions, locals, history>>

Consume(h) ==
  /\ pc[h] = "checked"
  /\ pending' = [pending EXCEPT ![state[h]].consumed = TRUE]
  /\ Goto(h, "exchanging")
  /\ UNCHANGED <<clock, codes, sessions, locals, history>>

\* Variant: The nonce of the ID token is not compared.
AnyNonce(h) == code[h].valid /\ clock < code[h].expires

\* What _validate_claims lets pass; it reads the clock again.
Accepted(h) ==
  /\ code[h].valid
  /\ code[h].nonce = state[h]
  /\ clock < code[h].expires

Exchange(h) ==
  /\ pc[h] = "exchanging"
  /\ Accepted(h)
  /\ Goto(h, "resolved")
  /\ UNCHANGED <<clock, pending, codes, sessions, locals, history>>

\* The exchange or the verification raises, or the claims are refused.
ExchangeFails(h) ==
  /\ pc[h] = "exchanging"
  /\ Return(h)
  /\ UNCHANGED <<clock, pending, codes, sessions, history>>

(* Sessions *)

NewSession(t, who, at, login) ==
  /\ sessions[t] = None
  /\ sessions' = [sessions EXCEPT ![t] =
       [user |-> who, expires |-> at + SessionTtl, revoked |-> FALSE, login |-> login]]

CompleteCallback(h, t) ==
  /\ pc[h] = "resolved"
  /\ NewSession(t, code[h].subject, now[h], state[h])
  /\ made' = [made EXCEPT ![state[h]] = @ + 1]
  /\ Return(h)
  /\ UNCHANGED <<clock, pending, codes, doubled, out, crossed>>

\* A request with a session token and the CSRF token of a session.
ReceiveRequest(h, t) ==
  /\ pc[h] = "idle"
  /\ sessions[t] # None
  /\ Goto(h, "entering")
  /\ now' = [now EXCEPT ![h] = clock]
  /\ token' = [token EXCEPT ![h] = t]
  /\ UNCHANGED <<clock, pending, codes, sessions, state, code, history>>

\* Variant: A revoked session still passes.
PassesRevoked(h, csrf) ==
  now[h] < sessions[token[h]].expires /\ csrf = token[h]

Passes(h, csrf) ==
  /\ ~sessions[token[h]].revoked
  /\ now[h] < sessions[token[h]].expires
  /\ csrf = token[h]

RequireSession(h) ==
  /\ pc[h] = "entering"
  /\ \E csrf \in Tokens :
       IF Passes(h, csrf)
       THEN Goto(h, "inside") /\ UNCHANGED locals
       ELSE Return(h)
  /\ UNCHANGED <<clock, pending, codes, sessions, history>>

Leave(h) ==
  /\ pc[h] = "inside"
  /\ Return(h)
  /\ UNCHANGED <<clock, pending, codes, sessions, history>>

Revoke(t) == sessions' = [sessions EXCEPT ![t].revoked = TRUE]

SameLogin(g, s) ==
  /\ pc[g] \in {"inside", "rotating"}
  /\ sessions[token[g]].login = s

NoteOthers(h) ==
  LET s == sessions[token[h]].login IN
  crossed' = IF \E g \in Handlers \ {h} : SameLogin(g, s)
             THEN crossed \cup {s} ELSE crossed

Logout(h) ==
  /\ pc[h] = "inside"
  /\ out' = out \cup {sessions[token[h]].login}
  /\ NoteOthers(h)
  /\ Revoke(token[h])
  /\ Return(h)
  /\ UNCHANGED <<clock, pending, codes, made, doubled>>

BeginRotate(h) ==
  /\ pc[h] = "inside"
  /\ NoteOthers(h)
  /\ Revoke(token[h])
  /\ Goto(h, "rotating")
  /\ UNCHANGED <<clock, pending, codes, locals, made, doubled, out>>

\* The replacement is bound to the user the request was authenticated as.
FinishRotate(h, t) ==
  /\ pc[h] = "rotating"
  /\ LET old == sessions[token[h]] IN NewSession(t, old.user, now[h], old.login)
  /\ Return(h)
  /\ UNCHANGED <<clock, pending, codes, history>>

Callback(h) ==
  \/ \E s \in States, k \in codes : ReceiveCallback(h, s, k)
  \/ Consume(h) \/ Exchange(h) \/ ExchangeFails(h)
  \/ \E t \in Tokens : CompleteCallback(h, t)

Request(h) ==
  \/ \E t \in Tokens : ReceiveRequest(h, t) \/ FinishRotate(h, t)
  \/ RequireSession(h) \/ Leave(h) \/ Logout(h) \/ BeginRotate(h)

Next ==
  \/ Tick
  \/ \E s \in States, who \in Subjects, valid \in BOOLEAN : Authorize(s, who, valid)
  \/ \E h \in Handlers :
       \/ \E s \in States : BeginLogin(h, s)
       \/ Callback(h)
       \/ Request(h)

Spec == Init /\ [][Next]_vars

-----------------------------------------------------------------------------

Labels == {"idle", "checked", "exchanging", "resolved", "entering", "inside", "rotating"}

TypeOK ==
  /\ clock \in 0 .. MaxTime
  /\ pending \in [States -> Pending \cup {None}]
  /\ codes \subseteq Claims
  /\ sessions \in [Tokens -> Session \cup {None}]
  /\ pc \in [Handlers -> Labels]
  /\ state \in [Handlers -> States \cup {None}]
  /\ code \in [Handlers -> Claims \cup {None}]
  /\ now \in [Handlers -> 0 .. MaxTime]
  /\ token \in [Handlers -> Tokens \cup {None}]
  /\ made \in [States -> Nat]
  /\ doubled \subseteq States /\ out \subseteq States /\ crossed \subseteq States

\* A session, and every session it is rotated into, belongs to somebody who
\* signed in at Google for the very login state it came from: no browser ends
\* up in the account of another by pairing a state with a foreign code.
SessionsFollowLogins ==
  \A t \in Tokens : sessions[t] # None =>
    \E k \in codes :
      k.valid /\ k.nonce = sessions[t].login /\ k.subject = sessions[t].user

\* A replayed callback gets no second session, unless the two callbacks were
\* both past the check of the state when the first consumed it.
StateUsedOnce ==
  \A s \in States : made[s] > 1 => s \in doubled

\* After a log-out no session that descends from the same login is accepted,
\* unless another request was inside it at the log-out or at a rotation, or
\* the login state was used twice.
LogoutIsFinal ==
  \A t \in Tokens :
    /\ sessions[t] # None
    /\ ~sessions[t].revoked
    /\ sessions[t].login \in out
    => sessions[t].login \in crossed \cup doubled

\* The stores keep their shape and no browser ends up in a foreign account.
LoginsAreSound == TypeOK /\ SessionsFollowLogins
=============================================================================
