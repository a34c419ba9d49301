------------------------------ MODULE Accounts ------------------------------
(***************************************************************************)
(* Getting into the dashboard.  A Telegram account sends /start to the bot  *)
(* and gets a link; the login page takes a phone, which registers the       *)
(* account the first time, and a code is sent to the account's chat; typing *)
(* the code opens a session, which every request of the dashboard extends.  *)
(*                                                                          *)
(* A request is split where it awaits the database or Telegram.  A code is  *)
(* the index of its row; the database and the bot's API are external, and   *)
(* so are people, who may click twice, mistype and give up.                 *)
(***************************************************************************)
EXTENDS Integers, Sequences, FiniteSets, SequencesExt

CONSTANTS
  Account,      \* Telegram accounts
  Trying,       \* those that try to get in; the others were registered before
  Phone,
  PhoneOf,      \* PhoneOf[a]: the phone of account a
  Registered,   \* Registered[p]: whose phone p is at the start, or NoAccount
  Allowed,      \* phones the authorization mode lets in
  NoAccount,
  MaxAttempts,  \* MAX_ATTEMPTS
  Request,      \* requests handled at a time
  MaxFaults     \* bound on what goes wrong and on what people do in vain

ASSUME AccountsAssumption ==
  /\ Trying \subseteq Account
  /\ PhoneOf \in [Account -> Allowed] /\ Allowed \subseteq Phone
  /\ Registered \in [Phone -> Account \cup {NoAccount}] /\ NoAccount \notin Account
  /\ \A p, q \in Phone : Registered[p] = Registered[q] /\ p # q => Registered[p] = NoAccount
  /\ IsFiniteSet(Request)
  /\ MaxAttempts \in Nat \ {0} /\ MaxFaults \in Nat

VARIABLES
  users,      \* users[p]: the account of the row with phone p
  tokens,     \* RegistrationTokenService.tokens: token -> [owner, old]
  starts,     \* tokens made so far
  otps,       \* otp_codes, by id
  sessions,   \* web_sessions, by id, with the code that opened each
  req,        \* req[r]: the request being handled
  link,       \* link[a]: the token of the last link a was sent, or 0
  heard,      \* heard[a]: codes that reached the chat of a
  typed,      \* typed[a]: codes a has typed
  faults

rows == <<users, otps, sessions>>
people == <<link, heard, typed>>
vars == <<rows, tokens, starts, req, people, faults>>

Wrong == 0      \* a code that was never made
NoToken == 0
Idle == [op |-> "idle"]

IsUser(a) == \E p \in Phone : users[p] = a
Busy(a) == \E r \in Request : req[r] # Idle /\ req[r].by = a
HasCome(a) == \E s \in DOMAIN sessions : sessions[s].account = a

Init ==
  /\ users = Registered /\ tokens = <<>> /\ starts = 0
  /\ otps = <<>> /\ sessions = <<>>
  /\ req = [r \in Request |-> Idle]
  /\ link = [a \in Account |-> NoToken]
  /\ heard = [a \in Account |-> {}] /\ typed = [a \in Account |-> {}]
  /\ faults = 0

Fault == faults < MaxFaults /\ faults' = faults + 1

\* Something harmless, or a fault.
FaultUnless(sane) == IF sane THEN UNCHANGED faults ELSE Fault

Open(r, request) == req[r] = Idle /\ req' = [req EXCEPT ![r] = request]
At(r, stage) == req[r] # Idle /\ req[r].at = stage
Goto(r, stage) == req' = [req EXCEPT ![r].at = stage]
End(r) == req' = [req EXCEPT ![r] = Idle]

-----------------------------------------------------------------------------
(* People.  Asking again while a code is on its way, typing a code twice or *)
(* a wrong one and a wrong phone are allowed, and counted.                  *)

Start(r, a) ==
  /\ Open(r, [op |-> "start", by |-> a, at |-> "lookup"])
  /\ FaultUnless(~ IsUser(a) /\ link[a] = NoToken /\ ~ Busy(a))
  /\ UNCHANGED <<rows, tokens, starts, people>>

submitPhone(r, a, p) ==
  /\ Open(r, [op |-> "ask", by |-> a, phone |-> p, token |-> link[a], at |-> "find"])
  /\ p \in Allowed
  /\ FaultUnless(/\ p = PhoneOf[a] /\ ~ Busy(a) /\ heard[a] \subseteq typed[a]
                 /\ ~ HasCome(a) /\ (IsUser(a) \/ link[a] # NoToken))
  /\ UNCHANGED <<rows, tokens, starts, people>>

verifyOtp(r, a, p, code) ==
  /\ code \in heard[a] \cup {Wrong}
  /\ Open(r, [op |-> "verify", by |-> a, phone |-> p, code |-> code,
              otp |-> Wrong, at |-> "active"])
  /\ FaultUnless(p = PhoneOf[a] /\ code # Wrong /\ code \notin typed[a] /\ ~ Busy(a))
  /\ typed' = [typed EXCEPT ![a] = @ \cup ({code} \ {Wrong})]
  /\ UNCHANGED <<rows, tokens, starts, link, heard>>

openPage(r, s) ==
  /\ Open(r, [op |-> "page", by |-> sessions[s].account, session |-> s,
              at |-> "validate"])
  /\ UNCHANGED <<rows, tokens, starts, people, faults>>

logout(s) ==
  /\ sessions[s].state # "ended"
  /\ sessions' = [sessions EXCEPT ![s].state = "ended"]
  /\ UNCHANGED <<users, otps, tokens, starts, req, people, faults>>

-----------------------------------------------------------------------------
(* The bot's /start.                                                        *)

\* Bug: one token at a time for an account.
StartOnce(r) ==
  /\ At(r, "lookup")
  /\ IF \/ IsUser(req[r].by)
        \/ \E t \in DOMAIN tokens : tokens[t].owner = req[r].by
       THEN End(r) ELSE Goto(r, "token")
  /\ UNCHANGED <<rows, tokens, starts, people, faults>>

\* A known account is sent a link with its phone, another one a token.
handleStart(r) ==
  /\ At(r, "lookup")
  /\ IF IsUser(req[r].by) THEN End(r) ELSE Goto(r, "token")
  /\ UNCHANGED <<rows, tokens, starts, people, faults>>

\* Expired tokens are cleaned up whenever one is made.
cleanExpired == [t \in {t \in DOMAIN tokens : ~ tokens[t].old} |-> tokens[t]]

\* The reply may be lost.
create(r) ==
  /\ At(r, "token")
  /\ starts' = starts + 1
  /\ tokens' = [t \in DOMAIN cleanExpired \cup {starts'} |->
                  IF t = starts' THEN [owner |-> req[r].by, old |-> FALSE]
                  ELSE tokens[t]]
  /\ \/ link' = [link EXCEPT ![req[r].by] = starts'] /\ UNCHANGED faults
     \/ Fault /\ UNCHANGED link
  /\ End(r) /\ UNCHANGED <<rows, heard, typed>>

-----------------------------------------------------------------------------
(* POST /login/phone: LoginController.submitPhone, OtpService.generateAndSend. *)

Refuse(r) == End(r) /\ link' = [link EXCEPT ![req[r].by] = NoToken]

\* Bug: the token is looked up and stays.
stillThere(t) == tokens
without(t) == [u \in DOMAIN tokens \ {t} |-> tokens[u]]

\* findByPhone and consume: the token is gone whatever comes of it.
findByPhone(r) ==
  /\ At(r, "find")
  /\ LET token == req[r].token
         good == \E t \in DOMAIN tokens : t = token /\ ~ tokens[t].old
     IN  IF users[req[r].phone] # NoAccount
           THEN Goto(r, "invalidate") /\ UNCHANGED <<tokens, link>>
         ELSE /\ tokens' = without(token)
              /\ IF good THEN Goto(r, "createUser") /\ UNCHANGED link ELSE Refuse(r)
  /\ UNCHANGED <<rows, starts, heard, typed, faults>>

\* Phones and accounts are unique; a row refused fails the request.
createUser(r) ==
  /\ At(r, "createUser")
  /\ LET p == req[r].phone
     IN  IF users[p] # NoAccount \/ IsUser(req[r].by)
           THEN End(r) /\ UNCHANGED users
           ELSE Goto(r, "invalidate") /\ users' = [users EXCEPT ![p] = req[r].by]
  /\ UNCHANGED <<otps, sessions, tokens, starts, people, faults>>

\* Bug: the codes before are left alone.
InvalidateNothing(r) ==
  At(r, "invalidate") /\ Goto(r, "createOtp")
    /\ UNCHANGED <<rows, tokens, starts, people, faults>>

invalidateOtpsForPhone(r) ==
  /\ At(r, "invalidate") /\ Goto(r, "createOtp")
  /\ otps' = [i \in DOMAIN otps |->
                IF otps[i].phone = req[r].phone THEN [otps[i] EXCEPT !.used = TRUE]
                ELSE otps[i]]
  /\ UNCHANGED <<users, sessions, tokens, starts, people, faults>>

createOtp(r) ==
  /\ At(r, "createOtp")
  /\ otps' = Append(otps, [phone |-> req[r].phone, used |-> FALSE, old |-> FALSE,
                           attempts |-> 0])
  /\ req' = [req EXCEPT ![r] = [op |-> "ask", by |-> @.by, phone |-> @.phone,
                                code |-> Len(otps'), at |-> "send"]]
  /\ UNCHANGED <<users, sessions, tokens, starts, people, faults>>

\* To the chat of the account whose phone it is.
sendCode(r) ==
  /\ At(r, "send") /\ End(r)
  /\ heard' = [heard EXCEPT ![users[req[r].phone]] = @ \cup {req[r].code}]
  /\ UNCHANGED <<rows, tokens, starts, link, typed, faults>>

-----------------------------------------------------------------------------
(* POST /login/verify: LoginController.verifyOtp and OtpService.validate.   *)

\* Bug: any code of anyone that is not used.
ActiveOfAnyone(p) == {i \in DOMAIN otps : ~ otps[i].used /\ ~ otps[i].old}

Active(p) == {i \in DOMAIN otps : otps[i].phone = p /\ ~ otps[i].used /\ ~ otps[i].old}

\* Bug: attempts are not looked at.
TriesLeft(i) == TRUE

HasAttemptsLeft(i) == otps[i].attempts < MaxAttempts

\* The latest active code, unless it was tried too often.
findActiveOtp(r) ==
  /\ At(r, "active")
  /\ LET active == Active(req[r].phone)
     IN  IF active # {} /\ HasAttemptsLeft(Max(active))
           THEN req' = [req EXCEPT ![r].at = "attempt", ![r].otp = Max(active)]
           ELSE End(r)
  /\ UNCHANGED <<rows, tokens, starts, people, faults>>

incrementAttempts(r) ==
  /\ At(r, "attempt")
  /\ otps' = [otps EXCEPT ![req[r].otp].attempts = @ + 1]
  /\ IF req[r].otp = req[r].code THEN Goto(r, "use") ELSE End(r)
  /\ UNCHANGED <<users, sessions, tokens, starts, people, faults>>

\* Bug: the code stays as it was.
MarkNothing(r) ==
  At(r, "use") /\ Goto(r, "session")
    /\ UNCHANGED <<rows, tokens, starts, people, faults>>

markUsed(r) ==
  /\ At(r, "use") /\ Goto(r, "session")
  /\ otps' = [otps EXCEPT ![req[r].otp].used = TRUE]
  /\ UNCHANGED <<users, sessions, tokens, starts, people, faults>>

createSession(r) ==
  /\ At(r, "session") /\ End(r)
  /\ sessions' = Append(sessions, [account |-> users[req[r].phone],
                                   code |-> req[r].otp, state |-> "live"])
  /\ UNCHANGED <<users, otps, tokens, starts, people, faults>>

-----------------------------------------------------------------------------
(* SessionGuard, before every request of the dashboard.                     *)

validateSession(r) ==
  /\ At(r, "validate")
  /\ IF sessions[req[r].session].state = "live" THEN Goto(r, "refresh") ELSE End(r)
  /\ UNCHANGED <<rows, tokens, starts, people, faults>>

\* Bug: a row that is no longer there is made again.
RefreshOrInsert(r) ==
  /\ At(r, "refresh") /\ End(r)
  /\ sessions' = [sessions EXCEPT ![req[r].session].state = "live"]
  /\ UNCHANGED <<users, otps, tokens, starts, people, faults>>

\* Thirty more days for a row that is still there, expired meanwhile or not.
refreshSession(r) ==
  /\ At(r, "refresh") /\ End(r)
  /\ sessions' = [sessions EXCEPT ![req[r].session].state =
                    IF @ = "ended" THEN @ ELSE "live"]
  /\ UNCHANGED <<users, otps, tokens, starts, people, faults>>

-----------------------------------------------------------------------------
(* Time and faults.                                                         *)

\* Half an hour for a token, five minutes for a code, thirty days for a session.
Expire ==
  /\ Fault
  /\ \/ \E t \in DOMAIN tokens :
          tokens' = [tokens EXCEPT ![t].old = TRUE] /\ UNCHANGED <<otps, sessions>>
     \/ \E i \in DOMAIN otps :
          otps' = [otps EXCEPT ![i].old = TRUE] /\ UNCHANGED <<tokens, sessions>>
     \/ \E s \in DOMAIN sessions :
          /\ sessions[s].state = "live"
          /\ sessions' = [sessions EXCEPT ![s].state = "old"]
          /\ UNCHANGED <<tokens, otps>>
  /\ UNCHANGED <<users, starts, req, people>>

\* The database or Telegram does not answer: the request ends where it was.
Fails(r) ==
  /\ req[r] # Idle /\ Fault /\ End(r)
  /\ UNCHANGED <<rows, tokens, starts, people>>

\* Requests are cut off, and tokens were only in memory.
Restart ==
  /\ Fault
  /\ tokens' = <<>> /\ req' = [r \in Request |-> Idle]
  /\ UNCHANGED <<rows, starts, people>>

-----------------------------------------------------------------------------
Person(a) ==
  \E r \in Request :
    \/ Start(r, a)
    \/ \E p \in Phone : submitPhone(r, a, p)
    \/ \E p \in Phone, code \in heard[a] \cup {Wrong} : verifyOtp(r, a, p, code)

Handle(r) ==
  \/ handleStart(r) \/ create(r)
  \/ findByPhone(r) \/ createUser(r) \/ invalidateOtpsForPhone(r) \/ createOtp(r)
  \/ sendCode(r)
  \/ findActiveOtp(r) \/ incrementAttempts(r) \/ markUsed(r) \/ createSession(r)
  \/ validateSession(r) \/ refreshSession(r)

Next ==
  \/ \E a \in Trying : Person(a)
  \/ \E s \in DOMAIN sessions : logout(s) \/ \E r \in Request : openPage(r, s)
  \/ \E r \in Request : Handle(r) \/ Fails(r)
  \/ Expire \/ Restart

\* Awaits return, and a person who wants in goes on trying.
Fairness ==
  /\ \A r \in Request : WF_vars(Handle(r))
  /\ \A a \in Trying : SF_vars(Person(a) /\ UNCHANGED faults)

Spec == Init /\ [][Next]_vars
FairSpec == Spec /\ Fairness

-----------------------------------------------------------------------------
\* Shapes of the state, and what a request is at relates it to what it has read.
TypeOK ==
  /\ users \in [Phone -> Account \cup {NoAccount}]
  /\ \A p, q \in Phone : users[p] = users[q] /\ p # q => users[p] = NoAccount
  /\ DOMAIN tokens \subseteq 1 .. starts
  /\ \A i \in DOMAIN otps : users[otps[i].phone] # NoAccount
  /\ \A a \in Account : typed[a] \subseteq heard[a] /\ heard[a] \subseteq DOMAIN otps
  /\ \A r \in Request : req[r] # Idle =>
       /\ req[r].at \in {"attempt", "use", "session"} => req[r].otp \in DOMAIN otps
       /\ req[r].at = "createUser" => req[r].token \notin DOMAIN tokens

\* A session is of the account to whose phone the code that opened it was sent:
\* validate looks for codes by phone, and several people log in at once.
SessionsMatchCodes ==
  \A s \in DOMAIN sessions :
    /\ users[otps[sessions[s].code].phone] = sessions[s].account
    /\ sessions[s].code \in heard[sessions[s].account]

Others == Cardinality(Request) - 1

\* validate reads the attempts, then adds one in the database: requests handled at the
\* same time pass MAX_ATTEMPTS, by no more than there are of them.
AttemptsBounded == \A i \in DOMAIN otps : otps[i].attempts <= MaxAttempts + Others

\* A code is marked used after it was read: those who read it meanwhile open a session
\* each, and no one later.
UsesBounded ==
  \A i \in DOMAIN otps :
    LET opened == {s \in DOMAIN sessions : sessions[s].code = i}
        opening == {r \in Request : req[r].op = "verify" /\ req[r].otp = i}
    IN  /\ opened # {} => otps[i].used
        /\ Cardinality(opened) + Cardinality(opening) <= 1 + Others

\* A new code takes the place of the ones before.  Requests for one at the same time
\* may both invalidate before either inserts, and leave one code each.
ActiveCodesBounded == \A p \in Phone : Cardinality(Active(p)) <= 1 + Others

\* logout deletes the session, and the sliding expiration of a request let in before
\* does not bring it back.
LoggedOutStaysOut ==
  [][\A s \in DOMAIN sessions :
       sessions[s].state = "ended" => sessions'[s].state = "ended"]_vars

\* Links expire, codes are superseded or tried too often, messages get lost and
\* nest_api restarts; a person who goes on trying gets into the dashboard.
PeopleComeIn == \A a \in Trying : <>HasCome(a)
=============================================================================
