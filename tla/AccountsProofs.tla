---------------------------- MODULE AccountsProofs ----------------------------
(***************************************************************************)
(* Theorems about Accounts for every number of accounts, phones, requests   *)
(* at a time, attempts and faults: what the tables and the requests being   *)
(* handled say of one another, whose a session is, and that a logout is     *)
(* final.                                                                   *)
(***************************************************************************)
EXTENDS Accounts, FiniteSetTheorems, SequenceTheorems, TLAPS

(***************************************************************************)
(* Shapes                                                                  *)
(***************************************************************************)
Otp == [phone : Phone, used : BOOLEAN, old : BOOLEAN, attempts : Nat]
Session == [account : Account, code : Nat, state : {"live", "old", "ended"}]

StartRequest == [op : {"start"}, by : Account, at : {"lookup", "token"}]
AskRequest == [op : {"ask"}, by : Account, phone : Phone, token : Nat,
               at : {"find", "createUser", "invalidate", "createOtp"}]
SendRequest == [op : {"ask"}, by : Account, phone : Phone, code : Nat, at : {"send"}]
VerifyRequest == [op : {"verify"}, by : Account, phone : Phone, code : Nat, otp : Nat,
                  at : {"active", "attempt", "use", "session"}]
PageRequest == [op : {"page"}, by : Account, session : Nat, at : {"validate", "refresh"}]
AnyRequest == {Idle} \cup StartRequest \cup AskRequest \cup SendRequest
                \cup VerifyRequest \cup PageRequest

Shapes ==
  /\ users \in [Phone -> Account \cup {NoAccount}]
  /\ otps \in Seq(Otp) /\ sessions \in Seq(Session)
  /\ req \in [Request -> AnyRequest]
  /\ heard \in [Account -> SUBSET Nat] /\ typed \in [Account -> SUBSET Nat]
  /\ link \in [Account -> Nat] /\ starts \in Nat

\* What the other variables say of request r.
RequestOK(r) ==
  /\ req[r] \in AskRequest =>
       /\ req[r].token <= starts
       /\ req[r].at = "createUser" => req[r].token \notin DOMAIN tokens
       /\ req[r].at \in {"invalidate", "createOtp"} => users[req[r].phone] # NoAccount
  /\ req[r] \in SendRequest =>
       /\ users[req[r].phone] # NoAccount
       /\ req[r].code \in DOMAIN otps /\ otps[req[r].code].phone = req[r].phone
  /\ req[r] \in VerifyRequest =>
       /\ req[r].code \in heard[req[r].by] \cup {Wrong}
       /\ req[r].at = "active" => req[r].otp = Wrong
       /\ req[r].at # "active" =>
            req[r].otp \in DOMAIN otps /\ otps[req[r].otp].phone = req[r].phone
       /\ req[r].at \in {"use", "session"} => req[r].otp = req[r].code
       /\ req[r].at = "session" => otps[req[r].otp].used
  /\ req[r] \in PageRequest => req[r].session \in DOMAIN sessions

UsersOK ==
  /\ \A p, q \in Phone : users[p] = users[q] /\ p # q => users[p] = NoAccount
  /\ DOMAIN tokens \subseteq 1 .. starts
  /\ \A a \in Account : link[a] <= starts

\* Codes are of registered phones, and a person hears those of their own only.
CodesOK ==
  /\ \A i \in DOMAIN otps : users[otps[i].phone] # NoAccount
  /\ \A a \in Account : typed[a] \subseteq heard[a]
  /\ \A a \in Account : \A c \in heard[a] : c \in DOMAIN otps /\ users[otps[c].phone] = a

SessionsOK ==
  \A s \in DOMAIN sessions :
    /\ sessions[s].code \in DOMAIN otps /\ otps[sessions[s].code].used
    /\ sessions[s].code \in heard[sessions[s].account]

Inv ==
  /\ Shapes /\ UsersOK /\ CodesOK /\ SessionsOK
  /\ \A r \in Request : RequestOK(r)

LEMMA Rows ==
  ASSUME Shapes
  PROVE  /\ DOMAIN otps = 1 .. Len(otps) /\ Len(otps) \in Nat
         /\ \A i \in DOMAIN otps :
              /\ otps[i] \in Otp /\ otps[i].phone \in Phone
              /\ otps[i].used \in BOOLEAN /\ otps[i].old \in BOOLEAN
              /\ otps[i].attempts \in Nat
         /\ DOMAIN sessions = 1 .. Len(sessions) /\ Len(sessions) \in Nat
         /\ \A s \in DOMAIN sessions :
              /\ sessions[s] \in Session /\ sessions[s].account \in Account
              /\ sessions[s].code \in Nat
<1>1. /\ DOMAIN otps = 1 .. Len(otps) /\ Len(otps) \in Nat
      /\ \A i \in DOMAIN otps : otps[i] \in Otp
  BY LenProperties, ElementOfSeq DEF Shapes
<1>2. /\ DOMAIN sessions = 1 .. Len(sessions) /\ Len(sessions) \in Nat
      /\ \A s \in DOMAIN sessions : sessions[s] \in Session
  BY LenProperties, ElementOfSeq DEF Shapes
<1> QED BY <1>1, <1>2 DEF Otp, Session

LEMMA InvInit == Init => Inv
<1> SUFFICES ASSUME Init PROVE Inv
  OBVIOUS
<1>1. Shapes
  <2>1. Idle \in AnyRequest
    BY DEF AnyRequest
  <2> QED BY <2>1, AccountsAssumption DEF Init, Shapes, NoToken
<1>2. UsersOK
  BY AccountsAssumption DEF Init, UsersOK, NoToken
<1>3. CodesOK /\ SessionsOK
  BY DEF Init, CodesOK, SessionsOK
<1>4. \A r \in Request : RequestOK(r)
  <2>1. Idle \notin AskRequest \cup SendRequest \cup VerifyRequest \cup PageRequest
    BY DEF Idle, AskRequest, SendRequest, VerifyRequest, PageRequest
  <2> QED BY <2>1 DEF Init, RequestOK
<1> QED BY <1>1, <1>2, <1>3, <1>4 DEF Inv

\* A stage tells what kind a request is.
LEMMA Kinds ==
  ASSUME Shapes, NEW r \in Request, NEW stage, At(r, stage)
  PROVE  /\ req[r].at = stage /\ req[r] # Idle
         /\ stage \in {"lookup", "token"} => req[r] \in StartRequest
         /\ stage \in {"find", "createUser", "invalidate", "createOtp"} =>
              req[r] \in AskRequest
         /\ stage = "send" => req[r] \in SendRequest
         /\ stage \in {"active", "attempt", "use", "session"} => req[r] \in VerifyRequest
         /\ stage \in {"validate", "refresh"} => req[r] \in PageRequest
<1>1. req[r] \in AnyRequest /\ req[r] # Idle /\ req[r].at = stage
  BY DEF Shapes, At
<1> QED BY <1>1 DEF AnyRequest, StartRequest, AskRequest, SendRequest, VerifyRequest,
                    PageRequest

\* No request is of two kinds.
LEMMA KindsApart ==
  /\ \A q \in StartRequest : q # Idle /\ q \notin AskRequest /\ q \notin SendRequest
                             /\ q \notin VerifyRequest /\ q \notin PageRequest
  /\ \A q \in AskRequest : q # Idle /\ q \notin SendRequest
                           /\ q \notin VerifyRequest /\ q \notin PageRequest
  /\ \A q \in SendRequest : q # Idle /\ q \notin AskRequest /\ q \notin VerifyRequest
                            /\ q \notin PageRequest
  /\ \A q \in VerifyRequest : q # Idle /\ q \notin AskRequest /\ q \notin SendRequest
                              /\ q \notin PageRequest
  /\ \A q \in PageRequest : q # Idle /\ q \notin AskRequest /\ q \notin SendRequest
                            /\ q \notin VerifyRequest
  /\ Idle \notin AskRequest /\ Idle \notin SendRequest /\ Idle \notin VerifyRequest
  /\ Idle \notin PageRequest
<1>1. /\ \A q \in StartRequest : q.op = "start"
      /\ \A q \in AskRequest : q.op = "ask" /\ q.at # "send"
      /\ \A q \in SendRequest : q.op = "ask" /\ q.at = "send"
      /\ \A q \in VerifyRequest : q.op = "verify"
      /\ \A q \in PageRequest : q.op = "page"
      /\ Idle.op = "idle"
  BY DEF StartRequest, AskRequest, SendRequest, VerifyRequest, PageRequest, Idle
<1> QED BY <1>1

LEMMA Changes ==
  ASSUME Shapes, NEW r \in Request, NEW new \in AnyRequest, req' = [req EXCEPT ![r] = new]
  PROVE  /\ req' \in [Request -> AnyRequest] /\ req'[r] = new
         /\ \A q \in Request \ {r} : req'[q] = req[q]
  BY DEF Shapes

LEMMA Ends ==
  ASSUME Shapes, NEW r \in Request, End(r)
  PROVE  /\ req' \in [Request -> AnyRequest] /\ req'[r] = Idle
         /\ \A q \in Request \ {r} : req'[q] = req[q]
<1>1. Idle \in AnyRequest
  BY DEF AnyRequest
<1> QED BY <1>1, Changes DEF End

\* A request that goes on stays of its kind.
LEMMA Goes ==
  ASSUME Shapes, NEW r \in Request, NEW stage, Goto(r, stage),
         \/ req[r] \in StartRequest /\ stage \in {"lookup", "token"}
         \/ req[r] \in AskRequest /\ stage \in {"find", "createUser", "invalidate", "createOtp"}
         \/ req[r] \in VerifyRequest /\ stage \in {"active", "attempt", "use", "session"}
         \/ req[r] \in PageRequest /\ stage \in {"validate", "refresh"}
  PROVE  /\ req' \in [Request -> AnyRequest]
         /\ req'[r] = [req[r] EXCEPT !.at = stage] /\ req'[r].at = stage
         /\ \A q \in Request \ {r} : req'[q] = req[q]
         /\ req[r] \in StartRequest => req'[r] \in StartRequest
         /\ req[r] \in AskRequest =>
              /\ req'[r] \in AskRequest
              /\ req'[r].phone = req[r].phone /\ req'[r].token = req[r].token
         /\ req[r] \in VerifyRequest =>
              /\ req'[r] \in VerifyRequest /\ req'[r].phone = req[r].phone
              /\ req'[r].code = req[r].code /\ req'[r].otp = req[r].otp
              /\ req'[r].by = req[r].by
         /\ req[r] \in PageRequest =>
              req'[r] \in PageRequest /\ req'[r].session = req[r].session
<1> DEFINE new == [req[r] EXCEPT !.at = stage]
<1>1. req' = [req EXCEPT ![r] = new]
  BY DEF Goto, Shapes
<1>2. CASE req[r] \in StartRequest /\ stage \in {"lookup", "token"}
  <2>1. new \in StartRequest /\ new.at = stage
    BY <1>2 DEF StartRequest
  <2> QED BY <1>1, <1>2, <2>1, Changes, KindsApart DEF AnyRequest
<1>3. CASE req[r] \in AskRequest /\ stage \in {"find", "createUser", "invalidate", "createOtp"}
  <2>1. new \in AskRequest /\ new.at = stage /\ new.phone = req[r].phone
        /\ new.token = req[r].token
    BY <1>3 DEF AskRequest
  <2> HIDE DEF new
  <2> QED BY <1>1, <1>3, <2>1, Changes, KindsApart DEF AnyRequest, new
<1>4. CASE req[r] \in VerifyRequest /\ stage \in {"active", "attempt", "use", "session"}
  <2>1. /\ new \in VerifyRequest /\ new.at = stage /\ new.phone = req[r].phone
        /\ new.code = req[r].code /\ new.otp = req[r].otp /\ new.by = req[r].by
    BY <1>4 DEF VerifyRequest
  <2> QED BY <1>1, <1>4, <2>1, Changes, KindsApart DEF AnyRequest
<1>5. CASE req[r] \in PageRequest /\ stage \in {"validate", "refresh"}
  <2>1. new \in PageRequest /\ new.at = stage /\ new.session = req[r].session
    BY <1>5 DEF PageRequest
  <2> QED BY <1>1, <1>5, <2>1, Changes, KindsApart DEF AnyRequest
<1> QED BY <1>2, <1>3, <1>4, <1>5

(***************************************************************************)
(* Steps                                                                   *)
(***************************************************************************)
\* What every step does to the tables: rows stay, codes keep their phone and stay used,
\* and a token that is gone does not come back.
Grows ==
  /\ \A p \in Phone : users[p] # NoAccount => users'[p] = users[p]
  /\ \A i \in DOMAIN otps :
       i \in DOMAIN otps' /\ otps'[i].phone = otps[i].phone /\ (otps[i].used => otps'[i].used)
  /\ \A s \in DOMAIN sessions :
       /\ s \in DOMAIN sessions'
       /\ sessions'[s].account = sessions[s].account /\ sessions'[s].code = sessions[s].code
  /\ \A a \in Account : heard[a] \subseteq heard'[a]
  /\ starts <= starts' /\ \A t \in DOMAIN tokens' : t \in DOMAIN tokens \/ t > starts

\* The requests a step leaves alone, or ends.
LEMMA OthersKept ==
  ASSUME Inv, Shapes', Grows, NEW r \in Request, RequestOK(r)',
         \A q \in Request \ {r} : req'[q] = req[q]
  PROVE  \A q \in Request : RequestOK(q)'
<1> SUFFICES ASSUME NEW q \in Request \ {r} PROVE RequestOK(q)'
  OBVIOUS
<1>1. RequestOK(q) /\ req'[q] = req[q] /\ starts \in Nat /\ starts' \in Nat
  BY DEF Inv, Shapes
<1>2. req[q] \in AskRequest => req[q].token \in Nat /\ req[q].phone \in Phone
  BY DEF AskRequest
<1>3. req[q] \in SendRequest => req[q].phone \in Phone
  BY DEF SendRequest
<1>4. req[q] \in VerifyRequest => req[q].by \in Account
  BY DEF VerifyRequest
<1>5. req[q] \in AskRequest =>
       /\ req[q].token <= starts'
       /\ req[q].at = "createUser" => req[q].token \notin DOMAIN tokens'
       /\ req[q].at \in {"invalidate", "createOtp"} => users'[req[q].phone] # NoAccount
  BY <1>1, <1>2 DEF RequestOK, Grows
<1>6. req[q] \in SendRequest =>
       /\ users'[req[q].phone] # NoAccount
       /\ req[q].code \in DOMAIN otps' /\ otps'[req[q].code].phone = req[q].phone
  BY <1>1, <1>3 DEF RequestOK, Grows
<1>7. req[q] \in VerifyRequest =>
       /\ req[q].code \in heard'[req[q].by] \cup {Wrong}
       /\ req[q].at = "active" => req[q].otp = Wrong
       /\ req[q].at # "active" =>
            req[q].otp \in DOMAIN otps' /\ otps'[req[q].otp].phone = req[q].phone
       /\ req[q].at \in {"use", "session"} => req[q].otp = req[q].code
       /\ req[q].at = "session" => otps'[req[q].otp].used
  BY <1>1, <1>4 DEF RequestOK, Grows
<1>8. req[q] \in PageRequest => req[q].session \in DOMAIN sessions'
  BY <1>1 DEF RequestOK, Grows
<1> QED BY <1>1, <1>5, <1>6, <1>7, <1>8 DEF RequestOK

\* A request that ended says nothing of the tables; nor does the bot's.
LEMMA NothingToSay ==
  ASSUME NEW r \in Request, req'[r] = Idle \/ req'[r] \in StartRequest
  PROVE  RequestOK(r)'
  BY KindsApart DEF RequestOK

LEMMA UsersKept ==
  ASSUME Inv, UNCHANGED <<users, link, starts>>, DOMAIN tokens' \subseteq DOMAIN tokens
  PROVE  UsersOK'
  BY DEF Inv, UsersOK

LEMMA CodesKept ==
  ASSUME Inv, Grows, UNCHANGED heard, \A a \in Account : typed'[a] \subseteq heard[a],
         \A i \in DOMAIN otps' : i \in DOMAIN otps \/ users'[otps'[i].phone] # NoAccount
  PROVE  CodesOK'
<1>1. /\ \A i \in DOMAIN otps : users[otps[i].phone] # NoAccount /\ otps[i].phone \in Phone
      /\ \A a \in Account : \A c \in heard[a] : c \in DOMAIN otps /\ users[otps[c].phone] = a
  BY Rows DEF Inv, CodesOK
<1> QED BY <1>1 DEF CodesOK, Grows

LEMMA SessionsKept ==
  ASSUME Inv, Shapes', Grows, \A s \in DOMAIN sessions' : s \in DOMAIN sessions
  PROVE  SessionsOK'
<1>1. \A s \in DOMAIN sessions : sessions[s].account \in Account
  BY Rows DEF Inv
<1> QED BY <1>1 DEF Inv, SessionsOK, Grows

\* A step of request r that changes nothing else.
LEMMA OnlyRequest ==
  ASSUME Inv, NEW r \in Request, UNCHANGED <<rows, tokens, starts, people>>,
         req' \in [Request -> AnyRequest], \A q \in Request \ {r} : req'[q] = req[q],
         RequestOK(r)'
  PROVE  Inv'
<1>1. Grows
  BY DEF Grows, rows, people, Inv, Shapes
<1>2. Shapes'
  BY DEF Inv, Shapes, rows, people
<1>3. UsersOK' /\ CodesOK' /\ SessionsOK'
  BY DEF Inv, UsersOK, CodesOK, SessionsOK, rows, people
<1> QED BY <1>1, <1>2, <1>3, OthersKept DEF Inv

LEMMA PersonKeeps ==
  ASSUME Inv, NEW a \in Trying, Person(a)
  PROVE  Inv'
<1>1. a \in Account /\ link[a] \in Nat /\ link[a] <= starts /\ Shapes
  BY AccountsAssumption DEF Inv, Shapes, UsersOK
<1>2. PICK r \in Request : \/ Start(r, a)
                          \/ \E p \in Phone : submitPhone(r, a, p)
                          \/ \E q \in Phone, code \in heard[a] \cup {Wrong} : verifyOtp(r, a, q, code)
  BY DEF Person
<1>3. CASE Start(r, a)
  <2> DEFINE new == [op |-> "start", by |-> a, at |-> "lookup"]
  <2>1. new \in StartRequest /\ new \in AnyRequest
    BY <1>1 DEF StartRequest, AnyRequest
  <2>2. req' = [req EXCEPT ![r] = new] /\ UNCHANGED <<rows, tokens, starts, people>>
    BY <1>3 DEF Start, Open
  <2> HIDE DEF new
  <2> QED BY <1>1, <2>1, <2>2, Changes, NothingToSay, OnlyRequest
<1>4. ASSUME NEW p \in Phone, submitPhone(r, a, p) PROVE Inv'
  <2> DEFINE new == [op |-> "ask", by |-> a, phone |-> p, token |-> link[a], at |-> "find"]
  <2>1. /\ new \in AskRequest /\ new \in AnyRequest
        /\ new.token <= starts /\ new.at = "find"
    BY <1>1 DEF AskRequest, AnyRequest
  <2>2. req' = [req EXCEPT ![r] = new] /\ UNCHANGED <<rows, tokens, starts, people>>
    BY <1>4 DEF submitPhone, Open
  <2> HIDE DEF new
  <2>3. req'[r] = new /\ starts' = starts
    BY <1>1, <2>1, <2>2, Changes
  <2>4. RequestOK(r)'
    BY <2>1, <2>3, KindsApart DEF RequestOK
  <2> QED BY <1>1, <2>1, <2>2, <2>4, Changes, OnlyRequest
<1>5. ASSUME NEW p \in Phone, NEW code \in heard[a] \cup {Wrong}, verifyOtp(r, a, p, code)
      PROVE  Inv'
  <2> DEFINE new == [op |-> "verify", by |-> a, phone |-> p, code |-> code,
                     otp |-> Wrong, at |-> "active"]
  <2>1. code \in Nat /\ heard[a] \subseteq Nat /\ Wrong \in Nat
    BY <1>1 DEF Shapes, Wrong
  <2>2. /\ new \in VerifyRequest /\ new \in AnyRequest
        /\ new.code = code /\ new.by = a /\ new.otp = Wrong /\ new.at = "active"
    BY <1>1, <2>1 DEF VerifyRequest, AnyRequest
  <2>3. /\ req' = [req EXCEPT ![r] = new]
        /\ typed' = [typed EXCEPT ![a] = @ \cup ({code} \ {Wrong})]
        /\ UNCHANGED <<rows, tokens, starts, link, heard>>
    BY <1>5 DEF verifyOtp, Open
  <2> HIDE DEF new
  <2>4. /\ req' \in [Request -> AnyRequest] /\ req'[r] = new
        /\ \A q \in Request \ {r} : req'[q] = req[q]
    BY <1>1, <2>2, <2>3, Changes
  <2>5. Shapes'
    BY <1>1, <2>1, <2>3, <2>4 DEF Shapes, rows
  <2>6. Grows
    BY <1>1, <2>3 DEF Grows, rows, Shapes
  <2>7. RequestOK(r)'
    BY <2>2, <2>3, <2>4, KindsApart DEF RequestOK
  <2>8. \A b \in Account : typed'[b] \subseteq heard[b]
    BY <2>3, <1>1 DEF Inv, CodesOK, Shapes
  <2>9. UsersOK' /\ CodesOK' /\ SessionsOK'
    BY <2>3, <2>5, <2>6, <2>8, UsersKept, CodesKept, SessionsKept DEF rows
  <2> QED BY <2>4, <2>5, <2>6, <2>7, <2>9, OthersKept DEF Inv
<1> QED BY <1>2, <1>3, <1>4, <1>5

LEMMA StartKeeps ==
  ASSUME Inv, NEW r \in Request, handleStart(r) \/ create(r)
  PROVE  Inv'
<1>1. CASE handleStart(r)
  <2>1. req[r] \in StartRequest /\ Shapes
    BY <1>1, Kinds DEF handleStart, Inv
  <2>2. /\ req' \in [Request -> AnyRequest] /\ (req'[r] = Idle \/ req'[r] \in StartRequest)
        /\ \A q \in Request \ {r} : req'[q] = req[q]
    BY <1>1, <2>1, Ends, Goes DEF handleStart
  <2> QED BY <1>1, <2>2, NothingToSay, OnlyRequest DEF handleStart
<1>2. CASE create(r)
  <2>1. req[r] \in StartRequest /\ req[r].by \in Account /\ Shapes
    BY <1>2, Kinds DEF create, Inv, StartRequest
  <2>2. /\ req' \in [Request -> AnyRequest] /\ req'[r] = Idle
        /\ \A q \in Request \ {r} : req'[q] = req[q]
    BY <1>2, <2>1, Ends DEF create
  <2>3. /\ starts' = starts + 1 /\ starts \in Nat /\ UNCHANGED <<rows, heard, typed>>
        /\ link' = [link EXCEPT ![req[r].by] = starts'] \/ link' = link
    BY <1>2, <2>1 DEF create, Shapes
  <2>4. DOMAIN tokens' \subseteq DOMAIN tokens \cup {starts'}
    BY <1>2 DEF create, cleanExpired
  <2>5. Shapes'
    <3>1. starts' \in Nat
      BY <2>3
    <3>2. link' \in [Account -> Nat]
      <4>1. CASE link' = [link EXCEPT ![req[r].by] = starts']
        BY <2>1, <3>1, <4>1 DEF Shapes
      <4> QED BY <2>1, <2>3, <4>1 DEF Shapes
    <3> QED BY <2>1, <2>2, <2>3, <3>1, <3>2 DEF Shapes, rows
  <2>6. Grows
    BY <2>1, <2>3, <2>4 DEF Grows, rows, Shapes
  <2>7. UsersOK'
    <3>1. \A a \in Account : link[a] \in Nat /\ link[a] <= starts
      BY <2>1 DEF Inv, UsersOK, Shapes
    <3>2. \A a \in Account : link'[a] <= starts'
      <4>1. \A a \in Account : link'[a] = link[a] \/ link'[a] = starts'
        <5>1. CASE link' = [link EXCEPT ![req[r].by] = starts']
          BY <2>1, <5>1 DEF Shapes
        <5> QED BY <2>3, <5>1
      <4> QED BY <2>3, <3>1, <4>1
    <3> QED BY <2>3, <2>4, <3>2 DEF Inv, UsersOK, rows
  <2>8. CodesOK' /\ SessionsOK'
    BY <2>3 DEF Inv, CodesOK, SessionsOK, rows
  <2> QED BY <2>2, <2>5, <2>6, <2>7, <2>8, NothingToSay, OthersKept DEF Inv
<1> QED BY <1>1, <1>2

\* A request that stays one for a code, at another stage.
LEMMA AskOK ==
  ASSUME NEW r \in Request, req[r] \in AskRequest, req'[r] \in AskRequest, RequestOK(r),
         req'[r].token = req[r].token, starts' = starts,
         req'[r].at = "createUser" => req[r].token \notin DOMAIN tokens',
         req'[r].at \in {"invalidate", "createOtp"} => users'[req'[r].phone] # NoAccount
  PROVE  RequestOK(r)'
  BY KindsApart DEF RequestOK

LEMMA FindKeeps ==
  ASSUME Inv, NEW r \in Request, findByPhone(r)
  PROVE  Inv'
<1>1. /\ req[r] \in AskRequest /\ req[r].by \in Account /\ Shapes /\ RequestOK(r)
      /\ UNCHANGED <<rows, starts, heard, typed>>
  BY Kinds DEF findByPhone, Inv, AskRequest
<1>2. CASE users[req[r].phone] # NoAccount
  <2>1. Goto(r, "invalidate") /\ UNCHANGED <<tokens, link>>
    BY <1>2 DEF findByPhone
  <2>2. /\ req' \in [Request -> AnyRequest] /\ req'[r] \in AskRequest
        /\ \A q \in Request \ {r} : req'[q] = req[q]
        /\ req'[r].at = "invalidate" /\ req'[r].phone = req[r].phone
        /\ req'[r].token = req[r].token
    BY <1>1, <2>1, Goes
  <2>3. RequestOK(r)'
    BY <1>1, <1>2, <2>2, AskOK DEF rows
  <2> QED BY <1>1, <2>1, <2>2, <2>3, OnlyRequest DEF people
<1>3. CASE users[req[r].phone] = NoAccount
  <2>1. /\ tokens' = without(req[r].token)
        /\ (Goto(r, "createUser") /\ UNCHANGED link) \/ Refuse(r)
    BY <1>3 DEF findByPhone
  <2>2. DOMAIN tokens' \subseteq DOMAIN tokens /\ req[r].token \notin DOMAIN tokens'
    BY <2>1 DEF without
  <2>3. /\ req' \in [Request -> AnyRequest] /\ RequestOK(r)'
        /\ \A q \in Request \ {r} : req'[q] = req[q]
    <3>1. CASE Goto(r, "createUser")
      <4>1. /\ req' \in [Request -> AnyRequest] /\ req'[r] \in AskRequest
            /\ \A q \in Request \ {r} : req'[q] = req[q]
            /\ req'[r].at = "createUser" /\ req'[r].token = req[r].token
        BY <1>1, <3>1, Goes
      <4> QED BY <1>1, <2>2, <4>1, AskOK
    <3>2. CASE Refuse(r)
      BY <1>1, <3>2, Ends, NothingToSay DEF Refuse
    <3> QED BY <2>1, <3>1, <3>2
  <2>4. link' = link \/ link' = [link EXCEPT ![req[r].by] = NoToken]
    BY <2>1 DEF Refuse
  <2>5. Shapes'
    BY <1>1, <2>3, <2>4 DEF Shapes, rows, NoToken
  <2>6. Grows
    BY <1>1, <2>2 DEF Grows, rows, Shapes
  <2>7. UsersOK'
    <3>1. \A a \in Account : link[a] \in Nat /\ link[a] <= starts
      BY <1>1 DEF Inv, UsersOK, Shapes
    <3>2. \A a \in Account : link'[a] <= starts
      BY <1>1, <2>4, <3>1 DEF Shapes, NoToken
    <3> QED BY <1>1, <2>2, <3>2 DEF Inv, UsersOK, rows
  <2>8. CodesOK' /\ SessionsOK'
    BY <1>1 DEF Inv, CodesOK, SessionsOK, rows
  <2> QED BY <2>3, <2>5, <2>6, <2>7, <2>8, OthersKept DEF Inv
<1> QED BY <1>2, <1>3

LEMMA CreateUserKeeps ==
  ASSUME Inv, NEW r \in Request, createUser(r)
  PROVE  Inv'
<1>1. /\ req[r] \in AskRequest /\ req[r].by \in Account /\ req[r].phone \in Phone
      /\ Shapes /\ RequestOK(r)
      /\ UNCHANGED <<otps, sessions, tokens, starts, people>>
  BY Kinds DEF createUser, Inv, AskRequest
<1>2. CASE End(r) /\ UNCHANGED users
  BY <1>1, <1>2, Ends, NothingToSay, OnlyRequest DEF rows
<1>3. CASE /\ users[req[r].phone] = NoAccount /\ ~IsUser(req[r].by)
           /\ Goto(r, "invalidate") /\ users' = [users EXCEPT ![req[r].phone] = req[r].by]
  <2>1. /\ req' \in [Request -> AnyRequest] /\ req'[r] \in AskRequest
        /\ \A q \in Request \ {r} : req'[q] = req[q]
        /\ req'[r].at = "invalidate" /\ req'[r].phone = req[r].phone
        /\ req'[r].token = req[r].token
    BY <1>1, <1>3, Goes
  <2>2. \A p \in Phone : users'[p] = IF p = req[r].phone THEN req[r].by ELSE users[p]
    BY <1>1, <1>3 DEF Shapes
  <2>3. Shapes'
    BY <1>1, <1>3, <2>1 DEF Shapes, people
  <2>4. Grows
    BY <1>1, <1>3, <2>2 DEF Grows, Shapes, people
  <2>5. UsersOK'
    BY <1>1, <1>3, <2>2 DEF Inv, UsersOK, IsUser, people
  <2>6. RequestOK(r)'
    <3>1. users'[req'[r].phone] # NoAccount
      BY <1>1, <2>1, <2>2, AccountsAssumption
    <3> QED BY <1>1, <2>1, <3>1, AskOK
  <2>7. CodesOK' /\ SessionsOK'
    BY <1>1, <2>3, <2>4, CodesKept, SessionsKept DEF Inv, CodesOK, people
  <2> QED BY <2>1, <2>3, <2>4, <2>5, <2>6, <2>7, OthersKept DEF Inv
<1> QED BY <1>2, <1>3 DEF createUser

\* A change of codes that keeps their number and phones, and unuses none.
LEMMA CodesMarked ==
  ASSUME Inv, UNCHANGED <<users, sessions, tokens, starts, people>>,
         otps' \in Seq(Otp), DOMAIN otps' = DOMAIN otps,
         \A i \in DOMAIN otps :
           otps'[i].phone = otps[i].phone /\ (otps[i].used => otps'[i].used)
  PROVE  /\ Grows
         /\ req' \in [Request -> AnyRequest] => Shapes'
         /\ UsersOK' /\ CodesOK' /\ (Shapes' => SessionsOK')
<1>1. Grows
  BY DEF Grows, people, Inv, Shapes
<1>2. req' \in [Request -> AnyRequest] => Shapes'
  BY DEF Inv, Shapes, people
<1>3. UsersOK'
  BY DEF Inv, UsersOK, people
<1>4. CodesOK'
  BY <1>1, CodesKept DEF Inv, CodesOK, people
<1>5. Shapes' => SessionsOK'
  BY <1>1, SessionsKept
<1> QED BY <1>1, <1>2, <1>3, <1>4, <1>5

LEMMA InvalidateKeeps ==
  ASSUME Inv, NEW r \in Request, invalidateOtpsForPhone(r)
  PROVE  Inv'
<1>1. /\ req[r] \in AskRequest /\ Shapes /\ RequestOK(r) /\ req[r].at = "invalidate"
      /\ UNCHANGED <<users, sessions, tokens, starts, people>> /\ Goto(r, "createOtp")
  BY Kinds DEF invalidateOtpsForPhone, Inv
<1>2. /\ req' \in [Request -> AnyRequest] /\ req'[r] \in AskRequest
      /\ \A q \in Request \ {r} : req'[q] = req[q]
      /\ req'[r].at = "createOtp" /\ req'[r].phone = req[r].phone
      /\ req'[r].token = req[r].token
  BY <1>1, Goes
<1>3. otps' = [i \in 1 .. Len(otps) |->
                 IF otps[i].phone = req[r].phone THEN [otps[i] EXCEPT !.used = TRUE]
                 ELSE otps[i]]
  BY <1>1, Rows DEF invalidateOtpsForPhone
<1>4. \A i \in 1 .. Len(otps) : /\ otps'[i] \in Otp /\ otps'[i].phone = otps[i].phone
                                /\ (otps[i].used => otps'[i].used)
  BY <1>1, <1>3, Rows DEF Otp
<1>5. otps' \in Seq(Otp) /\ DOMAIN otps' = DOMAIN otps
  <2>1. otps' \in [1 .. Len(otps) -> Otp]
    BY <1>3, <1>4
  <2> QED BY <1>1, <2>1, Rows, SeqDef
<1>6. Grows /\ Shapes' /\ UsersOK' /\ CodesOK' /\ SessionsOK'
  BY <1>1, <1>2, <1>4, <1>5, CodesMarked, Rows
<1>7. RequestOK(r)'
  <2>1. users'[req'[r].phone] # NoAccount
    BY <1>1, <1>2 DEF RequestOK
  <2> QED BY <1>1, <1>2, <2>1, AskOK
<1> QED BY <1>2, <1>6, <1>7, OthersKept DEF Inv

LEMMA CreateOtpKeeps ==
  ASSUME Inv, NEW r \in Request, createOtp(r)
  PROVE  Inv'
<1> DEFINE code == [phone |-> req[r].phone, used |-> FALSE, old |-> FALSE, attempts |-> 0]
           new == [op |-> "ask", by |-> req[r].by, phone |-> req[r].phone,
                   code |-> Len(otps'), at |-> "send"]
<1>1. /\ req[r] \in AskRequest /\ req[r].phone \in Phone /\ req[r].by \in Account
      /\ Shapes /\ users[req[r].phone] # NoAccount
      /\ UNCHANGED <<users, sessions, tokens, starts, people>>
  BY Kinds DEF createOtp, Inv, RequestOK, AskRequest
<1>2. /\ otps' = Append(otps, code) /\ code \in Otp /\ code.phone = req[r].phone
      /\ req' = [req EXCEPT ![r] = new]
  BY <1>1 DEF createOtp, Otp, Shapes
<1> HIDE DEF code
<1>3. /\ otps' \in Seq(Otp) /\ Len(otps') = Len(otps) + 1 /\ Len(otps) \in Nat
      /\ DOMAIN otps = 1 .. Len(otps) /\ DOMAIN otps' = 1 .. Len(otps) + 1
      /\ \A i \in DOMAIN otps : otps'[i] = otps[i]
      /\ otps'[Len(otps) + 1] = code
  BY <1>1, <1>2, AppendProperties DEF Shapes
<1>4. /\ new \in SendRequest /\ new \in AnyRequest
      /\ new.code = Len(otps') /\ new.phone = req[r].phone
  BY <1>1, <1>3 DEF SendRequest, AnyRequest
<1> HIDE DEF new
<1>5. /\ req' \in [Request -> AnyRequest] /\ req'[r] = new
      /\ \A q \in Request \ {r} : req'[q] = req[q]
  BY <1>1, <1>2, <1>4, Changes
<1>6. Shapes'
  BY <1>1, <1>3, <1>5 DEF Shapes, people
<1>7. Grows
  BY <1>1, <1>3 DEF Grows, people, Shapes
<1>8. UsersOK'
  BY <1>1 DEF Inv, UsersOK, people
<1>9. CodesOK'
  <2>1. \A i \in DOMAIN otps' : i \in DOMAIN otps \/ users'[otps'[i].phone] # NoAccount
    BY <1>1, <1>2, <1>3
  <2> QED BY <1>1, <1>7, <2>1, CodesKept DEF Inv, CodesOK, people
<1>10. SessionsOK'
  BY <1>1, <1>6, <1>7, SessionsKept
<1>11. RequestOK(r)'
  BY <1>1, <1>2, <1>3, <1>4, <1>5, KindsApart DEF RequestOK
<1> QED BY <1>5, <1>6, <1>7, <1>8, <1>9, <1>10, <1>11, OthersKept DEF Inv

LEMMA SendKeeps ==
  ASSUME Inv, NEW r \in Request, sendCode(r)
  PROVE  Inv'
<1> DEFINE a == users[req[r].phone]
<1>1. /\ req[r] \in SendRequest /\ req[r].phone \in Phone /\ Shapes
      /\ req[r].code \in DOMAIN otps /\ req[r].code \in Nat
      /\ otps[req[r].code].phone = req[r].phone
      /\ a \in Account
      /\ UNCHANGED <<rows, tokens, starts, link, typed>>
  BY Kinds DEF sendCode, Inv, RequestOK, SendRequest, Shapes
<1>2. heard' = [heard EXCEPT ![a] = @ \cup {req[r].code}]
  BY DEF sendCode
<1>3. \A b \in Account : heard'[b] = IF b = a THEN heard[a] \cup {req[r].code} ELSE heard[b]
  BY <1>1, <1>2 DEF Shapes
<1>4. /\ req' \in [Request -> AnyRequest] /\ req'[r] = Idle
      /\ \A q \in Request \ {r} : req'[q] = req[q]
  BY <1>1, Ends DEF sendCode
<1>5. Shapes'
  BY <1>1, <1>2, <1>4 DEF Shapes, rows
<1>6. Grows
  BY <1>1, <1>3 DEF Grows, rows, Shapes
<1>7. UsersOK'
  BY <1>1 DEF Inv, UsersOK, rows
<1>8. CodesOK'
  BY <1>1, <1>3 DEF Inv, CodesOK, rows
<1>9. SessionsOK'
  BY <1>1, <1>5, <1>6, SessionsKept DEF rows
<1> QED BY <1>4, <1>5, <1>6, <1>7, <1>8, <1>9, NothingToSay, OthersKept DEF Inv

\* A nonempty set of positions of a sequence has a last one.
LEMMA LastOf ==
  ASSUME NEW n \in Nat, NEW T \in SUBSET (1 .. n), T # {}
  PROVE  Max(T) \in T /\ \A x \in T : Max(T) >= x
<1> DEFINE after(x) == x + 1 .. n
           F == {after(x) : x \in T}
<1>1. F \subseteq FiniteSubsetsOf(1 .. n) /\ F # {}
  <2>1. \A x \in T : after(x) \subseteq 1 .. n
    OBVIOUS
  <2>2. IsFiniteSet(1 .. n)
    BY FS_Interval
  <2> HIDE DEF after
  <2>3. \A x \in T : after(x) \in SUBSET (1 .. n) /\ IsFiniteSet(after(x))
    <3> SUFFICES ASSUME NEW x \in T PROVE after(x) \subseteq 1 .. n /\ IsFiniteSet(after(x))
      OBVIOUS
    <3>1. after(x) \subseteq 1 .. n
      BY <2>1
    <3> QED BY <3>1, <2>2, FS_Subset
  <2> QED BY <2>3 DEF FiniteSubsetsOf
<1>2. PICK D \in F : \A E \in F : ~ (<<E, D>> \in StrictSubsetOrdering(1 .. n))
  <2>1. IsWellFoundedOn(StrictSubsetOrdering(1 .. n), FiniteSubsetsOf(1 .. n))
    BY FS_StrictSubsetOrderingWellFounded
  <2> HIDE DEF F
  <2> QED BY <1>1, <2>1, WFMin
<1>3. PICK x \in T : D = after(x)
  BY <1>2
<1>4. \A y \in T : x >= y
  <2> SUFFICES ASSUME NEW y \in T, y > x PROVE FALSE
    OBVIOUS
  <2>1. after(y) \subseteq after(x) /\ y \in after(x) /\ y \notin after(y)
        /\ after(y) \subseteq 1 .. n /\ after(x) \subseteq 1 .. n
    OBVIOUS
  <2> QED BY <1>2, <1>3, <2>1 DEF StrictSubsetOrdering
<1> QED BY <1>4 DEF Max

LEMMA FindOtpKeeps ==
  ASSUME Inv, NEW r \in Request, findActiveOtp(r)
  PROVE  Inv'
<1> DEFINE active == Active(req[r].phone)
<1>1. /\ req[r] \in VerifyRequest /\ Shapes /\ RequestOK(r)
      /\ UNCHANGED <<rows, tokens, starts, people>>
  BY Kinds DEF findActiveOtp, Inv
<1>2. CASE End(r)
  BY <1>1, <1>2, Ends, NothingToSay, OnlyRequest
<1>3. CASE /\ active # {}
           /\ req' = [req EXCEPT ![r].at = "attempt", ![r].otp = Max(active)]
  <2>1. Max(active) \in active /\ Max(active) \in Nat
    <3>1. active \in SUBSET (1 .. Len(otps)) /\ Len(otps) \in Nat
      BY <1>1, Rows DEF Active
    <3> HIDE DEF active
    <3> QED BY <1>3, <3>1, LastOf
  <2> DEFINE new == [req[r] EXCEPT !.at = "attempt", !.otp = Max(active)]
  <2>2. Max(active) \in DOMAIN otps /\ otps[Max(active)].phone = req[r].phone
    BY <2>1 DEF Active
  <2> HIDE DEF active
  <2>3. /\ new \in VerifyRequest /\ new.at = "attempt" /\ new.otp = Max(active)
        /\ new.phone = req[r].phone /\ new.code = req[r].code /\ new.by = req[r].by
    BY <1>1, <2>1 DEF VerifyRequest
  <2>4. req' = [req EXCEPT ![r] = new]
    BY <1>1, <1>3 DEF Shapes
  <2> HIDE DEF new
  <2>5. /\ req' \in [Request -> AnyRequest] /\ req'[r] = new
        /\ \A q \in Request \ {r} : req'[q] = req[q]
    BY <1>1, <2>3, <2>4, Changes DEF AnyRequest
  <2>6. RequestOK(r)'
    BY <1>1, <2>2, <2>3, <2>5, KindsApart DEF RequestOK, rows, people
  <2> QED BY <1>1, <2>5, <2>6, OnlyRequest
<1> QED BY <1>2, <1>3 DEF findActiveOtp

\* A verification that stays one, at another stage.
LEMMA VerifyOK ==
  ASSUME Inv, NEW r \in Request, req[r] \in VerifyRequest, req'[r] \in VerifyRequest,
         Grows, UNCHANGED heard,
         req'[r].phone = req[r].phone, req'[r].code = req[r].code,
         req'[r].otp = req[r].otp, req'[r].by = req[r].by,
         req[r].at # "active", req'[r].at # "active",
         req'[r].at \in {"use", "session"} => req[r].otp = req[r].code,
         req'[r].at = "session" => otps'[req[r].otp].used
  PROVE  RequestOK(r)'
<1>1. /\ req[r].otp \in DOMAIN otps /\ otps[req[r].otp].phone = req[r].phone
      /\ req[r].code \in heard[req[r].by] \cup {Wrong}
  BY DEF Inv, RequestOK
<1> QED BY <1>1, KindsApart DEF RequestOK, Grows

LEMMA AttemptKeeps ==
  ASSUME Inv, NEW r \in Request, incrementAttempts(r) \/ markUsed(r)
  PROVE  Inv'
<1>1. /\ req[r] \in VerifyRequest /\ req[r].at \in {"attempt", "use"} /\ Shapes
      /\ req[r].otp \in DOMAIN otps
      /\ req[r].at = "use" => req[r].otp = req[r].code
      /\ UNCHANGED <<users, sessions, tokens, starts, people>>
  BY Kinds DEF incrementAttempts, markUsed, Inv, RequestOK
<1>2. \E code \in Otp : /\ code.phone = otps[req[r].otp].phone
                        /\ otps[req[r].otp].used => code.used
                        /\ markUsed(r) => code.used
                        /\ otps' = [otps EXCEPT ![req[r].otp] = code]
  <2> DEFINE row == otps[req[r].otp]
  <2>0. row \in Otp
    BY <1>1, Rows
  <2>1. CASE incrementAttempts(r)
    <3> DEFINE code == [row EXCEPT !.attempts = @ + 1]
    <3>1. /\ code \in Otp /\ code.phone = row.phone /\ code.used = row.used
      BY <2>0 DEF Otp
    <3>2. otps' = [otps EXCEPT ![req[r].otp] = code]
      BY <2>1 DEF incrementAttempts
    <3>3. ~markUsed(r)
      BY <2>1 DEF incrementAttempts, markUsed, At
    <3> QED BY <3>1, <3>2, <3>3
  <2>2. CASE markUsed(r)
    <3> DEFINE code == [row EXCEPT !.used = TRUE]
    <3>1. /\ code \in Otp /\ code.phone = row.phone /\ code.used
      BY <2>0 DEF Otp
    <3>2. otps' = [otps EXCEPT ![req[r].otp] = code]
      BY <2>2 DEF markUsed
    <3> QED BY <3>1, <3>2
  <2> QED BY <2>1, <2>2
<1>3. PICK code \in Otp : /\ code.phone = otps[req[r].otp].phone
                          /\ otps[req[r].otp].used => code.used
                          /\ markUsed(r) => code.used
                          /\ otps' = [otps EXCEPT ![req[r].otp] = code]
  BY <1>2
<1>4. /\ otps' \in Seq(Otp) /\ DOMAIN otps' = DOMAIN otps
      /\ \A i \in DOMAIN otps : otps'[i] = IF i = req[r].otp THEN code ELSE otps[i]
  <2>1. req[r].otp \in 1 .. Len(otps) /\ otps \in Seq(Otp)
    BY <1>1, Rows DEF Shapes
  <2>2. otps' \in Seq(Otp)
    BY <1>3, <2>1, ExceptSeq
  <2>3. DOMAIN otps' = DOMAIN otps
    BY <1>3
  <2> QED BY <1>1, <1>3, <2>2, <2>3
<1>5. \A i \in DOMAIN otps : /\ otps'[i].phone = otps[i].phone
                             /\ otps[i].used => otps'[i].used
  <2> SUFFICES ASSUME NEW i \in DOMAIN otps
               PROVE  otps'[i].phone = otps[i].phone /\ (otps[i].used => otps'[i].used)
    OBVIOUS
  <2>1. CASE i = req[r].otp
    <3>1. otps'[i] = code
      BY <1>4, <2>1
    <3> QED BY <1>3, <2>1, <3>1
  <2>2. CASE i # req[r].otp
    <3>1. otps'[i] = otps[i]
      BY <1>4, <2>2
    <3> QED BY <3>1
  <2> QED BY <2>1, <2>2
<1>6. /\ req' \in [Request -> AnyRequest] /\ \A q \in Request \ {r} : req'[q] = req[q]
      /\ \/ req'[r] = Idle
         \/ /\ req'[r] \in VerifyRequest /\ req'[r].phone = req[r].phone
            /\ req'[r].code = req[r].code /\ req'[r].otp = req[r].otp
            /\ req'[r].by = req[r].by /\ req'[r].at \in {"use", "session"}
            /\ req[r].otp = req[r].code
            /\ req'[r].at = "session" => markUsed(r)
  <2>1. CASE incrementAttempts(r)
    <3>1. CASE End(r)
      BY <1>1, <3>1, Ends
    <3>2. CASE Goto(r, "use") /\ req[r].otp = req[r].code
      <4>1. /\ req' \in [Request -> AnyRequest] /\ \A q \in Request \ {r} : req'[q] = req[q]
            /\ req'[r] \in VerifyRequest /\ req'[r].phone = req[r].phone
            /\ req'[r].code = req[r].code /\ req'[r].otp = req[r].otp
            /\ req'[r].by = req[r].by /\ req'[r].at = "use"
        BY <1>1, <3>2, Goes
      <4> QED BY <3>2, <4>1
    <3> QED BY <2>1, <3>1, <3>2 DEF incrementAttempts
  <2>2. CASE markUsed(r)
    <3>1. req[r].at = "use"
      BY <2>2 DEF markUsed, At
    <3> QED BY <1>1, <2>2, <3>1, Goes DEF markUsed
  <2> QED BY <2>1, <2>2
<1>7. Grows /\ Shapes' /\ UsersOK' /\ CodesOK' /\ SessionsOK'
  BY <1>1, <1>4, <1>5, <1>6, CodesMarked
<1>8. RequestOK(r)'
  <2>1. CASE req'[r] = Idle
    BY <2>1, NothingToSay
  <2>2. CASE req'[r] # Idle
    <3>1. ASSUME req'[r].at = "session" PROVE otps'[req[r].otp].used
      <4>1. markUsed(r)
        BY <1>6, <2>2, <3>1
      <4>2. otps'[req[r].otp] = code /\ code.used
        BY <1>1, <1>3, <1>4, <4>1
      <4> QED BY <4>2
    <3> QED BY <1>1, <1>6, <1>7, <2>2, <3>1, VerifyOK DEF people
  <2> QED BY <2>1, <2>2
<1> QED BY <1>6, <1>7, <1>8, OthersKept DEF Inv

LEMMA CreateSessionKeeps ==
  ASSUME Inv, NEW r \in Request, createSession(r)
  PROVE  Inv'
<1> DEFINE new == [account |-> users[req[r].phone], code |-> req[r].otp, state |-> "live"]
<1>1. /\ req[r] \in VerifyRequest /\ Shapes /\ req[r].phone \in Phone /\ req[r].by \in Account
      /\ req[r].otp \in DOMAIN otps /\ req[r].otp = req[r].code /\ req[r].otp \in Nat
      /\ otps[req[r].otp].phone = req[r].phone /\ otps[req[r].otp].used
      /\ req[r].code \in heard[req[r].by] \cup {Wrong}
      /\ UNCHANGED <<users, otps, tokens, starts, people>>
  BY Kinds DEF createSession, Inv, RequestOK, VerifyRequest
<1>2. req[r].otp \in heard[req[r].by] /\ users[req[r].phone] = req[r].by
  <2>1. req[r].otp # Wrong
    BY <1>1, Rows DEF Wrong
  <2> QED BY <1>1, <2>1 DEF Inv, CodesOK
<1>3. new \in Session /\ new.account = req[r].by /\ new.code = req[r].otp
  BY <1>1, <1>2 DEF Session
<1>4. sessions' = Append(sessions, new)
  BY DEF createSession
<1> HIDE DEF new
<1>5. /\ sessions' \in Seq(Session) /\ Len(sessions) \in Nat
      /\ DOMAIN sessions = 1 .. Len(sessions) /\ DOMAIN sessions' = 1 .. Len(sessions) + 1
      /\ \A s \in DOMAIN sessions : sessions'[s] = sessions[s]
      /\ sessions'[Len(sessions) + 1] = new
  BY <1>1, <1>3, <1>4, AppendProperties DEF Shapes
<1>6. /\ req' \in [Request -> AnyRequest] /\ req'[r] = Idle
      /\ \A q \in Request \ {r} : req'[q] = req[q]
  BY <1>1, Ends DEF createSession
<1>7. Shapes'
  BY <1>1, <1>5, <1>6 DEF Shapes, people
<1>8. Grows
  BY <1>1, <1>5 DEF Grows, people, Shapes
<1>9. UsersOK' /\ CodesOK'
  BY <1>1 DEF Inv, UsersOK, CodesOK, people
<1>10. SessionsOK'
  <2> SUFFICES ASSUME NEW s \in DOMAIN sessions'
               PROVE  /\ sessions'[s].code \in DOMAIN otps /\ otps[sessions'[s].code].used
                      /\ sessions'[s].code \in heard[sessions'[s].account]
    BY <1>1 DEF SessionsOK, people
  <2>1. CASE s \in DOMAIN sessions
    BY <1>5, <2>1 DEF Inv, SessionsOK
  <2>2. CASE s = Len(sessions) + 1
    BY <1>1, <1>2, <1>3, <1>5, <2>2
  <2> QED BY <1>5, <2>1, <2>2
<1> QED BY <1>6, <1>7, <1>8, <1>9, <1>10, NothingToSay, OthersKept DEF Inv

\* A change of what state sessions are in.
LEMMA SessionChanged ==
  ASSUME Inv, UNCHANGED <<users, otps, starts, people>>, DOMAIN tokens' \subseteq DOMAIN tokens,
         NEW s \in DOMAIN sessions, NEW state \in {"live", "old", "ended"},
         sessions' = [sessions EXCEPT ![s].state = state]
  PROVE  /\ Grows /\ DOMAIN sessions' = DOMAIN sessions /\ sessions' \in Seq(Session)
         /\ UsersOK' /\ CodesOK' /\ SessionsOK'
<1> DEFINE new == [sessions[s] EXCEPT !.state = state]
<1>1. /\ s \in 1 .. Len(sessions) /\ sessions \in Seq(Session) /\ sessions[s] \in Session
      /\ Shapes
  BY Rows DEF Inv, Shapes
<1>2. new \in Session /\ new.account = sessions[s].account /\ new.code = sessions[s].code
  BY <1>1 DEF Session
<1>3. sessions' = [sessions EXCEPT ![s] = new]
  OBVIOUS
<1> HIDE DEF new
<1>4. sessions' \in Seq(Session)
  BY <1>1, <1>2, <1>3, ExceptSeq
<1>5. /\ DOMAIN sessions' = DOMAIN sessions
      /\ \A t \in DOMAIN sessions : sessions'[t] = IF t = s THEN new ELSE sessions[t]
  BY <1>3
<1>6. \A t \in DOMAIN sessions : /\ sessions'[t].account = sessions[t].account
                                 /\ sessions'[t].code = sessions[t].code
  BY <1>2, <1>5
<1>7. Grows
  BY <1>1, <1>5, <1>6 DEF Grows, Shapes, people
<1>8. UsersOK' /\ CodesOK'
  BY DEF Inv, UsersOK, CodesOK, people
<1>9. SessionsOK'
  BY <1>5, <1>6 DEF Inv, SessionsOK, people
<1> QED BY <1>4, <1>5, <1>7, <1>8, <1>9

\* A step that leaves every request as it is.
LEMMA RequestsKept ==
  ASSUME Inv, Shapes', Grows, UNCHANGED req
  PROVE  \A q \in Request : RequestOK(q)'
<1> SUFFICES ASSUME NEW q \in Request PROVE RequestOK(q)'
  OBVIOUS
<1>1. RequestOK(q) /\ starts \in Nat /\ starts' \in Nat
  BY DEF Inv, Shapes
<1>2. /\ req[q] \in AskRequest => req[q].token \in Nat /\ req[q].phone \in Phone
      /\ req[q] \in SendRequest => req[q].phone \in Phone
      /\ req[q] \in VerifyRequest => req[q].by \in Account
  BY DEF AskRequest, SendRequest, VerifyRequest
<1>3. req[q] \in AskRequest =>
       /\ req[q].token <= starts'
       /\ req[q].at = "createUser" => req[q].token \notin DOMAIN tokens'
       /\ req[q].at \in {"invalidate", "createOtp"} => users'[req[q].phone] # NoAccount
  BY <1>1, <1>2 DEF RequestOK, Grows
<1>4. req[q] \in SendRequest =>
       /\ users'[req[q].phone] # NoAccount
       /\ req[q].code \in DOMAIN otps' /\ otps'[req[q].code].phone = req[q].phone
  BY <1>1, <1>2 DEF RequestOK, Grows
<1>5. req[q] \in VerifyRequest =>
       /\ req[q].code \in heard'[req[q].by] \cup {Wrong}
       /\ req[q].at = "active" => req[q].otp = Wrong
       /\ req[q].at # "active" =>
            req[q].otp \in DOMAIN otps' /\ otps'[req[q].otp].phone = req[q].phone
       /\ req[q].at \in {"use", "session"} => req[q].otp = req[q].code
       /\ req[q].at = "session" => otps'[req[q].otp].used
  BY <1>1, <1>2 DEF RequestOK, Grows
<1>6. req[q] \in PageRequest => req[q].session \in DOMAIN sessions'
  BY <1>1 DEF RequestOK, Grows
<1> QED BY <1>3, <1>4, <1>5, <1>6 DEF RequestOK

LEMMA PageKeeps ==
  ASSUME Inv, NEW r \in Request, validateSession(r) \/ refreshSession(r)
  PROVE  Inv'
<1>1. /\ req[r] \in PageRequest /\ Shapes /\ req[r].session \in DOMAIN sessions
      /\ UNCHANGED <<users, otps, tokens, starts, people>>
  BY Kinds DEF validateSession, refreshSession, Inv, RequestOK, rows
<1>2. CASE validateSession(r)
  <2>1. CASE End(r)
    BY <1>1, <1>2, <2>1, Ends, NothingToSay, OnlyRequest DEF validateSession
  <2>2. CASE Goto(r, "refresh")
    <3>1. /\ req' \in [Request -> AnyRequest] /\ req'[r] \in PageRequest
          /\ req'[r].session = req[r].session
          /\ \A q \in Request \ {r} : req'[q] = req[q]
      BY <1>1, <2>2, Goes
    <3>2. RequestOK(r)'
      BY <1>1, <1>2, <3>1, KindsApart DEF RequestOK, validateSession, rows
    <3> QED BY <1>2, <3>1, <3>2, OnlyRequest DEF validateSession
  <2> QED BY <1>2, <2>1, <2>2 DEF validateSession
<1>3. CASE refreshSession(r)
  <2> DEFINE s == req[r].session
             state == IF sessions[s].state = "ended" THEN sessions[s].state ELSE "live"
  <2>1. state \in {"live", "old", "ended"} /\ s \in DOMAIN sessions
    BY <1>1
  <2>2. sessions' = [sessions EXCEPT ![s].state = state]
    BY <1>3 DEF refreshSession
  <2>3. /\ req' \in [Request -> AnyRequest] /\ req'[r] = Idle
        /\ \A q \in Request \ {r} : req'[q] = req[q]
    BY <1>1, <1>3, Ends DEF refreshSession
  <2> HIDE DEF s, state
  <2>4. /\ Grows /\ sessions' \in Seq(Session) /\ UsersOK' /\ CodesOK' /\ SessionsOK'
    BY <1>1, <2>1, <2>2, SessionChanged
  <2>5. Shapes'
    BY <1>1, <2>3, <2>4 DEF Shapes, people
  <2> QED BY <2>3, <2>4, <2>5, NothingToSay, OthersKept DEF Inv
<1> QED BY <1>2, <1>3

LEMMA LogoutKeeps ==
  ASSUME Inv, NEW s \in DOMAIN sessions, logout(s)
  PROVE  Inv'
<1>1. /\ sessions' = [sessions EXCEPT ![s].state = "ended"]
      /\ UNCHANGED <<users, otps, tokens, starts, req, people>>
  BY DEF logout
<1>2. /\ Grows /\ sessions' \in Seq(Session) /\ UsersOK' /\ CodesOK' /\ SessionsOK'
  BY <1>1, SessionChanged
<1>3. Shapes'
  BY <1>1, <1>2 DEF Inv, Shapes, people
<1> QED BY <1>1, <1>2, <1>3, RequestsKept DEF Inv

LEMMA OpenPageKeeps ==
  ASSUME Inv, NEW s \in DOMAIN sessions, NEW r \in Request, openPage(r, s)
  PROVE  Inv'
<1> DEFINE new == [op |-> "page", by |-> sessions[s].account, session |-> s, at |-> "validate"]
<1>1. Shapes /\ sessions[s].account \in Account /\ s \in Nat
  BY Rows DEF Inv
<1>2. new \in PageRequest /\ new \in AnyRequest /\ new.session = s
  BY <1>1 DEF PageRequest, AnyRequest
<1>3. req' = [req EXCEPT ![r] = new] /\ UNCHANGED <<rows, tokens, starts, people>>
  BY DEF openPage, Open
<1> HIDE DEF new
<1>4. /\ req' \in [Request -> AnyRequest] /\ req'[r] = new
      /\ \A q \in Request \ {r} : req'[q] = req[q]
  BY <1>1, <1>2, <1>3, Changes
<1>5. RequestOK(r)'
  BY <1>2, <1>3, <1>4, KindsApart DEF RequestOK, rows
<1> QED BY <1>3, <1>4, <1>5, OnlyRequest

LEMMA ExpireKeeps ==
  ASSUME Inv, Expire
  PROVE  Inv'
<1>1. Shapes /\ UNCHANGED <<users, starts, req, people>>
  BY DEF Inv, Expire
<1>2. CASE \E t \in DOMAIN tokens :
             tokens' = [tokens EXCEPT ![t].old = TRUE] /\ UNCHANGED <<otps, sessions>>
  <2>1. DOMAIN tokens' = DOMAIN tokens /\ UNCHANGED <<otps, sessions>>
    BY <1>2
  <2>2. Shapes' /\ Grows
    BY <1>1, <2>1 DEF Shapes, Grows, people
  <2>3. UsersOK' /\ CodesOK' /\ SessionsOK'
    BY <1>1, <2>1 DEF Inv, UsersOK, CodesOK, SessionsOK, people
  <2> QED BY <1>1, <2>2, <2>3, RequestsKept DEF Inv
<1>3. CASE \E i \in DOMAIN otps :
             otps' = [otps EXCEPT ![i].old = TRUE] /\ UNCHANGED <<tokens, sessions>>
  <2>1. PICK i \in DOMAIN otps :
               otps' = [otps EXCEPT ![i].old = TRUE] /\ UNCHANGED <<tokens, sessions>>
    BY <1>3
  <2> DEFINE code == [otps[i] EXCEPT !.old = TRUE]
  <2>2. otps[i] \in Otp /\ i \in 1 .. Len(otps) /\ otps \in Seq(Otp)
    BY <1>1, Rows DEF Shapes
  <2>3. code \in Otp /\ code.phone = otps[i].phone /\ code.used = otps[i].used
    BY <2>2 DEF Otp
  <2>4. otps' = [otps EXCEPT ![i] = code]
    BY <2>1
  <2> HIDE DEF code
  <2>5. otps' \in Seq(Otp)
    BY <2>2, <2>3, <2>4, ExceptSeq
  <2>6. /\ DOMAIN otps' = DOMAIN otps
        /\ \A j \in DOMAIN otps : otps'[j] = IF j = i THEN code ELSE otps[j]
    BY <2>4
  <2>7. \A j \in DOMAIN otps : otps'[j].phone = otps[j].phone /\ otps'[j].used = otps[j].used
    BY <2>3, <2>6
  <2>8. /\ Grows /\ (req' \in [Request -> AnyRequest] => Shapes')
        /\ UsersOK' /\ CodesOK' /\ (Shapes' => SessionsOK')
    <3>1. \A j \in DOMAIN otps :
            otps'[j].phone = otps[j].phone /\ (otps[j].used => otps'[j].used)
      BY <2>7
    <3> QED BY <1>1, <2>1, <2>5, <2>6, <3>1, CodesMarked
  <2> QED BY <1>1, <2>8, RequestsKept DEF Inv, Shapes
<1>4. CASE \E s \in DOMAIN sessions :
             /\ sessions' = [sessions EXCEPT ![s].state = "old"]
             /\ UNCHANGED <<tokens, otps>>
  <2>1. /\ Grows /\ sessions' \in Seq(Session) /\ UsersOK' /\ CodesOK' /\ SessionsOK'
        /\ UNCHANGED otps
    BY <1>1, <1>4, SessionChanged
  <2>2. Shapes'
    BY <1>1, <2>1 DEF Shapes, people
  <2> QED BY <1>1, <2>1, <2>2, RequestsKept DEF Inv
<1> QED BY <1>2, <1>3, <1>4 DEF Expire

LEMMA RestartKeeps ==
  ASSUME Inv, Restart
  PROVE  Inv'
<1>1. /\ UNCHANGED <<rows, starts, people>> /\ DOMAIN tokens' \subseteq DOMAIN tokens
      /\ req' = [r \in Request |-> Idle] /\ Shapes
  BY DEF Restart, Inv
<1>2. req' \in [Request -> AnyRequest]
  BY <1>1 DEF AnyRequest
<1>3. Shapes'
  BY <1>1, <1>2 DEF Shapes, rows, people
<1>4. UsersOK' /\ CodesOK' /\ SessionsOK'
  BY <1>1 DEF Inv, UsersOK, CodesOK, SessionsOK, rows, people
<1>5. \A r \in Request : RequestOK(r)'
  BY <1>1, NothingToSay
<1> QED BY <1>3, <1>4, <1>5 DEF Inv

LEMMA FailsKeeps ==
  ASSUME Inv, NEW r \in Request, Fails(r)
  PROVE  Inv'
  BY Ends, NothingToSay, OnlyRequest DEF Fails, Inv

LEMMA InvStep == Inv /\ [Next]_vars => Inv'
<1> SUFFICES ASSUME Inv, [Next]_vars PROVE Inv'
  OBVIOUS
<1>1. CASE UNCHANGED vars
  <2>1. UNCHANGED <<users, otps, sessions, tokens, starts, req, link, heard, typed>>
    BY <1>1 DEF vars, rows, people
  <2> QED BY <2>1 DEF Inv, Shapes, UsersOK, CodesOK, SessionsOK, RequestOK
<1>2. CASE \E a \in Trying : Person(a)
  BY <1>2, PersonKeeps
<1>3. CASE \E s \in DOMAIN sessions : logout(s) \/ \E r \in Request : openPage(r, s)
  BY <1>3, LogoutKeeps, OpenPageKeeps
<1>4. ASSUME NEW r \in Request, Handle(r) PROVE Inv'
  BY <1>4, StartKeeps, FindKeeps, CreateUserKeeps, InvalidateKeeps, CreateOtpKeeps,
     SendKeeps, FindOtpKeeps, AttemptKeeps, CreateSessionKeeps, PageKeeps DEF Handle
<1>5. CASE \E r \in Request : Fails(r)
  BY <1>5, FailsKeeps
<1>6. CASE Expire
  BY <1>6, ExpireKeeps
<1>7. CASE Restart
  BY <1>7, RestartKeeps
<1> QED BY <1>1, <1>2, <1>3, <1>4, <1>5, <1>6, <1>7 DEF Next

LEMMA Inductive == Spec => []Inv
  BY InvInit, InvStep, PTL DEF Spec

(***************************************************************************)
(* Theorems                                                                *)
(***************************************************************************)
\* One row for a phone and one phone for an account, codes of registered phones only,
\* and a request relying on nothing that is no longer there.
THEOREM TypeCorrect == Spec => []TypeOK
<1>1. Inv => TypeOK
  <2> SUFFICES ASSUME Inv PROVE TypeOK
    OBVIOUS
  <2>1. \A a \in Account : typed[a] \subseteq heard[a] /\ heard[a] \subseteq DOMAIN otps
    BY DEF Inv, CodesOK
  <2>2. ASSUME NEW r \in Request, req[r] # Idle
        PROVE  /\ req[r].at \in {"attempt", "use", "session"} => req[r].otp \in DOMAIN otps
               /\ req[r].at = "createUser" => req[r].token \notin DOMAIN tokens
    <3>1. At(r, req[r].at) /\ Shapes /\ RequestOK(r)
      BY <2>2 DEF At, Inv
    <3> QED BY <3>1, Kinds DEF RequestOK
  <2> QED BY <2>1, <2>2 DEF Inv, Shapes, UsersOK, CodesOK, TypeOK
<1> QED BY <1>1, Inductive, PTL

\* A session is of the account that got the code: the row the verification found is of
\* the phone typed, whose account cannot change, and only its chat was sent that code.
THEOREM SessionsMatch == Spec => []SessionsMatchCodes
<1>1. Inv => SessionsMatchCodes
  <2> SUFFICES ASSUME Inv, NEW s \in DOMAIN sessions
               PROVE  /\ users[otps[sessions[s].code].phone] = sessions[s].account
                      /\ sessions[s].code \in heard[sessions[s].account]
    BY DEF SessionsMatchCodes
  <2>1. sessions[s].account \in Account
    BY Rows DEF Inv
  <2> QED BY <2>1 DEF Inv, SessionsOK, CodesOK
<1> QED BY <1>1, Inductive, PTL

\* A session once ended stays ended, whatever requests it let in are still at.
THEOREM LogoutIsFinal == Spec => LoggedOutStaysOut
<1>1. Inv /\ [Next]_vars =>
        [\A s \in DOMAIN sessions :
           sessions[s].state = "ended" => sessions'[s].state = "ended"]_vars
  <2> SUFFICES ASSUME Inv, Next, NEW s \in DOMAIN sessions, sessions[s].state = "ended"
               PROVE  sessions'[s].state = "ended"
    OBVIOUS
  <2>1. CASE UNCHANGED sessions
    BY <2>1
  <2>2. CASE \E t \in DOMAIN sessions : logout(t)
    BY <2>2 DEF logout
  <2>3. CASE \E r \in Request : createSession(r)
    <3>1. PICK new : sessions' = Append(sessions, new)
      BY <2>3 DEF createSession
    <3>2. sessions \in Seq(Session) /\ s \in 1 .. Len(sessions) /\ Len(sessions) \in Nat
      BY Rows DEF Inv, Shapes
    <3>3. sessions'[s] = sessions[s]
      BY <3>1, <3>2
    <3> QED BY <3>3
  <2>4. CASE \E r \in Request : refreshSession(r)
    BY <2>4 DEF refreshSession
  <2>5. CASE Expire
    BY <2>5 DEF Expire
  <2> QED BY <2>1, <2>2, <2>3, <2>4, <2>5
          DEF Next, Person, Handle, Start, submitPhone, verifyOtp, openPage, handleStart,
              create, findByPhone, createUser, invalidateOtpsForPhone, createOtp, sendCode,
              findActiveOtp, incrementAttempts, markUsed, validateSession, Fails, Restart, rows
<1> QED BY <1>1, Inductive, PTL DEF LoggedOutStaysOut, Spec
=============================================================================
