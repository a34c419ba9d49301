---------------------------- MODULE AccountsCounts ----------------------------
(***************************************************************************)
(* How far requests handled at the same time pass what the code allows one *)
(* at a time.  Each bound counts, beside what is in a table, the requests   *)
(* that have read it and are about to write: a request joins them only when *)
(* what it read is below the maximum, and writing moves it from one count   *)
(* to the other.                                                            *)
(***************************************************************************)
EXTENDS AccountsProofs

Attempting(i) == {r \in Request : At(r, "attempt") /\ req[r].otp = i}
Opening(i) == {r \in Request : req[r].op = "verify" /\ req[r].otp = i}
Opened(i) == {s \in DOMAIN sessions : sessions[s].code = i}
Creating(p) == {r \in Request : At(r, "createOtp") /\ req[r].phone = p}

AttemptsInv ==
  \A i \in DOMAIN otps :
    otps[i].attempts + Cardinality(Attempting(i)) <= MaxAttempts + Others

UsesInv ==
  \A i \in DOMAIN otps : Cardinality(Opened(i)) + Cardinality(Opening(i)) <= 1 + Others

CodesInv ==
  \A p \in Phone : Cardinality(Active(p)) + Cardinality(Creating(p)) <= 1 + Others

(***************************************************************************)
(* Cardinalities                                                           *)
(***************************************************************************)
LEMMA SomeOf ==
  ASSUME NEW T \in SUBSET Request
  PROVE  /\ IsFiniteSet(T) /\ Cardinality(T) \in Nat /\ Cardinality(T) <= 1 + Others
         /\ Others \in Int
<1>1. IsFiniteSet(Request) /\ Cardinality(Request) \in Nat
  BY AccountsAssumption, FS_CardinalityType
<1>2. IsFiniteSet(T) /\ Cardinality(T) <= Cardinality(Request) /\ Cardinality(T) \in Nat
  BY <1>1, FS_Subset, FS_CardinalityType
<1> QED BY <1>1, <1>2 DEF Others

LEMMA AllButOne ==
  ASSUME NEW T \in SUBSET Request, NEW r \in Request, r \notin T
  PROVE  Cardinality(T) <= Others
<1>1. IsFiniteSet(T) /\ Cardinality(T \cup {r}) = Cardinality(T) + 1
  BY SomeOf, FS_AddElement
<1>2. Cardinality(T \cup {r}) <= 1 + Others
  <2> DEFINE U == T \cup {r}
  <2>1. U \in SUBSET Request
    OBVIOUS
  <2> HIDE DEF U
  <2>2. Cardinality(U) <= 1 + Others
    BY <2>1, SomeOf
  <2> QED BY <2>2 DEF U
<1> QED BY <1>1, <1>2, SomeOf

LEMMA Fewer ==
  ASSUME NEW T, IsFiniteSet(T), NEW U \in SUBSET T
  PROVE  IsFiniteSet(U) /\ Cardinality(U) <= Cardinality(T)
         /\ Cardinality(U) \in Nat /\ Cardinality(T) \in Nat
  BY FS_Subset, FS_CardinalityType

LEMMA OneLess ==
  ASSUME NEW T, IsFiniteSet(T), NEW x \in T, NEW U \in SUBSET (T \ {x})
  PROVE  Cardinality(U) <= Cardinality(T) - 1
<1>1. IsFiniteSet(T \ {x}) /\ Cardinality(T \ {x}) = Cardinality(T) - 1
  BY FS_RemoveElement
<1> DEFINE V == T \ {x}
<1> HIDE DEF V
<1>2. IsFiniteSet(V) /\ U \in SUBSET V /\ Cardinality(V) = Cardinality(T) - 1
  BY <1>1 DEF V
<1>3. Cardinality(U) <= Cardinality(V)
  BY <1>2, Fewer
<1> QED BY <1>2, <1>3

LEMMA OneMore ==
  ASSUME NEW T, IsFiniteSet(T), NEW x, NEW U \in SUBSET (T \cup {x})
  PROVE  Cardinality(U) <= Cardinality(T) + 1 /\ IsFiniteSet(U)
<1>1. /\ IsFiniteSet(T \cup {x}) /\ Cardinality(T \cup {x}) <= Cardinality(T) + 1
      /\ Cardinality(T) \in Nat
  BY FS_AddElement, FS_CardinalityType
<1> DEFINE V == T \cup {x}
<1> HIDE DEF V
<1>2. IsFiniteSet(V) /\ U \in SUBSET V /\ Cardinality(V) <= Cardinality(T) + 1
  BY <1>1 DEF V
<1>3. IsFiniteSet(U) /\ Cardinality(U) <= Cardinality(V) /\ Cardinality(U) \in Nat
      /\ Cardinality(V) \in Nat
  BY <1>2, Fewer
<1> QED BY <1>1, <1>2, <1>3

\* Rows are as many as their indices.
LEMMA RowsAreFinite ==
  ASSUME Shapes
  PROVE  /\ IsFiniteSet(DOMAIN otps) /\ IsFiniteSet(DOMAIN sessions)
         /\ \A p : IsFiniteSet(Active(p)) /\ Cardinality(Active(p)) \in Nat
         /\ \A i : IsFiniteSet(Opened(i)) /\ Cardinality(Opened(i)) \in Nat
<1>1. IsFiniteSet(DOMAIN otps) /\ IsFiniteSet(DOMAIN sessions)
  BY Rows, FS_Interval
<1>2. \A p : Active(p) \in SUBSET (DOMAIN otps)
  BY DEF Active
<1>3. \A i : Opened(i) \in SUBSET (DOMAIN sessions)
  BY DEF Opened
<1> QED BY <1>1, <1>2, <1>3, Fewer

(***************************************************************************)
(* What steps do to what is counted                                        *)
(***************************************************************************)
\* A request about to write was so before, about the same row.
NoNewWriter(r) ==
  /\ At(r, "attempt")' => At(r, "attempt") /\ req'[r].otp = req[r].otp
  /\ At(r, "createOtp")' => At(r, "createOtp") /\ req'[r].phone = req[r].phone
  /\ req'[r].op = "verify" /\ req'[r].otp # Wrong =>
       req[r].op = "verify" /\ req'[r].otp = req[r].otp

CodesStay ==
  /\ DOMAIN otps' = DOMAIN otps
  /\ \A i \in DOMAIN otps : otps'[i].attempts = otps[i].attempts

FewerActive == \A p \in Phone : Active(p)' \subseteq Active(p)

SessionsStay == \A i : Opened(i)' = Opened(i)

\* A step of anything but the five that write or start to.
Quiet ==
  CodesStay /\ FewerActive /\ SessionsStay /\ \A r \in Request : NoNewWriter(r)

LEMMA SameNoNewWriter ==
  ASSUME NEW r \in Request, req'[r] = req[r]
  PROVE  NoNewWriter(r)
  BY DEF NoNewWriter, At

LEMMA IdleNoNewWriter ==
  ASSUME NEW r \in Request, req'[r] = Idle
  PROVE  NoNewWriter(r)
  BY DEF NoNewWriter, At, Idle

LEMMA RowsStay ==
  UNCHANGED <<otps, sessions>> => CodesStay /\ FewerActive /\ SessionsStay
  BY DEF CodesStay, FewerActive, SessionsStay, Active, Opened

\* A request that goes on as the same kind of request, to a stage where it writes no
\* code, attempt or session it was not about to.
LEMMA GoesOn ==
  ASSUME Shapes, NEW r \in Request, NEW stage, Goto(r, stage),
         \/ req[r] \in StartRequest /\ stage = "token"
         \/ req[r] \in AskRequest /\ stage \in {"createUser", "invalidate"}
         \/ req[r] \in VerifyRequest /\ stage = "session"
         \/ req[r] \in PageRequest /\ stage = "refresh"
  PROVE  \A q \in Request : NoNewWriter(q)
<1>1. req'[r].at = stage /\ \A q \in Request \ {r} : req'[q] = req[q]
  BY Goes
<1>2. req'[r].op = "verify" => req[r].op = "verify" /\ req'[r].otp = req[r].otp
  <2>1. CASE req[r] \in VerifyRequest
    <3>1. stage \in {"active", "attempt", "use", "session"}
      BY <2>1, KindsApart
    <3> QED BY <2>1, <3>1, Goes DEF VerifyRequest
  <2>2. CASE req[r] \in StartRequest
    <3>1. req'[r] \in StartRequest
      BY <2>2, KindsApart, Goes
    <3> QED BY <3>1 DEF StartRequest
  <2>3. CASE req[r] \in AskRequest
    <3>1. req'[r] \in AskRequest
      BY <2>3, KindsApart, Goes
    <3> QED BY <3>1 DEF AskRequest
  <2>4. CASE req[r] \in PageRequest
    <3>1. req'[r] \in PageRequest
      BY <2>4, KindsApart, Goes
    <3> QED BY <3>1 DEF PageRequest
  <2> QED BY <2>1, <2>2, <2>3, <2>4
<1>3. NoNewWriter(r)
  BY <1>1, <1>2 DEF NoNewWriter, At
<1> QED BY <1>1, <1>3, SameNoNewWriter

\* A person's requests read nothing before they are sent.
LEMMA PersonIsQuiet ==
  ASSUME Shapes, NEW a \in Trying, Person(a)
  PROVE  Quiet
<1>1. UNCHANGED rows
  BY DEF Person, Start, submitPhone, verifyOtp
<1>2. \E r \in Request : \E new :
        /\ req' = [req EXCEPT ![r] = new]
        /\ new.at \in {"lookup", "find", "active"}
        /\ new.op = "verify" => new.otp = Wrong
  <2>1. PICK r \in Request : \/ Start(r, a)
                            \/ \E p \in Phone : submitPhone(r, a, p)
                            \/ \E q \in Phone, code \in heard[a] \cup {Wrong} : verifyOtp(r, a, q, code)
    BY DEF Person
  <2>2. CASE Start(r, a)
    <3> DEFINE new == [op |-> "start", by |-> a, at |-> "lookup"]
    <3>1. new.at = "lookup" /\ new.op = "start"
      OBVIOUS
    <3>2. req' = [req EXCEPT ![r] = new]
      BY <2>2 DEF Start, Open
    <3> QED BY <3>1, <3>2
  <2>3. ASSUME NEW p \in Phone, submitPhone(r, a, p)
        PROVE  \E new : /\ req' = [req EXCEPT ![r] = new]
                        /\ new.at \in {"lookup", "find", "active"}
                        /\ new.op = "verify" => new.otp = Wrong
    <3> DEFINE new == [op |-> "ask", by |-> a, phone |-> p, token |-> link[a], at |-> "find"]
    <3>1. new.at = "find" /\ new.op = "ask"
      OBVIOUS
    <3>2. req' = [req EXCEPT ![r] = new]
      BY <2>3 DEF submitPhone, Open
    <3> QED BY <3>1, <3>2
  <2>4. ASSUME NEW p \in Phone, NEW code, verifyOtp(r, a, p, code)
        PROVE  \E new : /\ req' = [req EXCEPT ![r] = new]
                        /\ new.at \in {"lookup", "find", "active"}
                        /\ new.op = "verify" => new.otp = Wrong
    <3> DEFINE new == [op |-> "verify", by |-> a, phone |-> p, code |-> code,
                       otp |-> Wrong, at |-> "active"]
    <3>1. new.at = "active" /\ new.otp = Wrong
      OBVIOUS
    <3>2. req' = [req EXCEPT ![r] = new]
      BY <2>4 DEF verifyOtp, Open
    <3> QED BY <3>1, <3>2
  <2> QED BY <2>1, <2>2, <2>3, <2>4
<1>3. PICK r \in Request : \E new :
        /\ req' = [req EXCEPT ![r] = new]
        /\ new.at \in {"lookup", "find", "active"}
        /\ new.op = "verify" => new.otp = Wrong
  BY <1>2
<1>4. PICK new : /\ req' = [req EXCEPT ![r] = new]
                 /\ new.at \in {"lookup", "find", "active"}
                 /\ new.op = "verify" => new.otp = Wrong
  BY <1>3
<1>5. req'[r] = new /\ \A q \in Request \ {r} : req'[q] = req[q]
  BY <1>4 DEF Shapes
<1>6. NoNewWriter(r)
  BY <1>4, <1>5 DEF NoNewWriter, At
<1> QED BY <1>1, <1>5, <1>6, SameNoNewWriter, RowsStay DEF Quiet, rows

\* Requests that end, or go on without writing what is counted.
LEMMA EndIsQuiet ==
  ASSUME Shapes, NEW r \in Request, End(r)
  PROVE  \A q \in Request : NoNewWriter(q)
  BY Ends, SameNoNewWriter, IdleNoNewWriter

LEMMA HandlersAreQuiet ==
  ASSUME Shapes, NEW r \in Request,
         \/ handleStart(r) \/ create(r) \/ findByPhone(r) \/ createUser(r) \/ sendCode(r)
         \/ (findActiveOtp(r) /\ End(r)) \/ validateSession(r) \/ Fails(r)
  PROVE  Quiet
<1>1. UNCHANGED <<otps, sessions>>
  BY DEF handleStart, create, findByPhone, createUser, sendCode, findActiveOtp,
         validateSession, Fails, rows
<1>2. \A q \in Request : NoNewWriter(q)
  <2>1. CASE End(r)
    BY <2>1, EndIsQuiet
  <2>2. CASE handleStart(r) /\ Goto(r, "token")
    <3>1. req[r] \in StartRequest
      BY <2>2, Kinds DEF handleStart
    <3> QED BY <2>2, <3>1, GoesOn
  <2>3. CASE findByPhone(r) \/ createUser(r)
    <3>1. req[r] \in AskRequest
      BY <2>3, Kinds DEF findByPhone, createUser
    <3>2. End(r) \/ Goto(r, "invalidate") \/ Goto(r, "createUser")
      BY <2>3 DEF findByPhone, createUser, Refuse
    <3> QED BY <2>1, <3>1, <3>2, GoesOn
  <2>4. CASE validateSession(r) /\ Goto(r, "refresh")
    <3>1. req[r] \in PageRequest
      BY <2>4, Kinds DEF validateSession
    <3> QED BY <2>4, <3>1, GoesOn
  <2> QED BY <2>1, <2>2, <2>3, <2>4
          DEF handleStart, create, sendCode, validateSession, Fails
<1> QED BY <1>1, <1>2, RowsStay DEF Quiet

LEMMA MarkUsedIsQuiet ==
  ASSUME Inv, NEW r \in Request, markUsed(r)
  PROVE  Quiet
<1>1. req[r] \in VerifyRequest /\ Shapes /\ req[r].otp \in DOMAIN otps
  BY Kinds DEF markUsed, Inv, RequestOK
<1>2. \A q \in Request : NoNewWriter(q)
  BY <1>1, GoesOn DEF markUsed
<1> DEFINE code == [otps[req[r].otp] EXCEPT !.used = TRUE]
<1>3. /\ code.attempts = otps[req[r].otp].attempts /\ code.phone = otps[req[r].otp].phone
      /\ code.used /\ code.old = otps[req[r].otp].old
  BY <1>1, Rows DEF Otp
<1>4. otps' = [otps EXCEPT ![req[r].otp] = code] /\ UNCHANGED sessions
  BY DEF markUsed
<1> HIDE DEF code
<1>5. /\ DOMAIN otps' = DOMAIN otps
      /\ \A i \in DOMAIN otps : otps'[i] = IF i = req[r].otp THEN code ELSE otps[i]
  BY <1>4
<1>6. CodesStay /\ SessionsStay
  BY <1>3, <1>4, <1>5 DEF CodesStay, SessionsStay, Opened
<1>7. FewerActive
  BY <1>3, <1>5 DEF FewerActive, Active
<1> QED BY <1>2, <1>6, <1>7 DEF Quiet

LEMMA SessionsKeepTheirCodes ==
  ASSUME Shapes, NEW s \in DOMAIN sessions, NEW state,
         sessions' = [sessions EXCEPT ![s].state = state]
  PROVE  SessionsStay
<1> DEFINE new == [sessions[s] EXCEPT !.state = state]
<1>1. new.code = sessions[s].code
  BY Rows DEF Session
<1>2. sessions' = [sessions EXCEPT ![s] = new]
  OBVIOUS
<1> HIDE DEF new
<1>3. /\ DOMAIN sessions' = DOMAIN sessions
      /\ \A t \in DOMAIN sessions : sessions'[t] = IF t = s THEN new ELSE sessions[t]
  BY <1>2
<1>4. \A t \in DOMAIN sessions : sessions'[t].code = sessions[t].code
  BY <1>1, <1>3
<1> QED BY <1>3, <1>4 DEF SessionsStay, Opened

LEMMA CodesOnly ==
  UNCHANGED otps => CodesStay /\ FewerActive
  BY DEF CodesStay, FewerActive, Active

LEMMA SessionStepsAreQuiet ==
  ASSUME Inv,
         \/ \E s \in DOMAIN sessions : logout(s)
         \/ \E r \in Request : refreshSession(r)
  PROVE  Quiet
<1>1. CASE \E s \in DOMAIN sessions : logout(s)
  <2>1. SessionsStay
    BY <1>1, SessionsKeepTheirCodes DEF logout, Inv
  <2> QED BY <1>1, <2>1, CodesOnly, SameNoNewWriter DEF logout, Quiet
<1>2. CASE \E r \in Request : refreshSession(r)
  <2>1. PICK r \in Request : refreshSession(r)
    BY <1>2
  <2>2. req[r].session \in DOMAIN sessions
    BY <2>1, Kinds DEF refreshSession, Inv, RequestOK
  <2>3. SessionsStay
    <3> DEFINE s == req[r].session
               state == IF sessions[s].state = "ended" THEN sessions[s].state ELSE "live"
    <3>1. sessions' = [sessions EXCEPT ![s].state = state]
      BY <2>1 DEF refreshSession
    <3> HIDE DEF s, state
    <3>2. s \in DOMAIN sessions
      BY <2>2 DEF s
    <3> QED BY <3>1, <3>2, SessionsKeepTheirCodes DEF Inv
  <2>4. \A q \in Request : NoNewWriter(q)
    BY <2>1, EndIsQuiet DEF refreshSession, Inv
  <2> QED BY <2>1, <2>3, <2>4, CodesOnly DEF refreshSession, Quiet
<1> QED BY <1>1, <1>2

LEMMA OpenPageIsQuiet ==
  ASSUME Shapes, NEW s \in DOMAIN sessions, NEW r \in Request, openPage(r, s)
  PROVE  Quiet
<1> DEFINE new == [op |-> "page", by |-> sessions[s].account, session |-> s, at |-> "validate"]
<1>1. new.op = "page" /\ new.at = "validate"
  OBVIOUS
<1>2. req' = [req EXCEPT ![r] = new] /\ UNCHANGED rows
  BY DEF openPage, Open
<1> HIDE DEF new
<1>3. req'[r] = new /\ \A q \in Request \ {r} : req'[q] = req[q]
  BY <1>2 DEF Shapes
<1>4. NoNewWriter(r)
  BY <1>1, <1>3 DEF NoNewWriter, At
<1> QED BY <1>2, <1>3, <1>4, SameNoNewWriter, RowsStay DEF Quiet, rows

LEMMA TimeIsQuiet ==
  ASSUME Shapes, Expire \/ Restart
  PROVE  Quiet
<1>1. CASE Restart
  BY <1>1, IdleNoNewWriter, RowsStay DEF Restart, Quiet, rows
<1>2. CASE Expire
  <2>1. \A q \in Request : NoNewWriter(q)
    BY <1>2, SameNoNewWriter DEF Expire
  <2>2. CASE UNCHANGED <<otps, sessions>>
    BY <2>1, <2>2, RowsStay DEF Quiet
  <2>3. CASE \E i \in DOMAIN otps :
               otps' = [otps EXCEPT ![i].old = TRUE] /\ UNCHANGED sessions
    <3>1. PICK i \in DOMAIN otps :
                 otps' = [otps EXCEPT ![i].old = TRUE] /\ UNCHANGED sessions
      BY <2>3
    <3> DEFINE code == [otps[i] EXCEPT !.old = TRUE]
    <3>2. /\ code.attempts = otps[i].attempts /\ code.phone = otps[i].phone
          /\ code.used = otps[i].used /\ code.old
      BY Rows DEF Otp
    <3>3. otps' = [otps EXCEPT ![i] = code]
      BY <3>1
    <3> HIDE DEF code
    <3>4. /\ DOMAIN otps' = DOMAIN otps
          /\ \A j \in DOMAIN otps : otps'[j] = IF j = i THEN code ELSE otps[j]
      BY <3>3
    <3>5. CodesStay /\ FewerActive /\ SessionsStay
      BY <3>1, <3>2, <3>4 DEF CodesStay, FewerActive, SessionsStay, Active, Opened
    <3> QED BY <2>1, <3>5 DEF Quiet
  <2>4. CASE \E s \in DOMAIN sessions :
               sessions' = [sessions EXCEPT ![s].state = "old"] /\ UNCHANGED otps
    BY <2>1, <2>4, SessionsKeepTheirCodes, CodesOnly DEF Quiet
  <2> QED BY <1>2, <2>2, <2>3, <2>4 DEF Expire
<1> QED BY <1>1, <1>2

\* Every step is quiet, or one of the five.
LEMMA QuietOrCounted ==
  ASSUME Inv, [Next]_vars
  PROVE  \/ Quiet
         \/ \E r \in Request :
              \/ invalidateOtpsForPhone(r) \/ createOtp(r)
              \/ (findActiveOtp(r) /\ ~ End(r)) \/ incrementAttempts(r) \/ createSession(r)
<1>0. Shapes
  BY DEF Inv
<1>1. CASE UNCHANGED vars
  <2>1. UNCHANGED <<otps, sessions, req>>
    BY <1>1 DEF vars, rows
  <2> QED BY <2>1, SameNoNewWriter, RowsStay DEF Quiet
<1>2. CASE \E a \in Trying : Person(a)
  BY <1>0, <1>2, PersonIsQuiet
<1>3. CASE \E s \in DOMAIN sessions : logout(s) \/ \E r \in Request : openPage(r, s)
  BY <1>0, <1>3, SessionStepsAreQuiet, OpenPageIsQuiet
<1>4. CASE \E r \in Request : Handle(r) \/ Fails(r)
  BY <1>0, <1>4, HandlersAreQuiet, MarkUsedIsQuiet, SessionStepsAreQuiet DEF Handle
<1>5. CASE Expire \/ Restart
  BY <1>0, <1>5, TimeIsQuiet
<1> QED BY <1>1, <1>2, <1>3, <1>4, <1>5 DEF Next

(***************************************************************************)
(* The counts                                                              *)
(***************************************************************************)
Counts == AttemptsInv /\ UsesInv /\ CodesInv

LEMMA FewerWriters ==
  ASSUME NEW T \in SUBSET Request, \A q \in T : NoNewWriter(q)
  PROVE  /\ \A i : Attempting(i)' \cap T \subseteq Attempting(i)
         /\ \A p : Creating(p)' \cap T \subseteq Creating(p)
         /\ \A i : i # Wrong => Opening(i)' \cap T \subseteq Opening(i)
  BY DEF NoNewWriter, Attempting, Creating, Opening

LEMMA Writers ==
  /\ \A i : Attempting(i) \in SUBSET Request /\ Attempting(i)' \in SUBSET Request
  /\ \A p : Creating(p) \in SUBSET Request /\ Creating(p)' \in SUBSET Request
  /\ \A i : Opening(i) \in SUBSET Request /\ Opening(i)' \in SUBSET Request
  BY DEF Attempting, Creating, Opening

LEMMA SmallerCount ==
  ASSUME NEW T \in SUBSET Request, NEW U \in SUBSET T
  PROVE  Cardinality(U) <= Cardinality(T) /\ Cardinality(U) \in Nat /\ Cardinality(T) \in Nat
<1>1. IsFiniteSet(T)
  BY SomeOf
<1> QED BY <1>1, Fewer

\* The parts a step leaves alone.
LEMMA AttemptsKept ==
  ASSUME Inv, AttemptsInv, CodesStay, \A i : Attempting(i)' \subseteq Attempting(i)
  PROVE  AttemptsInv'
<1> SUFFICES ASSUME NEW i \in DOMAIN otps
             PROVE  otps[i].attempts + Cardinality(Attempting(i)') <= MaxAttempts + Others
  BY DEF AttemptsInv, CodesStay, Others
<1>1. Cardinality(Attempting(i)') <= Cardinality(Attempting(i))
      /\ Cardinality(Attempting(i)') \in Nat /\ Cardinality(Attempting(i)) \in Nat
  BY Writers, SmallerCount
<1>2. /\ otps[i].attempts + Cardinality(Attempting(i)) <= MaxAttempts + Others
      /\ otps[i].attempts \in Nat /\ Others \in Int /\ MaxAttempts \in Nat
  BY Rows, SomeOf, AccountsAssumption DEF AttemptsInv, Inv
<1> QED BY <1>1, <1>2

LEMMA UsesKept ==
  ASSUME Inv, UsesInv, DOMAIN otps' = DOMAIN otps, SessionsStay,
         \A i : i # Wrong => Opening(i)' \subseteq Opening(i)
  PROVE  UsesInv'
<1> SUFFICES ASSUME NEW i \in DOMAIN otps
             PROVE  Cardinality(Opened(i)) + Cardinality(Opening(i)') <= 1 + Others
  BY DEF UsesInv, SessionsStay, Others
<1>0. i # Wrong
  BY Rows DEF Inv, Wrong
<1>1. Cardinality(Opening(i)') <= Cardinality(Opening(i))
      /\ Cardinality(Opening(i)') \in Nat /\ Cardinality(Opening(i)) \in Nat
  BY <1>0, Writers, SmallerCount
<1>2. /\ Cardinality(Opened(i)) + Cardinality(Opening(i)) <= 1 + Others
      /\ Cardinality(Opened(i)) \in Nat /\ Others \in Int
  BY RowsAreFinite, SomeOf DEF UsesInv, Inv
<1> QED BY <1>1, <1>2

LEMMA ActiveKept ==
  ASSUME Inv, CodesInv, NEW p \in Phone, Active(p)' \subseteq Active(p),
         Creating(p)' \subseteq Creating(p)
  PROVE  Cardinality(Active(p)') + Cardinality(Creating(p)') <= 1 + Others
<1>1. Cardinality(Creating(p)') <= Cardinality(Creating(p))
      /\ Cardinality(Creating(p)') \in Nat /\ Cardinality(Creating(p)) \in Nat
  BY Writers, SmallerCount
<1>2. Cardinality(Active(p)') <= Cardinality(Active(p))
      /\ Cardinality(Active(p)') \in Nat /\ Cardinality(Active(p)) \in Nat
  BY RowsAreFinite, Fewer DEF Inv
<1>3. Cardinality(Active(p)) + Cardinality(Creating(p)) <= 1 + Others /\ Others \in Int
  BY SomeOf DEF CodesInv
<1> QED BY <1>1, <1>2, <1>3

LEMMA CodesInvIf ==
  ASSUME \A p \in Phone : Cardinality(Active(p)') + Cardinality(Creating(p)') <= 1 + Others
  PROVE  CodesInv'
  BY DEF CodesInv, Others

LEMMA QuietCounts ==
  ASSUME Inv, Counts, Quiet
  PROVE  Counts'
<1>1. /\ \A i : Attempting(i)' \subseteq Attempting(i)
      /\ \A p : Creating(p)' \subseteq Creating(p)
      /\ \A i : i # Wrong => Opening(i)' \subseteq Opening(i)
  <2> DEFINE T == Request
  <2>1. T \in SUBSET Request /\ \A q \in T : NoNewWriter(q)
    BY DEF Quiet
  <2>2. /\ \A i : Attempting(i)' \cap T \subseteq Attempting(i)
        /\ \A p : Creating(p)' \cap T \subseteq Creating(p)
        /\ \A i : i # Wrong => Opening(i)' \cap T \subseteq Opening(i)
    BY <2>1, FewerWriters
  <2> QED BY <2>2, Writers
<1>2. AttemptsInv'
  BY <1>1, AttemptsKept DEF Quiet, Counts
<1>3. UsesInv'
  BY <1>1, UsesKept DEF Quiet, Counts, CodesStay
<1>4. CodesInv'
  BY <1>1, ActiveKept, CodesInvIf DEF Quiet, Counts, FewerActive
<1> QED BY <1>2, <1>3, <1>4 DEF Counts

\* The requests but one.
LEMMA OthersWrite ==
  ASSUME NEW r \in Request, \A q \in Request \ {r} : req'[q] = req[q]
  PROVE  /\ \A i : Attempting(i)' \subseteq Attempting(i) \cup {r}
         /\ \A p : Creating(p)' \subseteq Creating(p) \cup {r}
         /\ \A i : i # Wrong => Opening(i)' \subseteq Opening(i) \cup {r}
<1> DEFINE T == Request \ {r}
<1>1. T \in SUBSET Request /\ \A q \in T : NoNewWriter(q)
  BY SameNoNewWriter
<1>2. /\ \A i : Attempting(i)' \cap T \subseteq Attempting(i)
      /\ \A p : Creating(p)' \cap T \subseteq Creating(p)
      /\ \A i : i # Wrong => Opening(i)' \cap T \subseteq Opening(i)
  BY <1>1, FewerWriters
<1> QED BY <1>2, Writers

\* A code invalidated is active no more; a request for one more may then insert it.
LEMMA InvalidateCounts ==
  ASSUME Inv, Counts, NEW r \in Request, invalidateOtpsForPhone(r)
  PROVE  Counts'
<1> DEFINE p == req[r].phone
<1>1. /\ req[r] \in AskRequest /\ Shapes /\ p \in Phone /\ Goto(r, "createOtp")
      /\ UNCHANGED sessions
  BY Kinds DEF invalidateOtpsForPhone, Inv, AskRequest
<1>2. /\ req'[r] \in AskRequest /\ req'[r].at = "createOtp" /\ req'[r].phone = p
      /\ \A q \in Request \ {r} : req'[q] = req[q]
  BY <1>1, Goes
<1>3. /\ DOMAIN otps' = DOMAIN otps
      /\ \A i \in DOMAIN otps :
           /\ otps'[i].attempts = otps[i].attempts /\ otps'[i].phone = otps[i].phone
           /\ otps[i].phone = p => otps'[i].used
           /\ otps[i].phone # p => otps'[i] = otps[i]
  <2>1. otps' = [i \in DOMAIN otps |->
                   IF otps[i].phone = p THEN [otps[i] EXCEPT !.used = TRUE] ELSE otps[i]]
    BY DEF invalidateOtpsForPhone
  <2>2. \A i \in DOMAIN otps : otps[i] \in Otp
    BY <1>1, Rows
  <2>3. \A i \in DOMAIN otps :
          /\ [otps[i] EXCEPT !.used = TRUE].attempts = otps[i].attempts
          /\ [otps[i] EXCEPT !.used = TRUE].phone = otps[i].phone
          /\ [otps[i] EXCEPT !.used = TRUE].used
    BY <2>2 DEF Otp
  <2> QED BY <2>1, <2>3
<1> HIDE DEF p
<1>4. /\ \A i : r \notin Attempting(i)' /\ r \notin Opening(i)'
      /\ \A q : q # p => r \notin Creating(q)'
  BY <1>2 DEF Attempting, Opening, Creating, At, AskRequest
<1>5. /\ \A i : Attempting(i)' \subseteq Attempting(i)
      /\ \A q : q # p => Creating(q)' \subseteq Creating(q)
      /\ \A i : i # Wrong => Opening(i)' \subseteq Opening(i)
  BY <1>2, <1>4, OthersWrite
<1>6. AttemptsInv'
  BY <1>3, <1>5, AttemptsKept DEF Counts, CodesStay
<1>7. UsesInv'
  <2>1. SessionsStay
    BY <1>1 DEF SessionsStay, Opened
  <2> QED BY <1>3, <1>5, <2>1, UsesKept DEF Counts
<1>8. CodesInv'
  <2> SUFFICES ASSUME NEW q \in Phone
               PROVE  Cardinality(Active(q)') + Cardinality(Creating(q)') <= 1 + Others
    BY CodesInvIf
  <2>1. CASE q = p
    <3>1. Active(q)' = {}
      BY <1>3, <2>1 DEF Active
    <3>2. Cardinality(Creating(q)') <= 1 + Others /\ Cardinality(Creating(q)') \in Nat
      BY Writers, SomeOf
    <3> QED BY <3>1, <3>2, FS_EmptySet
  <2>2. CASE q # p
    <3>1. Active(q)' \subseteq Active(q)
      BY <1>3, <2>2 DEF Active
    <3> QED BY <1>5, <2>2, <3>1, ActiveKept DEF Counts
  <2> QED BY <2>1, <2>2
<1> QED BY <1>6, <1>7, <1>8 DEF Counts

\* A code inserted has been tried by no one.
LEMMA CreateCounts ==
  ASSUME Inv, Counts, NEW r \in Request, createOtp(r)
  PROVE  Counts'
<1>0. PICK n : n = Len(otps) + 1
  OBVIOUS
<1> DEFINE p == req[r].phone
           code == [phone |-> p, used |-> FALSE, old |-> FALSE, attempts |-> 0]
<1>1. /\ req[r] \in AskRequest /\ req[r].at = "createOtp" /\ Shapes /\ p \in Phone
      /\ UNCHANGED sessions
  BY Kinds DEF createOtp, Inv, AskRequest
<1>2. /\ req'[r].op = "ask" /\ req'[r].at = "send"
      /\ \A q \in Request \ {r} : req'[q] = req[q]
  BY DEF createOtp, Inv, Shapes
<1>3. /\ DOMAIN otps' = DOMAIN otps \cup {n} /\ n \notin DOMAIN otps /\ n # Wrong
      /\ \A i \in DOMAIN otps : otps'[i] = otps[i]
      /\ otps'[n] = code
  <2>1. code \in Otp
    BY <1>1 DEF Otp
  <2>2. otps' = Append(otps, code)
    BY DEF createOtp
  <2> HIDE DEF code
  <2> QED BY <1>0, <1>1, <2>1, <2>2, Rows, AppendProperties DEF Shapes, Wrong
<1>4. /\ code.phone = p /\ code.attempts = 0
  OBVIOUS
<1> HIDE DEF p, code
<1>5. \A q \in Request : At(q, "attempt") \/ req[q].op = "verify" =>
                           req[q].otp # n
  <2> SUFFICES ASSUME NEW q \in Request, At(q, "attempt") \/ req[q].op = "verify"
               PROVE  req[q].otp # n
    OBVIOUS
  <2>1. req[q] \in VerifyRequest
    <3>1. CASE At(q, "attempt")
      BY <1>1, <3>1, Kinds
    <3>2. CASE req[q].op = "verify"
      <4>1. req[q] \in AnyRequest
        BY <1>1 DEF Shapes
      <4> QED BY <3>2, <4>1 DEF AnyRequest, Idle, StartRequest, AskRequest, SendRequest, PageRequest
    <3> QED BY <3>1, <3>2
  <2>2. req[q].otp = Wrong \/ req[q].otp \in DOMAIN otps
    BY <2>1 DEF Inv, RequestOK
  <2> QED BY <1>3, <2>2
<1>6. /\ \A i : r \notin Attempting(i)' /\ r \notin Opening(i)'
      /\ \A q : r \notin Creating(q)'
  BY <1>2 DEF Attempting, Opening, Creating, At
<1>7. /\ \A i : Attempting(i)' \subseteq Attempting(i)
      /\ \A q : Creating(q)' \subseteq Creating(q) \ {r}
      /\ \A i : i # Wrong => Opening(i)' \subseteq Opening(i)
  BY <1>2, <1>6, OthersWrite
<1>8. Attempting(n)' = {} /\ Opening(n)' = {} /\ Opened(n)' = {}
  <2>1. Attempting(n) = {} /\ Opening(n) = {}
    BY <1>5 DEF Attempting, Opening
  <2>2. Opened(n) = {}
    BY <1>3 DEF Opened, Inv, SessionsOK
  <2>3. Opened(n)' = Opened(n)
    BY <1>1 DEF Opened
  <2> QED BY <1>3, <1>7, <2>1, <2>2, <2>3
<1>9. 0 <= Others /\ Others \in Int /\ Cardinality({}) = 0
  <2>1. {} \in SUBSET Request /\ r \notin {}
    OBVIOUS
  <2> QED BY <2>1, AllButOne, SomeOf, FS_EmptySet
<1>10. AttemptsInv'
  <2> SUFFICES ASSUME NEW i \in DOMAIN otps'
               PROVE  otps'[i].attempts + Cardinality(Attempting(i)') <= MaxAttempts + Others
    BY DEF AttemptsInv, Others
  <2>1. CASE i = n
    BY <1>3, <1>4, <1>8, <1>9, <2>1, AccountsAssumption
  <2>2. CASE i \in DOMAIN otps
    <3>1. Cardinality(Attempting(i)') <= Cardinality(Attempting(i))
          /\ Cardinality(Attempting(i)') \in Nat /\ Cardinality(Attempting(i)) \in Nat
      BY <1>7, Writers, SmallerCount
    <3>2. /\ otps[i].attempts + Cardinality(Attempting(i)) <= MaxAttempts + Others
          /\ otps[i].attempts \in Nat /\ MaxAttempts \in Nat
      BY <1>1, <2>2, Rows, AccountsAssumption DEF AttemptsInv, Counts
    <3>3. otps'[i].attempts = otps[i].attempts
      BY <1>3, <2>2
    <3> QED BY <1>9, <3>1, <3>2, <3>3
  <2> QED BY <1>3, <2>1, <2>2
<1>11. UsesInv'
  <2> SUFFICES ASSUME NEW i \in DOMAIN otps'
               PROVE  Cardinality(Opened(i)') + Cardinality(Opening(i)') <= 1 + Others
    BY DEF UsesInv, Others
  <2>1. CASE i = n
    BY <1>8, <1>9, <2>1
  <2>2. CASE i \in DOMAIN otps
    <3>1. i # Wrong
      BY <1>1, <2>2, Rows DEF Wrong
    <3>2. Cardinality(Opening(i)') <= Cardinality(Opening(i))
          /\ Cardinality(Opening(i)') \in Nat /\ Cardinality(Opening(i)) \in Nat
      BY <1>7, <3>1, Writers, SmallerCount
    <3>3. /\ Cardinality(Opened(i)) + Cardinality(Opening(i)) <= 1 + Others
          /\ Cardinality(Opened(i)) \in Nat
      BY <1>1, <2>2, RowsAreFinite DEF UsesInv, Counts
    <3>4. Opened(i)' = Opened(i)
      BY <1>1 DEF Opened
    <3> QED BY <1>9, <3>2, <3>3, <3>4
  <2> QED BY <1>3, <2>1, <2>2
<1>12. CodesInv'
  <2> SUFFICES ASSUME NEW q \in Phone
               PROVE  Cardinality(Active(q)') + Cardinality(Creating(q)') <= 1 + Others
    BY CodesInvIf
  <2>1. CASE q = p
    <3>1. r \in Creating(q) /\ IsFiniteSet(Creating(q))
      <4>1. At(r, "createOtp")
        BY DEF createOtp
      <4> QED BY <2>1, <4>1, Writers, SomeOf DEF Creating, p
    <3>2. Cardinality(Creating(q)') <= Cardinality(Creating(q)) - 1
      BY <1>7, <3>1, OneLess
    <3>3. Active(q)' \subseteq Active(q) \cup {n}
      BY <1>3 DEF Active
    <3>4. Cardinality(Active(q)') <= Cardinality(Active(q)) + 1 /\ IsFiniteSet(Active(q)')
      BY <1>1, <3>3, RowsAreFinite, OneMore
    <3>5. /\ Cardinality(Active(q)) + Cardinality(Creating(q)) <= 1 + Others
          /\ Cardinality(Active(q)) \in Nat /\ Cardinality(Creating(q)) \in Nat
          /\ Cardinality(Active(q)') \in Nat /\ Cardinality(Creating(q)') \in Nat
      <4>1. Cardinality(Creating(q)) \in Nat /\ Cardinality(Creating(q)') \in Nat
        BY Writers, SomeOf
      <4> QED BY <1>1, <3>4, <4>1, RowsAreFinite, FS_CardinalityType DEF CodesInv, Counts
    <3> QED BY <1>9, <3>2, <3>4, <3>5
  <2>2. CASE q # p
    <3>1. Active(q)' \subseteq Active(q)
      BY <1>3, <1>4, <2>2 DEF Active
    <3> QED BY <1>7, <3>1, ActiveKept DEF Counts
  <2> QED BY <2>1, <2>2
<1> QED BY <1>10, <1>11, <1>12 DEF Counts

\* A request that read a code with attempts left joins those about to count one.
LEMMA FindCounts ==
  ASSUME Inv, Counts, NEW r \in Request, findActiveOtp(r), ~ End(r)
  PROVE  Counts'
<1>0. PICK m : m = Max(Active(req[r].phone))
  OBVIOUS
<1>1. /\ req[r] \in VerifyRequest /\ req[r].at = "active" /\ Shapes
      /\ Active(req[r].phone) # {} /\ HasAttemptsLeft(m)
      /\ req' = [req EXCEPT ![r].at = "attempt", ![r].otp = m]
      /\ UNCHANGED <<otps, sessions>>
  BY <1>0, Kinds DEF findActiveOtp, Inv, rows
<1>2. m \in DOMAIN otps /\ ~ otps[m].used
  <2> DEFINE active == Active(req[r].phone)
  <2>1. active \in SUBSET (1 .. Len(otps)) /\ Len(otps) \in Nat /\ active # {}
    BY <1>1, Rows DEF Active
  <2>2. m \in active
    <3> HIDE DEF active
    <3>1. m = Max(active)
      BY <1>0 DEF active
    <3> QED BY <2>1, <3>1, LastOf
  <2> QED BY <2>2 DEF Active
<1> DEFINE new == [req[r] EXCEPT !.at = "attempt", !.otp = m]
<1>3. /\ req'[r].at = "attempt" /\ req'[r].otp = m
      /\ \A q \in Request \ {r} : req'[q] = req[q]
  <2>1. new.at = "attempt" /\ new.otp = m
    BY <1>1 DEF VerifyRequest
  <2>2. req' = [req EXCEPT ![r] = new]
    BY <1>1 DEF Shapes
  <2> HIDE DEF new
  <2> QED BY <1>1, <2>1, <2>2 DEF Shapes
<1>4. /\ \A i : i # m => r \notin Attempting(i)' /\ r \notin Opening(i)'
      /\ \A p : r \notin Creating(p)'
  BY <1>3 DEF Attempting, Opening, Creating, At
<1>5. /\ \A i : i # m => Attempting(i)' \subseteq Attempting(i)
      /\ Attempting(m)' \subseteq Attempting(m) \cup {r}
      /\ \A i : i # m /\ i # Wrong => Opening(i)' \subseteq Opening(i)
      /\ \A p : Creating(p)' \subseteq Creating(p)
  BY <1>3, <1>4, OthersWrite
<1>6. AttemptsInv'
  <2> SUFFICES ASSUME NEW i \in DOMAIN otps
               PROVE  otps[i].attempts + Cardinality(Attempting(i)') <= MaxAttempts + Others
    BY <1>1 DEF AttemptsInv, Others
  <2>1. /\ otps[i].attempts \in Nat /\ MaxAttempts \in Nat /\ Others \in Int
        /\ Cardinality(Attempting(i)') \in Nat /\ Cardinality(Attempting(i)) \in Nat
    <3>1. Attempting(i) \in SUBSET Request /\ Attempting(i)' \in SUBSET Request
      BY Writers
    <3> QED BY <1>1, <3>1, Rows, SomeOf, AccountsAssumption
  <2>2. CASE i = m
    <3>1. otps[i].attempts < MaxAttempts
      BY <1>1, <2>2 DEF HasAttemptsLeft
    <3>2. Cardinality(Attempting(i)') <= 1 + Others
      BY Writers, SomeOf
    <3> QED BY <2>1, <3>1, <3>2
  <2>3. CASE i # m
    <3>1. Cardinality(Attempting(i)') <= Cardinality(Attempting(i))
      BY <1>5, <2>3, Writers, SmallerCount
    <3>2. otps[i].attempts + Cardinality(Attempting(i)) <= MaxAttempts + Others
      BY DEF AttemptsInv, Counts
    <3> QED BY <2>1, <3>1, <3>2
  <2> QED BY <2>2, <2>3
<1>7. UsesInv'
  <2> SUFFICES ASSUME NEW i \in DOMAIN otps
               PROVE  Cardinality(Opened(i)) + Cardinality(Opening(i)') <= 1 + Others
    BY <1>1 DEF UsesInv, Others, Opened
  <2>1. /\ Cardinality(Opened(i)) \in Nat /\ Others \in Int
        /\ Cardinality(Opening(i)') \in Nat /\ Cardinality(Opening(i)) \in Nat
    <3>1. Opening(i) \in SUBSET Request /\ Opening(i)' \in SUBSET Request
      BY Writers
    <3> QED BY <1>1, <3>1, RowsAreFinite, SomeOf
  <2>2. CASE i = m
    <3>1. Opened(i) = {}
      BY <1>2, <2>2 DEF Opened, Inv, SessionsOK
    <3>2. Cardinality(Opening(i)') <= 1 + Others
      BY Writers, SomeOf
    <3> QED BY <2>1, <3>1, <3>2, FS_EmptySet
  <2>3. CASE i # m
    <3>1. i # Wrong
      BY <1>1, Rows DEF Wrong
    <3>2. Cardinality(Opening(i)') <= Cardinality(Opening(i))
      BY <1>5, <2>3, <3>1, Writers, SmallerCount
    <3>3. Cardinality(Opened(i)) + Cardinality(Opening(i)) <= 1 + Others
      BY DEF UsesInv, Counts
    <3> QED BY <2>1, <3>2, <3>3
  <2> QED BY <2>2, <2>3
<1>8. CodesInv'
  <2>1. \A p \in Phone : Active(p)' \subseteq Active(p)
    BY <1>1 DEF Active
  <2> QED BY <1>5, <2>1, ActiveKept, CodesInvIf DEF Counts
<1> QED BY <1>6, <1>7, <1>8 DEF Counts

\* The attempt counted takes the place of the request that was about to.
LEMMA IncrementCounts ==
  ASSUME Inv, Counts, NEW r \in Request, incrementAttempts(r)
  PROVE  Counts'
<1>0. PICK m : m = req[r].otp
  OBVIOUS
<1>1. /\ req[r] \in VerifyRequest /\ req[r].at = "attempt" /\ Shapes /\ m \in DOMAIN otps
      /\ UNCHANGED sessions
  BY <1>0, Kinds DEF incrementAttempts, Inv, RequestOK
<1> DEFINE code == [otps[m] EXCEPT !.attempts = @ + 1]
<1>2. /\ code.attempts = otps[m].attempts + 1 /\ code.phone = otps[m].phone
      /\ code.used = otps[m].used /\ code.old = otps[m].old
  BY <1>1, Rows DEF Otp
<1>3. otps' = [otps EXCEPT ![m] = code]
  BY <1>0 DEF incrementAttempts
<1> HIDE DEF code
<1>4. /\ DOMAIN otps' = DOMAIN otps
      /\ \A i \in DOMAIN otps : otps'[i] = IF i = m THEN code ELSE otps[i]
  BY <1>3
<1>5. /\ req'[r] = Idle \/ (req'[r].at = "use" /\ req'[r].otp = m)
      /\ \A q \in Request \ {r} : req'[q] = req[q]
  <2>1. CASE End(r)
    BY <1>1, <2>1, Ends
  <2>2. CASE Goto(r, "use")
    BY <1>0, <1>1, <2>2, Goes
  <2> QED BY <2>1, <2>2 DEF incrementAttempts
<1>6. /\ \A i : r \notin Attempting(i)' /\ (i # m => r \notin Opening(i)')
      /\ \A p : r \notin Creating(p)'
  BY <1>5 DEF Attempting, Opening, Creating, At, Idle
<1>7. r \in Attempting(m) /\ r \in Opening(m)
  BY <1>0, <1>1 DEF incrementAttempts, Attempting, Opening, VerifyRequest
<1>8. /\ \A i : Attempting(i)' \subseteq Attempting(i) \ {r}
      /\ \A p : Creating(p)' \subseteq Creating(p)
      /\ \A i : i # Wrong => Opening(i)' \subseteq Opening(i)
  BY <1>5, <1>6, <1>7, OthersWrite
<1>9. AttemptsInv'
  <2> SUFFICES ASSUME NEW i \in DOMAIN otps
               PROVE  otps'[i].attempts + Cardinality(Attempting(i)') <= MaxAttempts + Others
    BY <1>4 DEF AttemptsInv, Others
  <2>1. /\ otps[i].attempts \in Nat /\ MaxAttempts \in Nat /\ Others \in Int
        /\ Cardinality(Attempting(i)') \in Nat /\ Cardinality(Attempting(i)) \in Nat
        /\ IsFiniteSet(Attempting(i))
        /\ otps[i].attempts + Cardinality(Attempting(i)) <= MaxAttempts + Others
    <3>1. Attempting(i) \in SUBSET Request /\ Attempting(i)' \in SUBSET Request
      BY Writers
    <3> QED BY <1>1, <3>1, Rows, SomeOf, AccountsAssumption DEF AttemptsInv, Counts
  <2>2. CASE i = m
    <3>1. otps'[i].attempts = otps[i].attempts + 1
      BY <1>2, <1>4, <2>2
    <3>2. Cardinality(Attempting(i)') <= Cardinality(Attempting(i)) - 1
      BY <1>7, <1>8, <2>1, <2>2, OneLess
    <3> QED BY <2>1, <3>1, <3>2
  <2>3. CASE i # m
    <3>1. otps'[i].attempts = otps[i].attempts
      BY <1>4, <2>3
    <3>2. Cardinality(Attempting(i)') <= Cardinality(Attempting(i))
      BY <1>8, Writers, SmallerCount
    <3> QED BY <2>1, <3>1, <3>2
  <2> QED BY <2>2, <2>3
<1>10. UsesInv'
  <2>1. SessionsStay
    BY <1>1 DEF SessionsStay, Opened
  <2> QED BY <1>4, <1>8, <2>1, UsesKept DEF Counts
<1>11. CodesInv'
  <2>1. \A p \in Phone : Active(p)' \subseteq Active(p)
    BY <1>2, <1>4 DEF Active
  <2> QED BY <1>8, <2>1, ActiveKept, CodesInvIf DEF Counts
<1> QED BY <1>9, <1>10, <1>11 DEF Counts

\* The session opened takes the place of the request that was about to.
LEMMA SessionCounts ==
  ASSUME Inv, Counts, NEW r \in Request, createSession(r)
  PROVE  Counts'
<1>0. PICK m, n, new : /\ m = req[r].otp /\ n = Len(sessions) + 1
                      /\ new = [account |-> users[req[r].phone], code |-> m, state |-> "live"]
  OBVIOUS
<1>1. /\ req[r] \in VerifyRequest /\ Shapes /\ m \in DOMAIN otps /\ m # Wrong
      /\ UNCHANGED otps /\ new.code = m
  BY <1>0, Kinds, Rows DEF createSession, Inv, RequestOK, Wrong
<1>2. /\ req'[r] = Idle /\ \A q \in Request \ {r} : req'[q] = req[q]
  BY <1>1, Ends DEF createSession
<1>3. /\ DOMAIN sessions' = DOMAIN sessions \cup {n}
      /\ \A s \in DOMAIN sessions : sessions'[s] = sessions[s]
      /\ sessions'[n] = new
  <2>1. sessions' = Append(sessions, new) /\ sessions \in Seq(Session) /\ Len(sessions) \in Nat
        /\ DOMAIN sessions = 1 .. Len(sessions)
    BY <1>0, <1>1, Rows DEF createSession, Shapes
  <2> QED BY <1>0, <2>1
<1>4. /\ \A i : r \notin Attempting(i)' /\ r \notin Opening(i)'
      /\ \A p : r \notin Creating(p)'
  BY <1>2 DEF Attempting, Opening, Creating, At, Idle
<1>5. /\ \A i : Attempting(i)' \subseteq Attempting(i)
      /\ \A p : Creating(p)' \subseteq Creating(p)
      /\ \A i : i # Wrong => Opening(i)' \subseteq Opening(i) \ {r}
  BY <1>2, <1>4, OthersWrite
<1>6. AttemptsInv'
  <2>1. CodesStay
    BY <1>1 DEF CodesStay
  <2> QED BY <1>5, <2>1, AttemptsKept DEF Counts
<1>7. CodesInv'
  <2>1. \A p \in Phone : Active(p)' \subseteq Active(p)
    BY <1>1 DEF Active
  <2> QED BY <1>5, <2>1, ActiveKept, CodesInvIf DEF Counts
<1>8. UsesInv'
  <2> SUFFICES ASSUME NEW i \in DOMAIN otps
               PROVE  Cardinality(Opened(i)') + Cardinality(Opening(i)') <= 1 + Others
    BY <1>1 DEF UsesInv, Others
  <2>1. i # Wrong
    BY <1>1, Rows DEF Wrong
  <2>2. /\ Cardinality(Opened(i)) \in Nat /\ Others \in Int /\ IsFiniteSet(Opened(i))
        /\ Cardinality(Opening(i)') \in Nat /\ Cardinality(Opening(i)) \in Nat
        /\ IsFiniteSet(Opening(i))
        /\ Cardinality(Opened(i)) + Cardinality(Opening(i)) <= 1 + Others
    <3>1. Opening(i) \in SUBSET Request /\ Opening(i)' \in SUBSET Request
      BY Writers
    <3> QED BY <1>1, <3>1, RowsAreFinite, SomeOf DEF UsesInv, Counts
  <2>3. CASE i = m
    <3>1. r \in Opening(i)
      BY <1>0, <1>1, <2>3 DEF Opening, VerifyRequest
    <3>2. Cardinality(Opening(i)') <= Cardinality(Opening(i)) - 1
      BY <1>5, <2>1, <2>2, <3>1, OneLess
    <3>3. Opened(i)' \subseteq Opened(i) \cup {n}
      BY <1>3 DEF Opened
    <3>4. Cardinality(Opened(i)') <= Cardinality(Opened(i)) + 1 /\ IsFiniteSet(Opened(i)')
      BY <2>2, <3>3, OneMore
    <3>5. Cardinality(Opened(i)') \in Nat
      BY <3>4, FS_CardinalityType
    <3> QED BY <2>2, <3>2, <3>4, <3>5
  <2>4. CASE i # m
    <3>1. Opened(i)' = Opened(i)
      BY <1>1, <1>3, <2>4 DEF Opened
    <3>2. Cardinality(Opening(i)') <= Cardinality(Opening(i))
      BY <1>5, <2>1, Writers, SmallerCount
    <3> QED BY <2>2, <3>1, <3>2
  <2> QED BY <2>3, <2>4
<1> QED BY <1>6, <1>7, <1>8 DEF Counts

LEMMA CountsInductive == Spec => [](Inv /\ Counts)
<1>1. Init => Inv /\ Counts
  <2>1. Init => Counts
    <3> SUFFICES ASSUME Init PROVE Counts
      OBVIOUS
    <3>1. AttemptsInv /\ UsesInv
      BY DEF Init, AttemptsInv, UsesInv
    <3>2. ASSUME NEW p \in Phone
          PROVE  Cardinality(Active(p)) + Cardinality(Creating(p)) <= 1 + Others
      <4>1. Active(p) = {} /\ Creating(p) = {}
        BY DEF Init, Active, Creating, At
      <4>2. 0 <= 1 + Others /\ Others \in Int
        BY SomeOf, FS_EmptySet
      <4> QED BY <4>1, <4>2, FS_EmptySet
    <3> QED BY <3>1, <3>2 DEF Counts, CodesInv
  <2> QED BY <2>1, InvInit
<1>2. Inv /\ Counts /\ [Next]_vars => Inv' /\ Counts'
  BY InvStep, QuietOrCounted, QuietCounts, InvalidateCounts, CreateCounts, FindCounts,
     IncrementCounts, SessionCounts
<1> QED BY <1>1, <1>2, PTL DEF Spec

(***************************************************************************)
(* Theorems                                                                *)
(***************************************************************************)
\* A code is tried at most MAX_ATTEMPTS times, and once more for every other request
\* handled at the same time: they read the attempts before any of them adds one.
THEOREM AttemptsAreBounded == Spec => []AttemptsBounded
<1>1. Inv /\ Counts => AttemptsBounded
  <2> SUFFICES ASSUME Inv, Counts, NEW i \in DOMAIN otps
               PROVE  otps[i].attempts <= MaxAttempts + Others
    BY DEF AttemptsBounded
  <2>1. /\ otps[i].attempts + Cardinality(Attempting(i)) <= MaxAttempts + Others
        /\ otps[i].attempts \in Nat
    BY Rows DEF Counts, AttemptsInv, Inv
  <2>2. Cardinality(Attempting(i)) \in Nat /\ Others \in Int
    BY Writers, SomeOf
  <2> QED BY <2>1, <2>2, AccountsAssumption
<1> QED BY <1>1, CountsInductive, PTL

\* A code opens a session for every request that found it unused, and no more: the
\* first one marks it used before any session is there.
THEOREM UsesAreBounded == Spec => []UsesBounded
<1>1. Inv /\ Counts => UsesBounded
  <2> SUFFICES ASSUME Inv, Counts, NEW i \in DOMAIN otps
               PROVE  /\ Opened(i) # {} => otps[i].used
                      /\ Cardinality(Opened(i)) + Cardinality(Opening(i)) <= 1 + Others
    BY DEF UsesBounded, Opened, Opening
  <2> QED BY DEF Inv, SessionsOK, Opened, Counts, UsesInv
<1> QED BY <1>1, CountsInductive, PTL

\* A phone has at most as many active codes as requests are handled at a time: each one
\* invalidates the codes there before it inserts its own.
THEOREM ActiveCodesAreBounded == Spec => []ActiveCodesBounded
<1>1. Inv /\ Counts => ActiveCodesBounded
  <2> SUFFICES ASSUME Inv, Counts, NEW p \in Phone
               PROVE  Cardinality(Active(p)) <= 1 + Others
    BY DEF ActiveCodesBounded
  <2>1. Cardinality(Active(p)) + Cardinality(Creating(p)) <= 1 + Others
    BY DEF Counts, CodesInv
  <2>2. Cardinality(Creating(p)) \in Nat /\ Others \in Int
    BY Writers, SomeOf
  <2> QED BY <2>1, <2>2, RowsAreFinite DEF Inv
<1> QED BY <1>1, CountsInductive, PTL
=============================================================================
