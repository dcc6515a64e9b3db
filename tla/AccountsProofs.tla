--------------------------- MODULE AccountsProofs ---------------------------
(***************************************************************************)
(* Proofs about Accounts, for all people, codes, passwords, tokens, calls  *)
(* and faults: type correctness, that no account is removed before it is   *)
(* recorded, that a log-out sticks, and, for calls that do not overlap,    *)
(* that what is stored is the password last given and that deleted         *)
(* accounts do not come back.                                              *)
(***************************************************************************)
EXTENDS Accounts, TLAPS

(***************************************************************************)
(* The inductive invariant.  TypeOK is not inductive: a step must know     *)
(* that its call is about one person, that what it saves is a user, and    *)
(* what the steps of the call before it have written.                      *)
(***************************************************************************)
OneWho(c)    == call[c].pc # "idle" => \E p \in People : call[c].who = {p}
SavesUser(c) == call[c].pc = "save" => call[c].row \in User
Recorded(c)  == call[c].pc = "remove" => \A p \in call[c].who : deleted[p]
LoggingOut(c) ==
    /\ call[c].pc = "putRefresh" => Passed(c, "access") \ call[c].lost \subseteq invalid
    /\ call[c].pc = "reply" => call[c].passed \ call[c].lost \subseteq invalid

CallOK(c) == OneWho(c) /\ SavesUser(c) /\ Recorded(c) /\ LoggingOut(c)
CallsOK   == \A c \in Calls : CallOK(c)

Inv == TypeOK /\ CallsOK

-----------------------------------------------------------------------------
(* Rows *)

LEMMA NoCallType == NoCall \in CallRow /\ NoCall.pc = "idle" /\ NoCall.kind = "none"
BY DEF NoCall, CallRow, User, NoUser

\* What is hashed or not yet hashed is a hash afterwards.
LEMMA HashType == ASSUME NEW h \in Hashes PROVE hashPassword(h) \in Hashes
BY DEF hashPassword, Hashes

\* The hook makes the hash of a password, and leaves one alone.
LEMMA PlainHashed == ASSUME NEW w \in Passwords PROVE HashOf(hashPassword(Plain(w)), w)
BY DEF HashOf, hashPassword, Plain

LEMMA HashStays == ASSUME NEW h, NEW w, HashOf(h, w) PROVE HashOf(hashPassword(h), w)
BY DEF HashOf, hashPassword, Plain

LEMMA PlainType == ASSUME NEW w \in Passwords PROVE Plain(w) \in Hashes
BY DEF Plain, Hashes

\* A call in progress is about the person Who names.
LEMMA WhoType ==
    ASSUME NEW c \in Calls, OneWho(c), call[c].pc # "idle"
    PROVE  Who(c) \in People /\ call[c].who = {Who(c)}
BY DEF OneWho, Who

LEMMA NoUserType == NoUser \notin User
<1> SUFFICES ASSUME NoUser \in User PROVE FALSE
  OBVIOUS
<1>1. DOMAIN NoUser = {"verified", "otp", "fresh", "hash"}
  BY DEF User
<1>2. DOMAIN NoUser = {"verified"}
  BY DEF NoUser
<1> QED
  BY <1>1, <1>2

\* A row that is there is a user.
LEMMA UserThere ==
    ASSUME TypeOK, NEW p \in People, users[p] # NoUser PROVE users[p] \in User
BY DEF TypeOK

-----------------------------------------------------------------------------
(* What the steps have in common *)

\* Nobody's deletion is taken back and no token becomes valid again.
Onward ==
    /\ \A p \in People : deleted[p] => deleted'[p]
    /\ invalid \subseteq invalid'

\* A step of one call leaves the others as they should be.
LEMMA OthersKept ==
    ASSUME Inv, Onward, NEW c \in Calls, CallOK(c)',
           \A d \in Calls \ {c} : call'[d] = call[d]
    PROVE  CallsOK'
<1> SUFFICES ASSUME NEW d \in Calls, d # c PROVE CallOK(d)'
  BY DEF CallsOK
<1>1. CallOK(d) /\ call'[d] = call[d] /\ call[d] \in CallRow
  BY DEF Inv, CallsOK, TypeOK
<1>2. OneWho(d)' /\ SavesUser(d)'
  BY <1>1 DEF CallOK, OneWho, SavesUser
<1>3. Recorded(d)'
  BY <1>1 DEF CallOK, Recorded, Onward, CallRow
<1>4. LoggingOut(d)'
  BY <1>1 DEF CallOK, LoggingOut, Passed, Onward
<1> QED
  BY <1>2, <1>3, <1>4 DEF CallOK

\* A step in which no call moves keeps what the calls know.
LEMMA NoneMoves ==
    ASSUME Inv, Onward, UNCHANGED call PROVE CallsOK'
<1> SUFFICES ASSUME NEW d \in Calls PROVE CallOK(d)'
  BY DEF CallsOK
<1>1. CallOK(d) /\ call'[d] = call[d] /\ call[d] \in CallRow
  BY DEF Inv, CallsOK, TypeOK
<1>2. OneWho(d)' /\ SavesUser(d)'
  BY <1>1 DEF CallOK, OneWho, SavesUser
<1>3. Recorded(d)'
  BY <1>1 DEF CallOK, Recorded, Onward, CallRow
<1>4. LoggingOut(d)'
  BY <1>1 DEF CallOK, LoggingOut, Passed, Onward
<1> QED
  BY <1>2, <1>3, <1>4 DEF CallOK

\* A call that returns has nothing left to know.
LEMMA ReturnOK ==
    ASSUME Inv, Onward, NEW c \in Calls, Returns(c)
    PROVE  CallsOK' /\ call' \in [Calls -> CallRow]
<1>1. /\ call' \in [Calls -> CallRow]
      /\ call'[c] = NoCall
      /\ \A d \in Calls \ {c} : call'[d] = call[d]
  BY NoCallType DEF Inv, TypeOK, Returns
<1>2. CallOK(c)'
  BY <1>1, NoCallType DEF CallOK, OneWho, SavesUser, Recorded, LoggingOut
<1> QED
  BY <1>1, <1>2, OthersKept

\* A call that goes on with another step, other than a log-out.
LEMMA GoOK ==
    ASSUME Inv, Onward, NEW c \in Calls, NEW step \in {"role", "mail", "remove"},
           call[c].pc \in {"insert", "role", "code", "record"}, GoesTo(c, step),
           step = "remove" => \A p \in call[c].who : deleted'[p]
    PROVE  CallsOK' /\ call' \in [Calls -> CallRow]
<1>1. /\ call' \in [Calls -> CallRow]
      /\ call'[c] = [call[c] EXCEPT !.pc = step]
      /\ \A d \in Calls \ {c} : call'[d] = call[d]
  BY DEF Inv, TypeOK, GoesTo, CallRow
<1>2. call[c] \in CallRow /\ CallOK(c)
  BY DEF Inv, TypeOK, CallsOK
<1>3. CallOK(c)'
  BY <1>1, <1>2 DEF CallOK, OneWho, SavesUser, Recorded, LoggingOut, CallRow
<1> QED
  BY <1>1, <1>3, OthersKept

\* A call that begins.
LEMMA BeginOK ==
    ASSUME Inv, Onward, NEW c \in Calls, NEW r \in CallRow, NEW p \in People,
           call' = [call EXCEPT ![c] = r], r.who = {p}, r.pc # "remove",
           r.pc = "save" => r.row \in User, r.pc # "putRefresh",
           r.pc = "reply" => r.passed \ r.lost \subseteq invalid'
    PROVE  CallsOK' /\ call' \in [Calls -> CallRow]
<1>1. /\ call' \in [Calls -> CallRow]
      /\ call'[c] = r
      /\ \A d \in Calls \ {c} : call'[d] = call[d]
  BY DEF Inv, TypeOK
<1>2. CallOK(c)'
  BY <1>1 DEF CallOK, OneWho, SavesUser, Recorded, LoggingOut
<1> QED
  BY <1>1, <1>2, OthersKept

\* A call that begins with nothing but a name.
LEMMA BeginsOK ==
    ASSUME Inv, Onward, NEW c \in Calls, NEW p \in People,
           NEW step \in {"code", "record"}, NEW kind \in {"resend", "delete"},
           Begins(c, step, kind, p)
    PROVE  CallsOK' /\ call' \in [Calls -> CallRow]
<1> DEFINE r == [NoCall EXCEPT !.pc = step, !.kind = kind, !.who = {p}]
<1>1. r \in CallRow /\ r.pc = step /\ r.who = {p} /\ r.kind = kind
  BY DEF NoCall, CallRow
<1>2. call' = [call EXCEPT ![c] = r]
  BY DEF Begins
<1> HIDE DEF r
<1> QED
  BY <1>1, <1>2, BeginOK

-----------------------------------------------------------------------------
(* Inductive steps *)

LEMMA InitInv == Init => Inv
<1> SUFFICES ASSUME Init PROVE Inv
  OBVIOUS
<1>1. TypeOK
  BY NoCallType, FaultsAssumption DEF Init, TypeOK
<1>2. CallsOK
  BY NoCallType DEF Init, CallsOK, CallOK, OneWho, SavesUser, Recorded, LoggingOut
<1> QED
  BY <1>1, <1>2 DEF Inv

\* Registration and its codes.
LEMMA RegisterSteps ==
    ASSUME Inv, NEW c \in Calls, NEW p \in People,
           \/ BeginRegister(c, p) \/ InsertUser(c) \/ InsertRole(c) \/ SendMail(c)
           \/ BeginResend(c, p) \/ StoreCode(c)
    PROVE  Inv'
<1>o. Onward
  BY DEF Onward, BeginRegister, InsertUser, InsertRole, SendMail, BeginResend, StoreCode,
     session
<1>t. TypeOK /\ CallOK(c) /\ call[c] \in CallRow
  BY DEF Inv, CallsOK, TypeOK
<1>1. CASE BeginRegister(c, p)
  <2>1. PICK w \in Passwords :
            /\ call' = [call EXCEPT ![c] = [NoCall EXCEPT !.pc = "insert",
                            !.kind = "register", !.who = {p}, !.password = {w}]]
            /\ given' = [given EXCEPT ![p] = @ \cup {w}]
    BY <1>1 DEF BeginRegister
  <2>2. CallsOK' /\ call' \in [Calls -> CallRow]
    <3> DEFINE r == [NoCall EXCEPT !.pc = "insert", !.kind = "register",
                                   !.who = {p}, !.password = {w}]
    <3>1. r \in CallRow /\ r.pc = "insert" /\ r.who = {p} /\ r.kind = "register"
      BY DEF NoCall, CallRow
    <3>2. call' = [call EXCEPT ![c] = r]
      BY <2>1
    <3> HIDE DEF r
    <3> QED
      BY <1>o, <3>1, <3>2, BeginOK
  <2>3. given' \in [People -> SUBSET Passwords]
    BY <1>t, <2>1 DEF TypeOK
  <2> QED
    BY <1>1, <1>t, <2>2, <2>3 DEF Inv, TypeOK, BeginRegister, session
<1>2. CASE InsertUser(c)
  <2>1. Who(c) \in People /\ call[c].who = {Who(c)}
    BY <1>2, <1>t, WhoType DEF InsertUser, CallOK
  <2>2. CASE Returns(c) /\ UNCHANGED users
    BY <1>2, <1>t, <1>o, <2>2, ReturnOK DEF Inv, TypeOK, InsertUser, session
  <2>3. ASSUME NEW k \in Codes, NEW w \in call[c].password,
               users' = [users EXCEPT ![Who(c)] =
                           [verified |-> FALSE, otp |-> k, fresh |-> TRUE,
                            hash |-> hashPassword(Plain(w))]],
               call' = [call EXCEPT ![c].pc = "role", ![c].code = k]
        PROVE  Inv'
    <3>1. hashPassword(Plain(w)) \in Hashes
      BY <1>t, <2>3, HashType, PlainType DEF CallRow
    <3>2. users' \in [People -> User \cup {NoUser}]
      BY <1>t, <2>1, <2>3, <3>1 DEF TypeOK, User
    <3>3. /\ call' \in [Calls -> CallRow]
          /\ call'[c] = [call[c] EXCEPT !.pc = "role", !.code = k]
          /\ \A d \in Calls \ {c} : call'[d] = call[d]
      BY <1>t, <2>3 DEF TypeOK, CallRow
    <3>4. CallOK(c)'
      BY <1>2, <1>t, <2>1, <3>3
         DEF InsertUser, CallOK, OneWho, SavesUser, Recorded, LoggingOut, CallRow
    <3>5. CallsOK'
      BY <1>o, <3>3, <3>4, OthersKept
    <3> QED
      BY <1>2, <1>t, <3>2, <3>3, <3>5 DEF Inv, TypeOK, InsertUser, session
  <2> QED
    BY <1>2, <2>2, <2>3 DEF InsertUser
<1>3. CASE InsertRole(c)
  <2>1. Who(c) \in People
    BY <1>3, <1>t, WhoType DEF InsertRole, CallOK
  <2>2. CallsOK' /\ call' \in [Calls -> CallRow]
    BY <1>3, <1>o, GoOK DEF InsertRole
  <2> QED
    BY <1>3, <1>t, <2>1, <2>2 DEF Inv, TypeOK, InsertRole, session
<1>4. CASE SendMail(c)
  <2>1. Who(c) \in People
    BY <1>4, <1>t, WhoType DEF SendMail, CallOK
  <2>2. CallsOK' /\ call' \in [Calls -> CallRow]
    BY <1>4, <1>o, ReturnOK DEF SendMail
  <2>3. /\ inbox' \in [People -> Codes \cup {NoCode}]
        /\ given' \in [People -> SUBSET Passwords]
    BY <1>4, <1>t, <2>1 DEF SendMail, TypeOK, CallRow
  <2> QED
    BY <1>4, <1>t, <2>2, <2>3 DEF Inv, TypeOK, SendMail, session
<1>5. CASE BeginResend(c, p)
  <2>1. CallsOK' /\ call' \in [Calls -> CallRow]
    BY <1>5, <1>o, BeginsOK DEF BeginResend
  <2> QED
    BY <1>5, <1>t, <2>1 DEF Inv, TypeOK, BeginResend, session
<1>6. CASE StoreCode(c)
  <2>1. Who(c) \in People /\ call[c].who = {Who(c)}
    BY <1>6, <1>t, WhoType DEF StoreCode, CallOK
  <2>2. PICK k \in Codes :
            /\ users' = IF users[Who(c)].verified \/ users[Who(c)] = NoUser THEN users
                        ELSE [users EXCEPT ![Who(c)].otp = k, ![Who(c)].fresh = TRUE]
            /\ call' = [call EXCEPT ![c].pc = "mail", ![c].code = k]
    BY <1>6 DEF StoreCode
  <2>3. users' \in [People -> User \cup {NoUser}]
    <3>1. CASE users[Who(c)] = NoUser \/ users[Who(c)].verified
      BY <1>t, <2>2, <3>1 DEF TypeOK
    <3>2. CASE users[Who(c)] # NoUser /\ ~users[Who(c)].verified
      <4>1. users[Who(c)] \in User
        BY <1>t, <2>1, <3>2, UserThere
      <4> QED
        BY <1>t, <2>1, <2>2, <3>2, <4>1 DEF TypeOK, User
    <3> QED
      BY <3>1, <3>2
  <2>4. /\ call' \in [Calls -> CallRow]
        /\ call'[c] = [call[c] EXCEPT !.pc = "mail", !.code = k]
        /\ \A d \in Calls \ {c} : call'[d] = call[d]
    BY <1>t, <2>2 DEF TypeOK, CallRow
  <2>5. CallOK(c)'
    BY <1>6, <1>t, <2>1, <2>4
       DEF StoreCode, CallOK, OneWho, SavesUser, Recorded, LoggingOut, CallRow
  <2>6. CallsOK'
    BY <1>o, <2>4, <2>5, OthersKept
  <2> QED
    BY <1>6, <1>t, <2>3, <2>4, <2>6 DEF Inv, TypeOK, StoreCode, session
<1> QED
  BY <1>1, <1>2, <1>3, <1>4, <1>5, <1>6

\* A log-out goes on to the refresh token or to its answer, and what it was passed
\* until then is lost or invalid.
LEMMA LogoutOK ==
    ASSUME Inv, Onward, NEW c \in Calls, call[c].pc # "idle",
           NEW step \in {"putRefresh", "reply"},
           NEW lost \in SUBSET (Tokens \X {"access", "refresh"}),
           call' = [call EXCEPT ![c].pc = step, ![c].lost = lost],
           step = "putRefresh" => Passed(c, "access") \ lost \subseteq invalid',
           step = "reply" => call[c].passed \ lost \subseteq invalid'
    PROVE  CallsOK' /\ call' \in [Calls -> CallRow]
<1>1. call[c] \in CallRow /\ CallOK(c) /\ call \in [Calls -> CallRow]
  BY DEF Inv, TypeOK, CallsOK
<1>2. /\ call' \in [Calls -> CallRow]
      /\ call'[c] = [call[c] EXCEPT !.pc = step, !.lost = lost]
      /\ \A d \in Calls \ {c} : call'[d] = call[d]
  BY <1>1 DEF CallRow
<1>3. /\ call'[c].pc = step /\ call'[c].who = call[c].who
      /\ call'[c].passed = call[c].passed /\ call'[c].lost = lost
  BY <1>1, <1>2 DEF CallRow
<1>4. OneWho(c)' /\ SavesUser(c)' /\ Recorded(c)'
  BY <1>1, <1>3 DEF CallOK, OneWho, SavesUser, Recorded
<1>5. LoggingOut(c)'
  BY <1>3 DEF LoggingOut, Passed
<1> QED
  BY <1>2, <1>4, <1>5, OthersKept DEF CallOK

\* What is passed is an access token or a refresh token.
LEMMA TwoKinds ==
    ASSUME NEW c \in Calls, call[c] \in CallRow
    PROVE  /\ call[c].passed = Passed(c, "access") \cup Passed(c, "refresh")
           /\ call[c].passed \subseteq Tokens \X {"access", "refresh"}
           /\ call[c].lost \subseteq Tokens \X {"access", "refresh"}
<1>1. ASSUME NEW x \in call[c].passed PROVE x[2] \in {"access", "refresh"}
  BY DEF CallRow
<1> QED
  BY <1>1 DEF Passed, CallRow

\* Tokens are handed out.
LEMMA IssueOK ==
    ASSUME TypeOK, NEW p \in People, Issue(p)
    PROVE  issued' \in [Tokens -> SUBSET People] /\ invalid' = invalid
<1>1. (CHOOSE t \in Tokens : issued[t] = {}) \in Tokens
  BY DEF Issue
<1> QED
  BY <1>1 DEF Issue, TypeOK

\* How a log-out begins: with its first query, or with its answer and nothing done.
BeginsLogout(c, p, r) ==
    /\ call' = [call EXCEPT ![c] = r]
    /\ r.kind = "logout" /\ r.who = {p}
    /\ r.pc \in {"putAccess", "reply"}
    /\ r.pc = "reply" => r.lost = r.passed

LEMMA LogoutRow ==
    ASSUME TypeOK, NEW c \in Calls, NEW p \in People, BeginLogout(c, p)
    PROVE  \E r \in CallRow : BeginsLogout(c, p, r)
<1> DEFINE row(tokens) == [NoCall EXCEPT !.pc = "putAccess", !.kind = "logout",
                                         !.who = {p}, !.passed = tokens]
           failed(tokens) == [row(tokens) EXCEPT !.pc = "reply", !.lost = row(tokens).passed]
<1>1. PICK t \in Tokens, kinds \in {{"access"}, {"access", "refresh"}} :
          \/ call' = [call EXCEPT ![c] = row({t} \X kinds)]
          \/ call' = [call EXCEPT ![c] = failed({t} \X kinds)]
  BY DEF BeginLogout
<1> DEFINE tokens == {t} \X kinds
<1>2. tokens \subseteq Tokens \X {"access", "refresh"}
  OBVIOUS
<1>3. call' = [call EXCEPT ![c] = row(tokens)] \/ call' = [call EXCEPT ![c] = failed(tokens)]
  BY <1>1
<1> HIDE DEF tokens
<1>4. /\ row(tokens) \in CallRow /\ row(tokens).kind = "logout"
      /\ row(tokens).who = {p} /\ row(tokens).pc = "putAccess"
  BY <1>2 DEF NoCall, CallRow, User, NoUser
<1>5. /\ failed(tokens) \in CallRow /\ failed(tokens).kind = "logout"
      /\ failed(tokens).who = {p} /\ failed(tokens).pc = "reply"
      /\ failed(tokens).lost = failed(tokens).passed
  BY <1>2 DEF NoCall, CallRow, User, NoUser
<1> DEFINE r == row(tokens)
           f == failed(tokens)
<1>6. /\ r \in CallRow /\ r.kind = "logout" /\ r.who = {p} /\ r.pc = "putAccess"
      /\ f \in CallRow /\ f.kind = "logout" /\ f.who = {p} /\ f.pc = "reply"
      /\ f.lost = f.passed
      /\ call' = [call EXCEPT ![c] = r] \/ call' = [call EXCEPT ![c] = f]
  BY <1>3, <1>4, <1>5
<1> HIDE DEF r, f
<1> QED
  BY <1>6 DEF BeginsLogout

\* Log-out.
LEMMA SessionSteps ==
    ASSUME Inv, NEW c \in Calls, NEW p \in People,
           BeginLogout(c, p) \/ PutAccess(c) \/ PutRefresh(c) \/ ReplyLogout(c)
    PROVE  Inv'
<1>o. Onward
  BY DEF Onward, BeginLogout, PutAccess, PutRefresh, ReplyLogout, session
<1>t. TypeOK /\ CallOK(c) /\ call[c] \in CallRow
  BY DEF Inv, CallsOK, TypeOK
<1>1. CASE BeginLogout(c, p)
  <2>1. PICK r \in CallRow : BeginsLogout(c, p, r)
    BY <1>1, <1>t, LogoutRow
  <2>2. CallsOK' /\ call' \in [Calls -> CallRow]
    <3>1. /\ call' = [call EXCEPT ![c] = r] /\ r.who = {p}
          /\ r.pc \in {"putAccess", "reply"}
          /\ r.pc = "reply" => r.passed \ r.lost \subseteq invalid'
      BY <2>1 DEF BeginsLogout
    <3> QED
      BY <1>o, <3>1, BeginOK
  <2>3. faults' \in 0..MaxFaults
    <3>1. faults' = faults \/ (faults' = faults + 1 /\ faults < MaxFaults)
      BY <1>1 DEF BeginLogout, MayFail
    <3> QED
      BY <1>t, <3>1, FaultsAssumption DEF TypeOK
  <2> QED
    BY <1>1, <1>t, <2>2, <2>3 DEF Inv, TypeOK, BeginLogout, session
<1>2. CASE PutAccess(c)
  <2>1. invalid' \subseteq Tokens \X {"access", "refresh"}
    BY <1>2, <1>t, TwoKinds DEF PutAccess, TypeOK
  <2> DEFINE lost == call[c].lost
             step == AfterAccess(c)
  <2>2. /\ step \in {"putRefresh", "reply"}
        /\ lost \in SUBSET (Tokens \X {"access", "refresh"})
        /\ step = "reply" => call[c].passed = Passed(c, "access")
    BY <1>t, TwoKinds DEF AfterAccess
  <2>3. call' = [call EXCEPT ![c].pc = step, ![c].lost = lost]
    BY <1>2, <1>t DEF PutAccess, GoesTo, TypeOK, CallRow
  <2>4. Passed(c, "access") \subseteq invalid' /\ call[c].pc # "idle"
    BY <1>2 DEF PutAccess
  <2>6. /\ step = "putRefresh" => Passed(c, "access") \ lost \subseteq invalid'
        /\ step = "reply" => call[c].passed \ lost \subseteq invalid'
    BY <2>2, <2>4
  <2> HIDE DEF lost, step
  <2>5. CallsOK' /\ call' \in [Calls -> CallRow]
    BY <1>o, <2>2, <2>3, <2>4, <2>6, LogoutOK
  <2> QED
    BY <1>2, <1>t, <2>1, <2>5 DEF Inv, TypeOK, PutAccess
<1>3. CASE PutRefresh(c)
  <2>1. invalid' \subseteq Tokens \X {"access", "refresh"}
    BY <1>3, <1>t, TwoKinds DEF PutRefresh, TypeOK
  <2> DEFINE lost == call[c].lost
  <2>2. lost \in SUBSET (Tokens \X {"access", "refresh"})
    BY <1>t, TwoKinds
  <2>3. call' = [call EXCEPT ![c].pc = "reply", ![c].lost = lost] /\ call[c].pc # "idle"
    BY <1>3, <1>t DEF PutRefresh, GoesTo, TypeOK, CallRow
  <2>4. call[c].passed \ lost \subseteq invalid'
    BY <1>3, <1>t, TwoKinds DEF PutRefresh, CallOK, LoggingOut
  <2> HIDE DEF lost
  <2>5. CallsOK' /\ call' \in [Calls -> CallRow]
    BY <1>o, <2>2, <2>3, <2>4, LogoutOK
  <2> QED
    BY <1>3, <1>t, <2>1, <2>5 DEF Inv, TypeOK, PutRefresh
<1>4. CASE ReplyLogout(c)
  <2>1. CallsOK' /\ call' \in [Calls -> CallRow]
    BY <1>4, <1>o, ReturnOK DEF ReplyLogout
  <2> QED
    BY <1>4, <1>t, <2>1 DEF Inv, TypeOK, ReplyLogout, session
<1> QED
  BY <1>1, <1>2, <1>3, <1>4

\* The calls that save the user they have loaded.
LEMMA SaveSteps ==
    ASSUME Inv, NEW c \in Calls, NEW p \in People,
           BeginChange(c, p) \/ BeginUpdate(c, p) \/ SaveUser(c)
    PROVE  Inv'
<1>o. Onward
  BY DEF Onward, BeginChange, BeginUpdate, SaveUser, session
<1>t. TypeOK /\ CallOK(c) /\ call[c] \in CallRow
  BY DEF Inv, CallsOK, TypeOK
<1>1. CASE BeginChange(c, p)
  <2>1. PICK new \in Passwords :
            /\ call' = [call EXCEPT ![c] = [NoCall EXCEPT !.pc = "save", !.kind = "change",
                           !.who = {p}, !.row = [users[p] EXCEPT !.hash = Plain(new)],
                           !.password = {new}]]
            /\ given' = [given EXCEPT ![p] = @ \cup {new}]
    BY <1>1 DEF BeginChange
  <2>2. [users[p] EXCEPT !.hash = Plain(new)] \in User
    BY <1>1, <1>t, UserThere, PlainType DEF BeginChange, Signed, User
  <2>3. CallsOK' /\ call' \in [Calls -> CallRow]
    <3> DEFINE loaded == [users[p] EXCEPT !.hash = Plain(new)]
               r == [NoCall EXCEPT !.pc = "save", !.kind = "change", !.who = {p},
                                   !.row = loaded, !.password = {new}]
    <3>1. loaded \in User
      BY <2>2
    <3>2. call' = [call EXCEPT ![c] = r]
      BY <2>1
    <3> HIDE DEF loaded
    <3>3. /\ r \in CallRow /\ r.pc = "save" /\ r.who = {p}
          /\ r.row = loaded /\ r.kind = "change"
      BY <3>1 DEF NoCall, CallRow
    <3> HIDE DEF r
    <3> QED
      BY <1>o, <3>1, <3>2, <3>3, BeginOK
  <2>4. given' \in [People -> SUBSET Passwords]
    BY <1>t, <2>1 DEF TypeOK
  <2> QED
    BY <1>1, <1>t, <2>3, <2>4 DEF Inv, TypeOK, BeginChange, session
<1>2. CASE BeginUpdate(c, p)
  <2>1. users[p] \in User
    BY <1>2, <1>t, UserThere DEF BeginUpdate, Signed
  <2>2. CallsOK' /\ call' \in [Calls -> CallRow]
    <3> DEFINE r == [NoCall EXCEPT !.pc = "save", !.kind = "update", !.who = {p},
                                   !.row = users[p]]
    <3>1. /\ r \in CallRow /\ r.pc = "save" /\ r.who = {p}
          /\ r.row = users[p] /\ r.kind = "update"
      BY <2>1 DEF NoCall, CallRow
    <3>2. call' = [call EXCEPT ![c] = r]
      BY <1>2 DEF BeginUpdate
    <3> HIDE DEF r
    <3> QED
      BY <1>o, <2>1, <3>1, <3>2, BeginOK
  <2> QED
    BY <1>2, <1>t, <2>2 DEF Inv, TypeOK, BeginUpdate, session
<1>3. CASE SaveUser(c)
  <2>1. Who(c) \in People
    BY <1>3, <1>t, WhoType DEF SaveUser, CallOK
  <2>2. call[c].row \in User
    BY <1>3, <1>t DEF SaveUser, CallOK, SavesUser
  <2>3. hashPassword(call[c].row.hash) \in Hashes
    BY <2>2, HashType DEF User
  <2>4. [call[c].row EXCEPT !.hash = hashPassword(@)] \in User
    BY <2>2, <2>3 DEF User
  <2>5. /\ users' \in [People -> User \cup {NoUser}]
        /\ given' \in [People -> SUBSET Passwords]
    BY <1>3, <1>t, <2>1, <2>4 DEF SaveUser, TypeOK, CallRow
  <2>6. CallsOK' /\ call' \in [Calls -> CallRow]
    BY <1>3, <1>o, ReturnOK DEF SaveUser
  <2> QED
    BY <1>3, <1>t, <2>5, <2>6 DEF Inv, TypeOK, SaveUser, session
<1> QED
  BY <1>1, <1>2, <1>3

\* Deletion.
LEMMA DeleteSteps ==
    ASSUME Inv, NEW c \in Calls, NEW p \in People,
           BeginDelete(c, p) \/ RecordDeleted(c) \/ RemoveUser(c)
    PROVE  Inv'
<1>t. TypeOK /\ CallOK(c) /\ call[c] \in CallRow
  BY DEF Inv, CallsOK, TypeOK
<1>1. CASE BeginDelete(c, p)
  <2>1. Onward
    BY <1>1 DEF Onward, BeginDelete, session
  <2>2. CallsOK' /\ call' \in [Calls -> CallRow]
    BY <1>1, <2>1, BeginsOK DEF BeginDelete
  <2> QED
    BY <1>1, <1>t, <2>2 DEF Inv, TypeOK, BeginDelete, session
<1>2. CASE RecordDeleted(c)
  <2>1. Who(c) \in People /\ call[c].who = {Who(c)}
    BY <1>2, <1>t, WhoType DEF RecordDeleted, CallOK
  <2>2. deleted' = [deleted EXCEPT ![Who(c)] = TRUE] /\ deleted \in [People -> BOOLEAN]
    BY <1>2, <1>t DEF RecordDeleted, TypeOK
  <2>3. deleted' \in [People -> BOOLEAN] /\ deleted'[Who(c)]
        /\ \A q \in People : deleted[q] => deleted'[q]
    BY <2>1, <2>2
  <2>4. Onward
    BY <1>2, <2>3 DEF Onward, RecordDeleted, session
  <2>5. CallsOK' /\ call' \in [Calls -> CallRow]
    BY <1>2, <2>1, <2>3, <2>4, GoOK DEF RecordDeleted
  <2> QED
    BY <1>2, <1>t, <2>3, <2>5 DEF Inv, TypeOK, RecordDeleted, session
<1>3. CASE RemoveUser(c)
  <2>1. Who(c) \in People
    BY <1>3, <1>t, WhoType DEF RemoveUser, CallOK
  <2>2. Onward
    BY <1>3 DEF Onward, RemoveUser, session
  <2>3. CallsOK' /\ call' \in [Calls -> CallRow]
    BY <1>3, <2>2, ReturnOK DEF RemoveUser
  <2>4. users' \in [People -> User \cup {NoUser}] /\ roles' \subseteq People
    BY <1>3, <1>t, <2>1 DEF RemoveUser, TypeOK
  <2> QED
    BY <1>3, <1>t, <2>3, <2>4 DEF Inv, TypeOK, RemoveUser, session
<1> QED
  BY <1>1, <1>2, <1>3

\* The operations that are one step and no call.
LEMMA PersonSteps ==
    ASSUME Inv, NEW p \in People,
           VerifyOtp(p) \/ Expire(p) \/ Login(p) \/ RefreshToken(p) \/ ResetPassword(p)
    PROVE  Inv'
<1>o. Onward
  BY DEF Onward, VerifyOtp, Expire, Login, RefreshToken, Issue, ResetPassword, session
<1>t. TypeOK
  BY DEF Inv
<1>1. CASE VerifyOtp(p)
  <2>1. users[p] \in User
    BY <1>1, <1>t, UserThere DEF VerifyOtp
  <2>2. users' \in [People -> User \cup {NoUser}]
    BY <1>1, <1>t, <2>1 DEF VerifyOtp, TypeOK, User
  <2>3. CallsOK'
    BY <1>1, <1>o, NoneMoves DEF VerifyOtp
  <2>4. issued' \in [Tokens -> SUBSET People] /\ invalid' = invalid
    BY <1>1, <1>t, IssueOK DEF VerifyOtp, session, TypeOK
  <2> QED
    BY <1>1, <1>t, <2>2, <2>3, <2>4 DEF Inv, TypeOK, VerifyOtp
<1>2. CASE Expire(p)
  <2>1. users[p] \in User
    BY <1>2, <1>t, UserThere DEF Expire
  <2>2. users' \in [People -> User \cup {NoUser}]
    BY <1>2, <1>t, <2>1 DEF Expire, TypeOK, User
  <2>3. CallsOK'
    BY <1>2, <1>o, NoneMoves DEF Expire
  <2> QED
    BY <1>2, <1>t, <2>2, <2>3 DEF Inv, TypeOK, Expire, session
<1>3. CASE Login(p) \/ RefreshToken(p)
  <2>1. issued' \in [Tokens -> SUBSET People] /\ invalid' = invalid
    BY <1>3, <1>t, IssueOK DEF Login, RefreshToken
  <2>2. UNCHANGED <<users, roles, deleted, inbox, given, call, solo, faults>>
    BY <1>3 DEF Login, RefreshToken
  <2>3. CallsOK'
    BY <1>o, <2>2, NoneMoves
  <2> QED
    BY <1>t, <2>1, <2>2, <2>3 DEF Inv, TypeOK
<1>4. CASE ResetPassword(p)
  <2>1. users[p] \in User
    BY <1>4, <1>t, UserThere DEF ResetPassword
  <2>2. PICK w \in Passwords :
            /\ users' = [users EXCEPT ![p].hash = [plain |-> w, times |-> 1]]
            /\ given' = [given EXCEPT ![p] = {w}]
    BY <1>4 DEF ResetPassword
  <2>3. [plain |-> w, times |-> 1] \in Hashes
    BY DEF Hashes
  <2>4. /\ users' \in [People -> User \cup {NoUser}]
        /\ given' \in [People -> SUBSET Passwords]
    BY <1>t, <2>1, <2>2, <2>3 DEF TypeOK, User
  <2>5. CallsOK'
    BY <1>4, <1>o, NoneMoves DEF ResetPassword
  <2> QED
    BY <1>4, <1>t, <2>4, <2>5 DEF Inv, TypeOK, ResetPassword, session
<1> QED
  BY <1>1, <1>2, <1>3, <1>4

\* A log-out goes on after a failed query, and has lost its token.
LEMMA FailLogoutOK ==
    ASSUME Inv, Onward, NEW c \in Calls, FailLogout(c)
    PROVE  CallsOK' /\ call' \in [Calls -> CallRow]
<1>t. CallOK(c) /\ call[c] \in CallRow /\ call \in [Calls -> CallRow]
  BY DEF Inv, CallsOK, TypeOK
<1>1. PICK kind \in {"access", "refresh"}, step \in {"putRefresh", "reply"} :
          /\ Loses(c, kind, step)
          /\ \/ call[c].pc = "putAccess" /\ kind = "access" /\ step = AfterAccess(c)
             \/ call[c].pc = "putRefresh" /\ kind = "refresh" /\ step = "reply"
  BY DEF FailLogout, AfterAccess
<1> DEFINE lost == call[c].lost \cup Passed(c, kind)
<1>2. /\ lost \in SUBSET (Tokens \X {"access", "refresh"})
      /\ call' = [call EXCEPT ![c].pc = step, ![c].lost = lost]
      /\ call[c].pc # "idle"
  BY <1>t, <1>1, TwoKinds DEF Loses, CallRow
<1>3. /\ step = "putRefresh" => Passed(c, "access") \ lost \subseteq invalid'
      /\ step = "reply" => call[c].passed \ lost \subseteq invalid'
  BY <1>t, <1>1, TwoKinds DEF CallOK, LoggingOut, AfterAccess, Onward
<1> HIDE DEF lost
<1> QED
  BY <1>2, <1>3, LogoutOK

\* Failed queries and mails, and crashes.
LEMMA FaultSteps ==
    ASSUME Inv, (\E c \in Calls : FailCall(c)) \/ Crash
    PROVE  Inv'
<1>t. TypeOK /\ faults' = faults + 1 /\ faults \in 0..MaxFaults /\ faults < MaxFaults
  BY DEF Inv, TypeOK, FailCall, Crash, MayFail
<1>f. faults' \in 0..MaxFaults /\ faults' # 0
  BY <1>t, FaultsAssumption
<1>o. Onward
  BY <1>f DEF Onward, FailCall, Crash, session
<1>1. ASSUME NEW c \in Calls, FailCall(c) PROVE Inv'
  <2>1. CallsOK' /\ call' \in [Calls -> CallRow]
    <3>1. CASE Returns(c)
      BY <1>o, <3>1, ReturnOK
    <3>2. CASE FailLogout(c)
      BY <1>o, <3>2, FailLogoutOK
    <3> QED
      BY <1>1, <3>1, <3>2 DEF FailCall
  <2> QED
    BY <1>1, <1>t, <1>f, <2>1 DEF Inv, TypeOK, FailCall, session
<1>2. CASE Crash
  <2>1. call' = [c \in Calls |-> NoCall]
    BY <1>2 DEF Crash
  <2>2. call' \in [Calls -> CallRow]
    BY <2>1, NoCallType
  <2>3. CallsOK'
    BY <2>1, NoCallType DEF CallsOK, CallOK, OneWho, SavesUser, Recorded, LoggingOut
  <2> QED
    BY <1>2, <1>t, <1>f, <2>2, <2>3 DEF Inv, TypeOK, Crash, session
<1> QED
  BY <1>1, <1>2

\* Every step keeps the invariant.
LEMMA NextInv == Inv /\ [Next]_vars => Inv'
<1> SUFFICES ASSUME Inv, [Next]_vars PROVE Inv'
  OBVIOUS
<1>1. CASE UNCHANGED vars \/ \E p \in People : RefuseDeleted(p)
  <2>1. UNCHANGED vars
    BY <1>1 DEF RefuseDeleted
  <2>2. CallsOK'
    BY <2>1, NoneMoves DEF vars, Onward
  <2> QED
    BY <2>1, <2>2 DEF Inv, TypeOK, vars
<1>2. ASSUME NEW c \in Calls, NEW p \in People,
             \/ BeginRegister(c, p) \/ BeginResend(c, p) \/ BeginLogout(c, p)
             \/ BeginChange(c, p) \/ BeginUpdate(c, p) \/ BeginDelete(c, p)
      PROVE  Inv'
  BY <1>2, RegisterSteps, SessionSteps, SaveSteps, DeleteSteps
<1>3. ASSUME NEW c \in Calls, CallStep(c) PROVE Inv'
  <2>1. call[c].pc # "idle" /\ OneWho(c)
    BY <1>3 DEF Inv, CallsOK, CallOK, CallStep, InsertUser, InsertRole, SendMail, StoreCode,
       PutAccess, PutRefresh, ReplyLogout, SaveUser, RecordDeleted, RemoveUser
  <2>2. PICK p \in People : call[c].who = {p}
    BY <2>1 DEF OneWho
  <2> QED
    BY <1>3, <2>2, RegisterSteps, SessionSteps, SaveSteps, DeleteSteps DEF CallStep
<1> QED
  BY <1>1, <1>2, <1>3, PersonSteps, FaultSteps DEF Next

-----------------------------------------------------------------------------
(* Theorems *)

LEMMA Invariance == Spec => []Inv
BY InitInv, NextInv, PTL DEF Spec

\* Type correctness, for any numbers of people, tokens, overlapping calls and faults.
\* (auth.service.ts, the columns of user.entity.ts)
THEOREM AccountsTyped == Spec => []TypeOK
<1>1. Inv => TypeOK
  BY DEF Inv
<1> QED
  BY <1>1, Invariance, PTL

\* Only the removal at the end of a deletion takes a row away.
LEMMA OnlyRemoval ==
    ASSUME Inv, [Next]_vars, NEW p \in People, users[p] # NoUser, users'[p] = NoUser
    PROVE  \E c \in Calls : RemoveUser(c) /\ Who(c) = p
<1>t. TypeOK /\ users[p] \in User /\ NoUser \notin User
  BY NoUserType, UserThere DEF Inv
<1>i. Inv'
  BY NextInv
<1>u. users' \in [People -> User \cup {NoUser}] /\ users \in [People -> User \cup {NoUser}]
  BY <1>i DEF Inv, TypeOK
<1>n. users' # users
  OBVIOUS
<1>1. ASSUME NEW c \in Calls, InsertUser(c) PROVE FALSE
  <2>1. call[c] \in CallRow /\ OneWho(c)
    BY DEF Inv, TypeOK, CallsOK, CallOK
  <2>2. Who(c) \in People
    BY <1>1, <2>1, WhoType DEF InsertUser
  <2>3. PICK k \in Codes, w \in call[c].password :
            users' = [users EXCEPT ![Who(c)] =
                        [verified |-> FALSE, otp |-> k, fresh |-> TRUE,
                         hash |-> hashPassword(Plain(w))]]
    BY <1>1, <1>n DEF InsertUser
  <2>4. hashPassword(Plain(w)) \in Hashes
    BY <2>1, HashType, PlainType DEF CallRow
  <2>5. [verified |-> FALSE, otp |-> k, fresh |-> TRUE, hash |-> hashPassword(Plain(w))] \in User
    BY <2>4 DEF User
  <2>6. users'[p] = users[p] \/ users'[p] \in User
    BY <1>u, <2>2, <2>3, <2>5
  <2> QED
    BY <1>t, <2>6
<1>2. ASSUME NEW c \in Calls, StoreCode(c) PROVE FALSE
  <2>1. Who(c) \in People
    BY <1>2, WhoType DEF StoreCode, Inv, CallsOK, CallOK
  <2>2. PICK k \in Codes :
            users' = [users EXCEPT ![Who(c)].otp = k, ![Who(c)].fresh = TRUE]
    BY <1>2, <1>n DEF StoreCode
  <2>3. CASE Who(c) = p
    <3>1. users'[p] = [users[p] EXCEPT !.otp = k, !.fresh = TRUE]
      BY <1>u, <2>2, <2>3
    <3>2. users'[p] \in User
      BY <1>t, <3>1 DEF User
    <3> QED
      BY <1>t, <3>2
  <2>4. CASE Who(c) # p
    BY <1>u, <2>1, <2>2, <2>4
  <2> QED
    BY <2>3, <2>4
<1>3. ASSUME NEW q \in People, VerifyOtp(q) \/ Expire(q) \/ ResetPassword(q) PROVE FALSE
  <2>1. CASE q = p
    <3>1. CASE VerifyOtp(q)
      <4>1. users'[p] = [users[p] EXCEPT !.verified = TRUE, !.otp = NoCode, !.fresh = FALSE]
        BY <1>u, <2>1, <3>1 DEF VerifyOtp
      <4>2. users'[p] \in User
        BY <1>t, <4>1 DEF User
      <4> QED
        BY <1>t, <4>2
    <3>2. CASE Expire(q)
      <4>1. users'[p] = [users[p] EXCEPT !.fresh = FALSE]
        BY <1>u, <2>1, <3>2 DEF Expire
      <4>2. users'[p] \in User
        BY <1>t, <4>1 DEF User
      <4> QED
        BY <1>t, <4>2
    <3>3. CASE ResetPassword(q)
      <4>1. PICK w \in Passwords :
                users' = [users EXCEPT ![p].hash = [plain |-> w, times |-> 1]]
        BY <2>1, <3>3 DEF ResetPassword
      <4>2. [plain |-> w, times |-> 1] \in Hashes
        BY DEF Hashes
      <4>3. users'[p] \in User
        BY <1>t, <1>u, <4>1, <4>2 DEF User
      <4> QED
        BY <1>t, <4>3
    <3> QED
      BY <1>3, <3>1, <3>2, <3>3
  <2>2. CASE q # p
    BY <1>3, <1>u, <2>2 DEF VerifyOtp, Expire, ResetPassword
  <2> QED
    BY <2>1, <2>2
<1>4. ASSUME NEW c \in Calls, SaveUser(c) PROVE FALSE
  <2>1. Who(c) \in People /\ call[c].row \in User
    BY <1>4, WhoType DEF SaveUser, Inv, CallsOK, CallOK, SavesUser
  <2>2. hashPassword(call[c].row.hash) \in Hashes
    BY <2>1, HashType DEF User
  <2>3. [call[c].row EXCEPT !.hash = hashPassword(@)] \in User
    BY <2>1, <2>2 DEF User
  <2>4. users'[p] = users[p] \/ users'[p] \in User
    BY <1>4, <1>u, <2>1, <2>3 DEF SaveUser
  <2> QED
    BY <1>t, <2>4
<1>5. ASSUME NEW c \in Calls, RemoveUser(c) PROVE Who(c) = p
  BY <1>5, <1>u DEF RemoveUser
<1>6. \/ \E c \in Calls : \/ InsertUser(c) \/ StoreCode(c) \/ SaveUser(c) \/ RemoveUser(c)
      \/ \E q \in People : \/ VerifyOtp(q) \/ Expire(q) \/ ResetPassword(q)
  BY <1>n DEF Next, CallStep, vars, session, BeginRegister, BeginResend, BeginLogout,
     BeginChange, BeginUpdate, BeginDelete, InsertRole, SendMail, PutAccess, PutRefresh, ReplyLogout,
     RecordDeleted, FailCall, Crash, Login, RefreshToken, RefuseDeleted
<1> QED
  BY <1>1, <1>2, <1>3, <1>4, <1>5, <1>6

\* An account is recorded in deleted_users before its row is removed, whatever
\* overlaps and fails.  (auth.service.ts:291-306)
THEOREM AccountsRecordedFirst == Spec => RecordedFirst
<1>1. Inv /\ [Next]_vars =>
        [\A p \in People : users[p] # NoUser /\ users'[p] = NoUser => deleted[p]]_vars
  <2> SUFFICES ASSUME Inv, [Next]_vars, NEW p \in People,
                      users[p] # NoUser, users'[p] = NoUser
               PROVE  deleted[p]
    OBVIOUS
  <2>1. PICK c \in Calls : RemoveUser(c) /\ Who(c) = p
    BY OnlyRemoval
  <2>2. CallOK(c) /\ call[c].pc = "remove"
    BY <2>1 DEF RemoveUser, Inv, CallsOK
  <2>3. call[c].who = {p}
    BY <2>1, <2>2, WhoType DEF CallOK
  <2> QED
    BY <2>2, <2>3 DEF CallOK, Recorded
<1> QED
  BY <1>1, Invariance, PTL DEF Spec, RecordedFirst

\* Invalidated tokens stay invalidated.
LEMMA InvalidStays == [Next]_vars => invalid \subseteq invalid'
BY DEF Next, CallStep, vars, session, BeginRegister, BeginResend, BeginLogout, BeginChange,
   BeginUpdate, BeginDelete, InsertUser, InsertRole, SendMail, StoreCode, PutAccess,
   PutRefresh, ReplyLogout, SaveUser, RecordDeleted, RemoveUser, FailCall, Crash, VerifyOtp, Expire,
   Login, RefreshToken, Issue, ResetPassword, RefuseDeleted

\* A log-out that is answered has invalidated every token passed to it but those
\* whose query, or the lookup before both, has failed, and nothing takes that back.
\* (auth.service.ts:384-448)
THEOREM AccountsLogoutSticks == Spec => LogoutSticks
<1>1. Inv /\ [Next]_vars =>
        [/\ invalid \subseteq invalid'
         /\ \A c \in Calls :
              call[c].pc = "reply" => call[c].passed \ call[c].lost \subseteq invalid]_vars
  BY InvalidStays DEF Inv, CallsOK, CallOK, LoggingOut
<1> QED
  BY <1>1, Invariance, PTL DEF Spec, LogoutSticks

-----------------------------------------------------------------------------
(* Calls that do not overlap *)

Alone(c) == \A d \in Calls : d # c => call[d] = NoCall

\* What a call in progress relies on: nobody has recorded the address it registers,
\* the password it registers is that of the row it has inserted, and the user it
\* saves is still there, with a password that will be given.
Inserts(c, p) ==
    call[c].pc = "insert" => ~deleted[p] /\ \E w \in given[p] : call[c].password = {w}

Registers(c, p) ==
    call[c].pc \in {"role", "mail"} /\ call[c].kind = "register" =>
        \E w \in Passwords : call[c].password = {w} /\ HashOf(users[p].hash, w)

Saves(c, p) ==
    call[c].pc = "save" =>
        /\ users[p] # NoUser
        /\ \E w \in Passwords :
              /\ HashOf(hashPassword(call[c].row.hash), w)
              /\ IF call[c].kind = "change" THEN call[c].password = {w} ELSE w \in given[p]

SoloCall(c) ==
    /\ call[c].pc = "code" => call[c].kind # "register"
    /\ \A p \in call[c].who : Inserts(c, p) /\ Registers(c, p) /\ Saves(c, p)

GoodHash(p) == users[p] # NoUser => \E w \in given[p] : HashOf(users[p].hash, w)

SoloInv ==
    solo => /\ \A c \in InProgress : Alone(c)
            /\ \A c \in Calls : SoloCall(c)
            /\ \A p \in People : GoodHash(p)

\* A call that has returned relies on nothing.
LEMMA NoneRelies ==
    ASSUME NEW c \in Calls, call[c] = NoCall PROVE SoloCall(c)
BY DEF SoloCall, Inserts, Registers, Saves, NoCall

\* After a step of the only call.
LEMMA SoloStep ==
    ASSUME NEW c \in Calls, SoloInv, solo, solo' = solo,
           call[c] = NoCall => InProgress = {},
           \A d \in Calls : d # c => call'[d] = call[d],
           SoloCall(c)', \A p \in People : GoodHash(p)'
    PROVE  SoloInv'
<1>1. Alone(c)
  BY DEF SoloInv, InProgress, Alone
<1>2. Alone(c)'
  BY <1>1 DEF Alone
<1>3. \A d \in InProgress' : Alone(d)'
  BY <1>2 DEF InProgress, Alone
<1>4. \A d \in Calls : d # c => SoloCall(d)'
  BY <1>2 DEF Alone, SoloCall, Inserts, Registers, Saves, NoCall
<1> QED
  BY <1>3, <1>4 DEF SoloInv

\* The person's passwords are as good as they were.
LEMMA HashKept ==
    ASSUME NEW p \in People, GoodHash(p), given[p] \subseteq given'[p],
           users'[p] # NoUser => users[p] # NoUser /\ users'[p].hash = users[p].hash
    PROVE  GoodHash(p)'
BY DEF GoodHash

\* No call moves, and who is there stays with the same password.
LEMMA SoloStill ==
    ASSUME SoloInv, Inv, call' = call, solo' = solo, deleted' = deleted, given' = given,
           \A p \in People : /\ users[p] # NoUser <=> users'[p] # NoUser
                             /\ users'[p].hash = users[p].hash
    PROVE  SoloInv'
<1> SUFFICES ASSUME solo PROVE SoloInv'
  BY DEF SoloInv
<1>1. \A p \in People : GoodHash(p)'
  BY HashKept DEF SoloInv
<1>2. ASSUME NEW c \in Calls PROVE SoloCall(c)'
  <2>1. call[c].who \subseteq People
    BY DEF Inv, TypeOK, CallRow
  <2> SUFFICES ASSUME NEW p \in call[c].who
               PROVE  Inserts(c, p)' /\ Registers(c, p)' /\ Saves(c, p)'
    BY DEF SoloInv, SoloCall
  <2>2. p \in People /\ Inserts(c, p) /\ Registers(c, p) /\ Saves(c, p)
    BY <2>1 DEF SoloInv, SoloCall
  <2> QED
    BY <2>2 DEF Inserts, Registers, Saves
<1>3. \A c \in InProgress' : Alone(c)'
  BY DEF SoloInv, InProgress, Alone
<1> QED
  BY <1>1, <1>2, <1>3 DEF SoloInv

\* A call begins.
LEMMA SoloBegin ==
    ASSUME Inv, SoloInv, NEW c \in Calls, NEW p \in People,
           \/ BeginRegister(c, p) \/ BeginResend(c, p) \/ BeginLogout(c, p)
           \/ BeginChange(c, p) \/ BeginUpdate(c, p) \/ BeginDelete(c, p)
    PROVE  SoloInv'
<1>1. /\ solo' = solo /\ users' = users /\ deleted' = deleted
      /\ call[c] = NoCall /\ (solo => InProgress = {})
      /\ \A d \in Calls : d # c => call'[d] = call[d]
  BY DEF BeginRegister, BeginResend, BeginLogout, BeginChange, BeginUpdate, BeginDelete,
     Begins, MayBegin, Inv, TypeOK
<1> SUFFICES ASSUME solo PROVE SoloInv'
  BY <1>1 DEF SoloInv
<1>2. \A q \in People : given[q] \subseteq given'[q]
  <2>1. ASSUME NEW w, given' = [given EXCEPT ![p] = @ \cup {w}]
        PROVE  \A q \in People : given[q] \subseteq given'[q]
    BY <2>1 DEF Inv, TypeOK
  <2>2. CASE given' = given
    BY <2>2
  <2> QED
    BY <2>1, <2>2 DEF BeginRegister, BeginResend, BeginLogout, BeginChange, BeginUpdate,
       BeginDelete
<1>3. \A q \in People : GoodHash(q)'
  BY <1>1, <1>2, HashKept DEF SoloInv
<1>4. SoloCall(c)'
  <2>1. CASE BeginRegister(c, p)
    <3>1. PICK w \in Passwords :
            /\ call' = [call EXCEPT ![c] = [NoCall EXCEPT !.pc = "insert",
                            !.kind = "register", !.who = {p}, !.password = {w}]]
            /\ given' = [given EXCEPT ![p] = @ \cup {w}]
      BY <2>1 DEF BeginRegister
    <3>2. /\ call'[c].pc = "insert" /\ call'[c].who = {p} /\ call'[c].password = {w}
          /\ w \in given'[p]
      BY <3>1 DEF Inv, TypeOK, NoCall
    <3>3. ~deleted'[p]
      BY <1>1, <2>1 DEF BeginRegister, FreeEmail
    <3> QED
      BY <3>2, <3>3 DEF SoloCall, Inserts, Registers, Saves
  <2>2. CASE BeginChange(c, p)
    <3>1. PICK new \in Passwords :
            call' = [call EXCEPT ![c] = [NoCall EXCEPT !.pc = "save", !.kind = "change",
                        !.who = {p}, !.row = [users[p] EXCEPT !.hash = Plain(new)],
                        !.password = {new}]]
      BY <2>2 DEF BeginChange
    <3>2. users[p] # NoUser /\ users[p] \in User
      BY <2>2, UserThere DEF BeginChange, Signed, Inv
    <3>3. /\ call'[c].pc = "save" /\ call'[c].who = {p} /\ call'[c].password = {new}
          /\ call'[c].kind = "change" /\ call'[c].row.hash = Plain(new)
      BY <3>1, <3>2 DEF Inv, TypeOK, NoCall, User
    <3>4. HashOf(hashPassword(Plain(new)), new)
      BY PlainHashed
    <3> QED
      BY <1>1, <3>2, <3>3, <3>4 DEF SoloCall, Inserts, Registers, Saves
  <2>3. CASE BeginUpdate(c, p)
    <3>1. call' = [call EXCEPT ![c] = [NoCall EXCEPT !.pc = "save", !.kind = "update",
                                                     !.who = {p}, !.row = users[p]]]
      BY <2>3 DEF BeginUpdate
    <3>2. users[p] # NoUser
      BY <2>3 DEF BeginUpdate, Signed
    <3>3. /\ call'[c].pc = "save" /\ call'[c].who = {p}
          /\ call'[c].kind = "update" /\ call'[c].row = users[p]
      BY <3>1 DEF Inv, TypeOK, NoCall
    <3>4. PICK w \in given[p] : HashOf(users[p].hash, w)
      BY <3>2 DEF SoloInv, GoodHash
    <3>5. w \in Passwords /\ HashOf(hashPassword(users[p].hash), w)
      BY <3>4, HashStays DEF Inv, TypeOK
    <3> QED
      BY <1>1, <1>2, <3>2, <3>3, <3>4, <3>5 DEF SoloCall, Inserts, Registers, Saves
  <2>4. CASE BeginResend(c, p) \/ BeginLogout(c, p) \/ BeginDelete(c, p)
    <3>1. /\ call'[c].pc \in {"code", "putAccess", "reply", "record"}
          /\ call'[c].kind # "register"
      <4>1. ASSUME NEW step \in {"code", "record"}, NEW kind \in {"resend", "delete"},
                   Begins(c, step, kind, p)
            PROVE  call'[c].pc = step /\ call'[c].kind = kind
        BY <4>1 DEF Begins, NoCall, Inv, TypeOK
      <4>2. CASE BeginLogout(c, p)
        <5>1. PICK r \in CallRow : BeginsLogout(c, p, r)
          BY <4>2, LogoutRow DEF Inv
        <5> QED
          BY <5>1 DEF BeginsLogout, Inv, TypeOK
      <4>3. CASE BeginResend(c, p) \/ BeginDelete(c, p)
        BY <4>1, <4>3 DEF BeginResend, BeginDelete
      <4> QED
        BY <2>4, <4>2, <4>3
    <3> QED
      BY <3>1 DEF SoloCall, Inserts, Registers, Saves
  <2> QED
    BY <2>1, <2>2, <2>3, <2>4
<1> QED
  BY <1>1, <1>3, <1>4, SoloStep

\* A call goes on or returns, and touches nobody's password.
LEMMA SoloGoes ==
    ASSUME Inv, SoloInv, NEW c \in Calls,
           \/ InsertRole(c) \/ PutAccess(c) \/ PutRefresh(c) \/ ReplyLogout(c)
           \/ RecordDeleted(c) \/ FailCall(c)
    PROVE  SoloInv'
<1>1. /\ solo' = solo /\ users' = users /\ given' = given /\ call[c] # NoCall
      /\ call[c] \in CallRow
      /\ \A d \in Calls : d # c => call'[d] = call[d]
  BY DEF InsertRole, PutAccess, PutRefresh, ReplyLogout, RecordDeleted, FailCall, FailLogout,
     Loses, InProgress, NoCall, Returns, GoesTo, Inv, TypeOK
<1> SUFFICES ASSUME solo PROVE SoloInv'
  BY <1>1 DEF SoloInv
<1>2. \A q \in People : GoodHash(q)'
  BY <1>1, HashKept DEF SoloInv
<1>3. SoloCall(c)'
  <2>1. CASE call'[c] = NoCall
    BY <2>1 DEF SoloCall, Inserts, Registers, Saves, NoCall
  <2>2. CASE InsertRole(c)
    <3>1. /\ call'[c].pc = "mail" /\ call[c].pc = "role" /\ call'[c].who = call[c].who
          /\ call'[c].kind = call[c].kind /\ call'[c].password = call[c].password
      BY <1>1, <2>2 DEF InsertRole, GoesTo, Inv, TypeOK, CallRow
    <3> QED
      BY <1>1, <3>1 DEF SoloInv, SoloCall, Inserts, Registers, Saves
  <2>3. CASE call'[c] # NoCall /\ ~InsertRole(c)
    <3>1. call'[c].pc \in {"putRefresh", "reply", "remove"}
      BY <1>1, <2>3 DEF PutAccess, PutRefresh, ReplyLogout, RecordDeleted, FailCall,
         FailLogout, Loses, AfterAccess, Returns, GoesTo, Inv, TypeOK, CallRow
    <3> QED
      BY <3>1 DEF SoloCall, Inserts, Registers, Saves
  <2> QED
    BY <2>1, <2>2, <2>3
<1> QED
  BY <1>1, <1>2, <1>3, SoloStep

\* The steps that write a user.
LEMMA SoloWrites ==
    ASSUME Inv, SoloInv, NEW c \in Calls,
           InsertUser(c) \/ SendMail(c) \/ StoreCode(c) \/ SaveUser(c) \/ RemoveUser(c)
    PROVE  SoloInv'
<1>1. /\ solo' = solo /\ call[c] # NoCall /\ call[c].pc # "idle" /\ deleted' = deleted
      /\ call[c] \in CallRow /\ TypeOK /\ OneWho(c)
      /\ \A d \in Calls : d # c => call'[d] = call[d]
  <2>1. call[c].pc # "idle" /\ solo' = solo /\ deleted' = deleted
    BY DEF InsertUser, SendMail, StoreCode, SaveUser, RemoveUser
  <2>2. call[c] \in CallRow /\ TypeOK /\ OneWho(c)
    BY DEF Inv, TypeOK, CallsOK, CallOK
  <2>3. \E r : call' = [call EXCEPT ![c] = r]
    BY DEF InsertUser, SendMail, StoreCode, SaveUser, RemoveUser, Returns
  <2> QED
    BY <2>1, <2>2, <2>3, NoCallType DEF TypeOK
<1> SUFFICES ASSUME solo PROVE SoloInv'
  BY <1>1 DEF SoloInv
<1> DEFINE me == Who(c)
<1>2. me \in People /\ call[c].who = {me}
  BY <1>1, WhoType
<1>3. Returns(c) => SoloCall(c)'
  BY <1>1 DEF Returns, SoloCall, Inserts, Registers, Saves, NoCall, TypeOK
<1>4. SoloCall(c) /\ \A q \in People : GoodHash(q)
  BY DEF SoloInv
<1> SUFFICES SoloCall(c)' /\ \A q \in People : GoodHash(q)'
  BY <1>1, SoloStep
<1>5. CASE InsertUser(c)
  <2>1. CASE users[me] # NoUser
    BY <1>3, <1>4, <1>5, <2>1, HashKept DEF InsertUser
  <2>2. CASE users[me] = NoUser
    <3>1. PICK k \in Codes, w \in call[c].password :
            /\ users' = [users EXCEPT ![me] =
                           [verified |-> FALSE, otp |-> k, fresh |-> TRUE,
                            hash |-> hashPassword(Plain(w))]]
            /\ call' = [call EXCEPT ![c].pc = "role", ![c].code = k]
      BY <1>5, <2>2 DEF InsertUser
    <3>2. call[c].password = {w} /\ w \in given[me] /\ w \in Passwords
      <4>1. call[c].pc = "insert" /\ Inserts(c, me)
        BY <1>2, <1>4, <1>5 DEF InsertUser, SoloCall
      <4>2. PICK x \in given[me] : call[c].password = {x}
        BY <4>1 DEF Inserts
      <4>3. w = x
        BY <3>1, <4>2
      <4> QED
        BY <1>1, <1>2, <4>2, <4>3 DEF TypeOK
    <3>3. HashOf(users'[me].hash, w)
      BY <1>1, <1>2, <3>1, <3>2, PlainHashed DEF TypeOK
    <3>4. /\ call'[c].who = {me} /\ call'[c].password = {w} /\ call'[c].pc = "role"
      BY <1>1, <1>2, <3>1, <3>2 DEF TypeOK, CallRow
    <3>5. SoloCall(c)'
      BY <3>2, <3>3, <3>4 DEF SoloCall, Inserts, Registers, Saves
    <3>6. given' = given /\ \A q \in People : q # me => users'[q] = users[q]
      BY <1>1, <1>5, <3>1 DEF InsertUser, TypeOK
    <3>7. \A q \in People : GoodHash(q)'
      BY <1>4, <3>2, <3>3, <3>6 DEF GoodHash
    <3> QED
      BY <3>5, <3>7
  <2> QED
    BY <2>1, <2>2
<1>6. CASE SendMail(c)
  <2>1. Returns(c) /\ users' = users
    BY <1>6 DEF SendMail
  <2>2. CASE call[c].kind = "register"
    <3>1. PICK w \in Passwords : call[c].password = {w} /\ HashOf(users[me].hash, w)
      BY <1>2, <1>4, <1>6, <2>2 DEF SendMail, SoloCall, Registers
    <3>2. given' = [given EXCEPT ![me] = {w}]
      BY <1>6, <2>2, <3>1 DEF SendMail
    <3>3. \A q \in People : GoodHash(q)'
      BY <1>1, <1>2, <1>4, <2>1, <3>1, <3>2 DEF GoodHash, TypeOK
    <3> QED
      BY <1>3, <2>1, <3>3
  <2>3. CASE call[c].kind # "register"
    <3>1. given' = given
      BY <1>6, <2>3 DEF SendMail
    <3> QED
      BY <1>3, <1>4, <2>1, <3>1, HashKept
  <2> QED
    BY <2>2, <2>3
<1>7. CASE StoreCode(c)
  <2>1. PICK k \in Codes :
            /\ users' = IF users[me].verified \/ users[me] = NoUser THEN users
                        ELSE [users EXCEPT ![me].otp = k, ![me].fresh = TRUE]
            /\ call' = [call EXCEPT ![c].pc = "mail", ![c].code = k]
    BY <1>7 DEF StoreCode
  <2>2. \A q \in People : users'[q] # NoUser =>
            users[q] # NoUser /\ users'[q].hash = users[q].hash
    <3>1. CASE users' = users
      BY <3>1
    <3>2. CASE users' # users
      <4>1. users[me] # NoUser /\ users[me] \in User
        BY <1>1, <1>2, <2>1, <3>2, UserThere
      <4>2. users'[me].hash = users[me].hash
        BY <1>1, <1>2, <2>1, <3>2, <4>1 DEF TypeOK, User
      <4>3. \A q \in People : q # me => users'[q] = users[q]
        BY <1>1, <2>1, <3>2 DEF TypeOK
      <4> QED
        BY <4>1, <4>2, <4>3
    <3> QED
      BY <3>1, <3>2
  <2>3. given' = given
    BY <1>7 DEF StoreCode
  <2>4. \A q \in People : GoodHash(q)'
    BY <1>4, <2>2, <2>3, HashKept
  <2>5. SoloCall(c)'
    <3>1. call'[c].pc = "mail" /\ call'[c].kind # "register"
      <4>1. call[c].kind # "register"
        BY <1>4, <1>7 DEF StoreCode, SoloCall
      <4> QED
        BY <1>1, <2>1, <4>1 DEF TypeOK, CallRow
    <3> QED
      BY <3>1 DEF SoloCall, Inserts, Registers, Saves
  <2> QED
    BY <2>4, <2>5
<1>8. CASE SaveUser(c)
  <2>1. call[c].row \in User /\ Returns(c)
    BY <1>8 DEF SaveUser, Inv, CallsOK, CallOK, SavesUser
  <2>2. PICK w \in Passwords :
            /\ HashOf(hashPassword(call[c].row.hash), w)
            /\ IF call[c].kind = "change" THEN call[c].password = {w} ELSE w \in given[me]
    BY <1>2, <1>4, <1>8 DEF SaveUser, SoloCall, Saves
  <2>3. HashOf(users'[me].hash, w)
    <3>1. users'[me].hash = hashPassword(call[c].row.hash)
      BY <1>1, <1>2, <1>8, <2>1 DEF SaveUser, TypeOK, User
    <3> QED
      BY <2>2, <3>1
  <2>4. w \in given'[me]
    BY <1>1, <1>2, <1>8, <2>2 DEF SaveUser, TypeOK
  <2>5. \A q \in People : q # me => users'[q] = users[q] /\ given'[q] = given[q]
    BY <1>1, <1>8 DEF SaveUser, TypeOK
  <2>6. \A q \in People : GoodHash(q)'
    BY <1>4, <2>3, <2>4, <2>5 DEF GoodHash
  <2> QED
    BY <1>3, <2>1, <2>6
<1>9. CASE RemoveUser(c)
  <2>1. /\ Returns(c) /\ given' = given /\ users'[me] = NoUser
        /\ \A q \in People : q # me => users'[q] = users[q]
    BY <1>1, <1>2, <1>9 DEF RemoveUser, TypeOK
  <2>2. \A q \in People : GoodHash(q)'
    BY <1>4, <2>1 DEF GoodHash
  <2> QED
    BY <1>3, <2>1, <2>2
<1> QED
  BY <1>5, <1>6, <1>7, <1>8, <1>9

\* The operations that are one step, and crashes.
LEMMA SoloOthers ==
    ASSUME Inv, SoloInv,
           \/ \E p \in People : \/ VerifyOtp(p) \/ Expire(p) \/ Login(p)
                                \/ RefreshToken(p) \/ ResetPassword(p) \/ RefuseDeleted(p)
           \/ Crash \/ UNCHANGED vars
    PROVE  SoloInv'
<1>1. CASE Crash
  <2>1. \A c \in Calls : call'[c] = NoCall
    BY <1>1 DEF Crash
  <2>2. \A c \in Calls : SoloCall(c)'
    BY <2>1 DEF SoloCall, Inserts, Registers, Saves, NoCall
  <2>3. users' = users /\ given' = given /\ solo' = solo
    BY <1>1 DEF Crash
  <2>4. solo => \A p \in People : GoodHash(p)'
    BY <2>3, HashKept DEF SoloInv
  <2> QED
    BY <2>1, <2>2, <2>3, <2>4 DEF SoloInv, InProgress
<1>2. ASSUME NEW p \in People, VerifyOtp(p) \/ Expire(p) PROVE SoloInv'
  <2>1. users[p] # NoUser /\ users[p] \in User
    BY <1>2, UserThere DEF VerifyOtp, Expire, Inv
  <2>2. users'[p] \in User /\ users'[p].hash = users[p].hash
    <3>1. CASE VerifyOtp(p)
      <4>1. users'[p] = [users[p] EXCEPT !.verified = TRUE, !.otp = NoCode, !.fresh = FALSE]
        BY <3>1 DEF VerifyOtp, Inv, TypeOK
      <4> QED
        BY <2>1, <4>1 DEF User
    <3>2. CASE Expire(p)
      <4>1. users'[p] = [users[p] EXCEPT !.fresh = FALSE]
        BY <3>2 DEF Expire, Inv, TypeOK
      <4> QED
        BY <2>1, <4>1 DEF User
    <3> QED
      BY <1>2, <3>1, <3>2
  <2>3. \A q \in People : q # p => users'[q] = users[q]
    BY <1>2 DEF VerifyOtp, Expire, Inv, TypeOK
  <2>4. \A q \in People : /\ users[q] # NoUser <=> users'[q] # NoUser
                          /\ users'[q].hash = users[q].hash
    BY <2>1, <2>2, <2>3, NoUserType
  <2> QED
    BY <1>2, <2>4, SoloStill DEF VerifyOtp, Expire
<1>3. CASE UNCHANGED <<users, call, solo, deleted, given>>
  BY <1>3, SoloStill
<1>4. ASSUME NEW p \in People, ResetPassword(p) PROVE SoloInv'
  <2> SUFFICES ASSUME solo PROVE SoloInv'
    BY <1>4 DEF SoloInv, ResetPassword
  <2>1. PICK w \in Passwords :
            /\ users' = [users EXCEPT ![p].hash = [plain |-> w, times |-> 1]]
            /\ given' = [given EXCEPT ![p] = {w}]
    BY <1>4 DEF ResetPassword
  <2>2. users[p] \in User
    BY <1>4, UserThere DEF ResetPassword, Inv
  <2>3. /\ users'[p].hash = [plain |-> w, times |-> 1] /\ w \in given'[p]
        /\ \A q \in People : q # p => users'[q] = users[q] /\ given'[q] = given[q]
    BY <2>1, <2>2 DEF Inv, TypeOK, User
  <2>4. \A q \in People : GoodHash(q)'
    BY <2>3 DEF SoloInv, GoodHash, HashOf
  <2>5. InProgress = {} /\ call' = call
    BY <1>4 DEF ResetPassword
  <2>6. \A c \in Calls : call'[c] = NoCall
    BY <2>5 DEF InProgress
  <2>7. \A c \in Calls : SoloCall(c)'
    BY <2>6 DEF SoloCall, Inserts, Registers, Saves, NoCall
  <2> QED
    BY <2>4, <2>6, <2>7 DEF SoloInv, InProgress
<1> QED
  BY <1>1, <1>2, <1>3, <1>4 DEF Login, RefreshToken, RefuseDeleted, vars

LEMMA SoloInit == Init => SoloInv
BY DEF Init, SoloInv, InProgress, SoloCall, Inserts, Registers, Saves, NoCall, GoodHash

LEMMA SoloNext == Inv /\ SoloInv /\ [Next]_vars => SoloInv'
<1> SUFFICES ASSUME Inv, SoloInv, [Next]_vars PROVE SoloInv'
  OBVIOUS
<1>1. ASSUME NEW c \in Calls, CallStep(c) \/ FailCall(c) PROVE SoloInv'
  BY <1>1, SoloGoes, SoloWrites DEF CallStep
<1> QED
  BY <1>1, SoloBegin, SoloOthers DEF Next

LEMMA SoloInvariance == Spec => [](Inv /\ SoloInv)
BY SoloInit, SoloNext, Invariance, PTL DEF Spec

\* As long as calls do not overlap, what the table holds is made from the password
\* last given for the account: hashed once, or not at all if it begins like a hash,
\* whatever fails.  (user.entity.ts:199-206, auth.service.ts:223-258, 335-352, 729)
THEOREM AccountsPasswordAsGiven == Spec => []PasswordAsGiven
<1>1. SoloInv => PasswordAsGiven
  BY DEF SoloInv, GoodHash, PasswordAsGiven
<1> QED
  BY <1>1, SoloInvariance, PTL

\* As long as calls do not overlap, an account that is gone does not come back: what
\* is inserted is not recorded as deleted, and what is saved is still there.
\* (auth.service.ts:126-133, 729)
THEOREM AccountsDeletedStays == Spec => DeletedStays
<1>1. Inv /\ SoloInv /\ [Next]_vars =>
        [solo => \A p \in People :
             deleted[p] /\ users[p] = NoUser => users'[p] = NoUser]_vars
  <2> SUFFICES ASSUME Inv, SoloInv, [Next]_vars, solo, NEW p \in People,
                      deleted[p], users[p] = NoUser, users'[p] # NoUser
               PROVE  FALSE
    OBVIOUS
  <2>1. ASSUME NEW c \in Calls, InsertUser(c) \/ StoreCode(c) \/ SaveUser(c) \/ RemoveUser(c)
        PROVE  FALSE
    <3>1. call[c].who = {Who(c)} /\ Who(c) \in People /\ SoloCall(c)
      BY <2>1, WhoType DEF InsertUser, StoreCode, SaveUser, RemoveUser, Inv, CallsOK, CallOK,
         SoloInv
    <3>2. CASE Who(c) = p
      BY <2>1, <3>1, <3>2 DEF InsertUser, StoreCode, SaveUser, RemoveUser, SoloCall,
         Inserts, Saves, Inv, TypeOK
    <3>3. CASE Who(c) # p
      BY <2>1, <3>1, <3>3 DEF InsertUser, StoreCode, SaveUser, RemoveUser, Inv, TypeOK
    <3> QED
      BY <3>2, <3>3
  <2>2. ASSUME NEW q \in People, VerifyOtp(q) \/ Expire(q) \/ ResetPassword(q) PROVE FALSE
    BY <2>2 DEF VerifyOtp, Expire, ResetPassword, Inv, TypeOK
  <2>3. users' # users
    OBVIOUS
  <2>4. \/ \E c \in Calls : InsertUser(c) \/ StoreCode(c) \/ SaveUser(c) \/ RemoveUser(c)
        \/ \E q \in People : VerifyOtp(q) \/ Expire(q) \/ ResetPassword(q)
    BY <2>3 DEF Next, CallStep, vars, session, BeginRegister, BeginResend, BeginLogout,
       BeginChange, BeginUpdate, BeginDelete, InsertRole, SendMail, PutAccess, PutRefresh, ReplyLogout,
       RecordDeleted, FailCall, Crash, Login, RefreshToken, RefuseDeleted
  <2> QED
    BY <2>1, <2>2, <2>4
<1> QED
  BY <1>1, SoloInvariance, PTL DEF Spec, DeletedStays
=============================================================================
