------------------------------ MODULE Accounts ------------------------------
(***************************************************************************)
(* AuthService over the tables users, user_roles, deleted_users and        *)
(* invalidated_tokens: registration and its mailed codes, the calls that   *)
(* save the user they have loaded, deletion, and the tokens of a login.    *)
(*                                                                         *)
(* No call is a transaction: each query and each mail is a step, and a     *)
(* failure leaves what the steps before it have written.  Calls that read  *)
(* once and update named columns of that user are one step.                *)
(***************************************************************************)
EXTENDS Integers, FiniteSets

CONSTANTS
    People,
    Codes,     \* six random digits
    Passwords,
    Prefixed,  \* those that begin with "$2", as a bcrypt hash does
    Tokens,    \* pairs of an access and a refresh token
    Calls,     \* calls in progress at one time
    MaxFaults, \* bound on failed queries, mails and crashes
    Both,      \* whether there are faults also where calls overlap
    Mixed      \* whether log-outs overlap with other calls

ASSUME FaultsAssumption == MaxFaults \in Nat /\ Both \in BOOLEAN /\ Mixed \in BOOLEAN
ASSUME PrefixAssumption == Prefixed \subseteq Passwords

VARIABLES
    users,    \* the users row of each person
    roles,    \* who has a user_roles row
    deleted,  \* who has a deleted_users row
    inbox,    \* the code in the last mail to each person
    given,    \* passwords last given for each account, by whoever gave them
    issued,   \* the owner of each token pair
    invalid,  \* invalidated_tokens
    call,
    solo,     \* whether the calls happen not to overlap; chosen once
    faults

session == <<issued, invalid>>
vars    == <<users, roles, deleted, inbox, given, issued, invalid, call, solo, faults>>

-----------------------------------------------------------------------------
(* Rows *)

NoCode == 0

\* password_hash: what was hashed, and how often.
Hashes == [plain : Passwords, times : 0..2]
Plain(p) == [plain |-> p, times |-> 0]

User   == [verified : BOOLEAN, otp : Codes \cup {NoCode}, fresh : BOOLEAN, hash : Hashes]
NoUser == [verified |-> FALSE]

\* A fault for TLC to find: every save hashes what it finds.
HashAlways(h) == [h EXCEPT !.times = @ + 1]

\* The hook of every save takes what begins with "$2" for a hash and leaves it: what
\* is hashed already, and a password that happens to begin so.
hashPassword(h) ==
    IF h.times = 0 /\ h.plain \notin Prefixed THEN [h EXCEPT !.times = 1] ELSE h

\* bcrypt.compare: nothing compares with a text that is no hash.
validatePassword(row, p) == row.hash = [plain |-> p, times |-> 1]

NoCall == [pc |-> "idle", kind |-> "none", who |-> {}, row |-> NoUser, code |-> NoCode,
           password |-> {}, passed |-> {}, lost |-> {}]

InProgress == {c \in Calls : call[c] # NoCall}
Who(c)     == CHOOSE p \in People : p \in call[c].who

MayBegin(c, k) ==
    /\ call[c] = NoCall
    /\ solo => InProgress = {}
    /\ ~Mixed => \A d \in InProgress : call[d].kind = "logout" <=> k = "logout"

Begins(c, step, k, p) ==
    /\ MayBegin(c, k)
    /\ call' = [call EXCEPT ![c] = [NoCall EXCEPT !.pc = step, !.kind = k, !.who = {p}]]

GoesTo(c, step) == call' = [call EXCEPT ![c].pc = step]
Returns(c)      == call' = [call EXCEPT ![c] = NoCall]

\* generateTokens.
Issue(p) ==
    /\ \E t \in Tokens : issued[t] = {}
    /\ issued' = [issued EXCEPT ![CHOOSE t \in Tokens : issued[t] = {}] = {p}]
    /\ UNCHANGED invalid

-----------------------------------------------------------------------------
(* register, resendOtp, verifyOtp *)

\* A fault for TLC to find: deleted accounts are not looked at.
FreeEmailOfUsers(p) == users[p] = NoUser

FreeEmail(p) == users[p] = NoUser /\ ~deleted[p]

BeginRegister(c, p) ==
    /\ FreeEmail(p)
    /\ \E w \in Passwords :
         /\ MayBegin(c, "register")
         /\ call' = [call EXCEPT ![c] = [NoCall EXCEPT !.pc = "insert", !.kind = "register",
                                                       !.who = {p}, !.password = {w}]]
         /\ given' = [given EXCEPT ![p] = @ \cup {w}]
    /\ UNCHANGED <<users, roles, deleted, inbox, session, solo, faults>>

\* users.email is unique.
InsertUser(c) ==
    /\ call[c].pc = "insert"
    /\ IF users[Who(c)] # NoUser
       THEN Returns(c) /\ UNCHANGED users
       ELSE \E k \in Codes, w \in call[c].password :
              /\ users' = [users EXCEPT ![Who(c)] =
                             [verified |-> FALSE, otp |-> k, fresh |-> TRUE,
                              hash |-> hashPassword(Plain(w))]]
              /\ call' = [call EXCEPT ![c].pc = "role", ![c].code = k]
    /\ UNCHANGED <<roles, deleted, inbox, given, session, solo, faults>>

InsertRole(c) ==
    /\ call[c].pc = "role"
    /\ roles' = roles \cup {Who(c)}
    /\ GoesTo(c, "mail")
    /\ UNCHANGED <<users, deleted, inbox, given, session, solo, faults>>

\* The mail is sent after the code is stored, in a step of its own.  (Nobody types
\* the code of a mail that comes after the verification.)
SendMail(c) ==
    /\ call[c].pc = "mail"
    /\ inbox' = IF users[Who(c)].verified \/ users[Who(c)] = NoUser THEN inbox
                ELSE [inbox EXCEPT ![Who(c)] = call[c].code]
    /\ given' = IF call[c].kind = "register"
                THEN [given EXCEPT ![Who(c)] = call[c].password] ELSE given
    /\ Returns(c)
    /\ UNCHANGED <<users, roles, deleted, session, solo, faults>>

BeginResend(c, p) ==
    /\ users[p] # NoUser /\ ~users[p].verified
    /\ Begins(c, "code", "resend", p)
    /\ UNCHANGED <<users, roles, deleted, inbox, given, session, solo, faults>>

\* A fault for TLC to find: the time limit of the old code is kept.
StoreCodeOnly(c) ==
    /\ call[c].pc = "code"
    /\ \E k \in Codes :
         /\ users' = IF users[Who(c)].verified \/ users[Who(c)] = NoUser THEN users
                     ELSE [users EXCEPT ![Who(c)].otp = k]
         /\ call' = [call EXCEPT ![c].pc = "mail", ![c].code = k]
    /\ UNCHANGED <<roles, deleted, inbox, given, session, solo, faults>>

StoreCode(c) ==
    /\ call[c].pc = "code"
    /\ \E k \in Codes :
         /\ users' = IF users[Who(c)].verified \/ users[Who(c)] = NoUser THEN users
                     ELSE [users EXCEPT ![Who(c)].otp = k, ![Who(c)].fresh = TRUE]
         /\ call' = [call EXCEPT ![c].pc = "mail", ![c].code = k]
    /\ UNCHANGED <<roles, deleted, inbox, given, session, solo, faults>>

\* The person types the code of the last mail.  (It stays in the row, for TypeORM
\* leaves out columns that are given as undefined, but nothing reads it again:
\* the model forgets it, and codes that are stored for a verified user.)  The answer
\* holds tokens, unless the queries for them fail.
VerifyOtp(p) ==
    /\ solo => InProgress = {}
    /\ users[p] # NoUser /\ ~users[p].verified
    /\ users[p].otp = inbox[p] /\ users[p].fresh
    /\ users' = [users EXCEPT ![p].verified = TRUE, ![p].otp = NoCode,
                           ![p].fresh = FALSE]
    /\ inbox' = [inbox EXCEPT ![p] = NoCode]
    /\ Issue(p) \/ UNCHANGED session
    /\ UNCHANGED <<roles, deleted, given, call, solo, faults>>

\* Ten minutes pass.  A mail is faster than that.
Expire(p) ==
    /\ users[p] # NoUser /\ ~users[p].verified /\ users[p].fresh
    /\ \A c \in InProgress : call[c].pc # "mail"
    /\ users' = [users EXCEPT ![p].fresh = FALSE]
    /\ UNCHANGED <<roles, deleted, inbox, given, session, call, solo, faults>>

-----------------------------------------------------------------------------
(* login, refreshToken, logout *)

Login(p) ==
    /\ users[p] # NoUser /\ users[p].verified
    /\ \E w \in Passwords : validatePassword(users[p], w)
    /\ Issue(p)
    /\ UNCHANGED <<users, roles, deleted, inbox, given, call, solo, faults>>

\* JwtStrategy.validate: the user must still be there.
Signed(p) ==
    /\ users[p] # NoUser
    /\ \E t \in Tokens : p \in issued[t] /\ <<t, "access">> \notin invalid

\* A refresh token stays good after it is used.
RefreshToken(p) ==
    /\ users[p] # NoUser
    /\ \E t \in Tokens : p \in issued[t] /\ <<t, "refresh">> \notin invalid
    /\ Issue(p)
    /\ UNCHANGED <<users, roles, deleted, inbox, given, call, solo, faults>>

MayFail == faults < MaxFaults /\ (solo \/ Both)

\* JwtStrategy has let the access token pass; the refresh token of the pair may be
\* left out of the body.  The user is looked up, and not used; but when that fails,
\* logout goes straight to its answer.
BeginLogout(c, p) ==
    /\ users[p] # NoUser
    /\ \E t \in Tokens, kinds \in {{"access"}, {"access", "refresh"}} :
         LET loggingOut == [NoCall EXCEPT !.pc = "putAccess", !.kind = "logout", !.who = {p},
                                          !.passed = {t} \X kinds] IN
         /\ p \in issued[t] /\ <<t, "access">> \notin invalid
         /\ MayBegin(c, "logout")
         /\ \/ /\ call' = [call EXCEPT ![c] = loggingOut]
               /\ UNCHANGED faults
            \/ /\ MayFail
               /\ call' = [call EXCEPT ![c] = [loggingOut EXCEPT !.pc = "reply",
                                                                 !.lost = loggingOut.passed]]
               /\ faults' = faults + 1
    /\ UNCHANGED <<users, roles, deleted, inbox, given, session, solo>>

Passed(c, kind) == {x \in call[c].passed : x[2] = kind}

\* On to the refresh token, if there is one, and then to the answer.
AfterAccess(c) == IF Passed(c, "refresh") = {} THEN "reply" ELSE "putRefresh"

\* A fault for TLC to find: a token that another call has inserted ends the call.
PutAccessOrStop(c) ==
    /\ call[c].pc = "putAccess"
    /\ invalid' = invalid \cup Passed(c, "access")
    /\ GoesTo(c, IF invalid' = invalid THEN "reply" ELSE AfterAccess(c))
    /\ UNCHANGED <<users, roles, deleted, inbox, given, issued, solo, faults>>

\* The insert of a token that another call has inserted since it was looked for
\* fails, and the failure is swallowed like any other.
PutAccess(c) ==
    /\ call[c].pc = "putAccess"
    /\ invalid' = invalid \cup Passed(c, "access")
    /\ GoesTo(c, AfterAccess(c))
    /\ UNCHANGED <<users, roles, deleted, inbox, given, issued, solo, faults>>

PutRefresh(c) ==
    /\ call[c].pc = "putRefresh"
    /\ invalid' = invalid \cup Passed(c, "refresh")
    /\ GoesTo(c, "reply")
    /\ UNCHANGED <<users, roles, deleted, inbox, given, issued, solo, faults>>

\* "Logout successful", whatever has failed.
ReplyLogout(c) ==
    /\ call[c].pc = "reply"
    /\ Returns(c)
    /\ UNCHANGED <<users, roles, deleted, inbox, given, session, solo, faults>>

\* A failed query loses its token, and logout goes on.
Loses(c, kind, step) ==
    call' = [call EXCEPT ![c].pc = step, ![c].lost = @ \cup Passed(c, kind)]

FailLogout(c) ==
    \/ call[c].pc = "putAccess" /\ Loses(c, "access", AfterAccess(c))
    \/ call[c].pc = "putRefresh" /\ Loses(c, "refresh", "reply")

-----------------------------------------------------------------------------
(* changePassword, resetPassword, updateProfile *)

BeginChange(c, p) ==
    /\ Signed(p)
    /\ \E old \in Passwords, new \in Passwords :
         /\ validatePassword(users[p], old)
         /\ new # old
         /\ MayBegin(c, "change")
         /\ call' = [call EXCEPT ![c] = [NoCall EXCEPT !.pc = "save", !.kind = "change",
                        !.who = {p}, !.row = [users[p] EXCEPT !.hash = Plain(new)],
                        !.password = {new}]]
         /\ given' = [given EXCEPT ![p] = @ \cup {new}]
    /\ UNCHANGED <<users, roles, deleted, inbox, session, solo, faults>>

\* Between loading and saving, the bank lists of up to four currencies are asked
\* for.
BeginUpdate(c, p) ==
    /\ Signed(p)
    /\ MayBegin(c, "update")
    /\ call' = [call EXCEPT ![c] = [NoCall EXCEPT !.pc = "save", !.kind = "update",
                                                  !.who = {p}, !.row = users[p]]]
    /\ UNCHANGED <<users, roles, deleted, inbox, given, session, solo, faults>>

\* The user is saved as it was loaded; one that was removed meanwhile is inserted
\* again.
SaveUser(c) ==
    /\ call[c].pc = "save"
    /\ users' = [users EXCEPT ![Who(c)] = [call[c].row EXCEPT !.hash = hashPassword(@)]]
    /\ given' = IF call[c].kind = "change"
                THEN [given EXCEPT ![Who(c)] = call[c].password] ELSE given
    /\ Returns(c)
    /\ UNCHANGED <<roles, deleted, inbox, session, solo, faults>>

\* A fault for TLC to find: the hashing is left to the hook, which does not run here.
ResetUnhashed(p) ==
    /\ users[p] # NoUser
    /\ solo => InProgress = {}
    /\ \E w \in Passwords :
         /\ users' = [users EXCEPT ![p].hash = Plain(w)]
         /\ given' = [given EXCEPT ![p] = {w}]
    /\ UNCHANGED <<roles, deleted, inbox, session, call, solo, faults>>

\* One column is updated, with a hash made here and not by the hook.  Whoever calls
\* names the account: forgotPassword mails a token that is stored nowhere, and the
\* token passed here is not looked at.
ResetPassword(p) ==
    /\ users[p] # NoUser
    /\ solo => InProgress = {}
    /\ \E w \in Passwords :
         /\ users' = [users EXCEPT ![p].hash = [plain |-> w, times |-> 1]]
         /\ given' = [given EXCEPT ![p] = {w}]
    /\ UNCHANGED <<roles, deleted, inbox, session, call, solo, faults>>

-----------------------------------------------------------------------------
(* deleteAccount *)

BeginDelete(c, p) ==
    /\ Signed(p)
    /\ \E w \in Passwords : validatePassword(users[p], w)
    /\ Begins(c, "record", "delete", p)
    /\ UNCHANGED <<users, roles, deleted, inbox, given, session, solo, faults>>

\* A fault for TLC to find: the user is removed first.
RecordDeletedLast(c) ==
    /\ call[c].pc = "record"
    /\ users' = [users EXCEPT ![Who(c)] = NoUser]
    /\ GoesTo(c, "remove")
    /\ UNCHANGED <<roles, deleted, inbox, given, session, solo, faults>>

RecordDeleted(c) ==
    /\ call[c].pc = "record"
    /\ deleted' = [deleted EXCEPT ![Who(c)] = TRUE]
    /\ GoesTo(c, "remove")
    /\ UNCHANGED <<users, roles, inbox, given, session, solo, faults>>

\* user_roles goes with it (ON DELETE CASCADE).  Rows of other tables that refer to
\* the user make this fail like any other query.
RemoveUser(c) ==
    /\ call[c].pc = "remove"
    /\ users' = [users EXCEPT ![Who(c)] = NoUser]
    /\ roles' = roles \ {Who(c)}
    /\ Returns(c)
    /\ UNCHANGED <<deleted, inbox, given, session, solo, faults>>

-----------------------------------------------------------------------------
\* logout goes on after a failed query, every other call ends.
FailCall(c) ==
    /\ MayFail
    /\ c \in InProgress
    /\ IF call[c].kind = "logout" THEN FailLogout(c) ELSE Returns(c)
    /\ faults' = faults + 1
    /\ UNCHANGED <<users, roles, deleted, inbox, given, session, solo>>

Crash ==
    /\ MayFail
    /\ faults' = faults + 1
    /\ call' = [c \in Calls |-> NoCall]
    /\ UNCHANGED <<users, roles, deleted, inbox, given, session, solo>>

\* login and register of a deleted account are refused.
RefuseDeleted(p) ==
    /\ users[p] = NoUser /\ deleted[p]
    /\ UNCHANGED vars

Init ==
    /\ users = [p \in People |-> NoUser]
    /\ roles = {}
    /\ deleted = [p \in People |-> FALSE]
    /\ inbox = [p \in People |-> NoCode]
    /\ given = [p \in People |-> {}]
    /\ issued = [t \in Tokens |-> {}]
    /\ invalid = {}
    /\ call = [c \in Calls |-> NoCall]
    /\ solo \in BOOLEAN
    /\ faults = 0

CallStep(c) ==
    \/ InsertUser(c) \/ InsertRole(c) \/ SendMail(c) \/ StoreCode(c)
    \/ PutAccess(c) \/ PutRefresh(c) \/ ReplyLogout(c)
    \/ SaveUser(c) \/ RecordDeleted(c) \/ RemoveUser(c)

Next ==
    \/ \E c \in Calls, p \in People :
         \/ BeginRegister(c, p) \/ BeginResend(c, p) \/ BeginLogout(c, p)
         \/ BeginChange(c, p) \/ BeginUpdate(c, p) \/ BeginDelete(c, p)
    \/ \E c \in Calls : CallStep(c) \/ FailCall(c)
    \/ \E p \in People :
         \/ VerifyOtp(p) \/ Expire(p) \/ Login(p) \/ RefreshToken(p) \/ ResetPassword(p)
         \/ RefuseDeleted(p)
    \/ Crash

Spec == Init /\ [][Next]_vars

\* Every query is answered; somebody who has registered asks for a code again and
\* again, and again and again types it in time.
FairSpec ==
    /\ Spec
    /\ \A c \in Calls : WF_vars(CallStep(c))
    /\ \A p \in People :
         /\ SF_vars(\E c \in Calls : BeginResend(c, p))
         /\ SF_vars(VerifyOtp(p))

-----------------------------------------------------------------------------
(* Properties *)

CallRow ==
    [pc : {"idle", "insert", "role", "mail", "code", "putAccess", "putRefresh",
           "reply", "save", "record", "remove"},
     kind : {"none", "register", "resend", "logout", "change", "update", "delete"},
     who : SUBSET People, row : User \cup {NoUser}, code : Codes \cup {NoCode},
     password : SUBSET Passwords, passed : SUBSET (Tokens \X {"access", "refresh"}),
     lost : SUBSET (Tokens \X {"access", "refresh"})]

TypeOK ==
    /\ users \in [People -> User \cup {NoUser}]
    /\ roles \subseteq People
    /\ deleted \in [People -> BOOLEAN]
    /\ inbox \in [People -> Codes \cup {NoCode}]
    /\ given \in [People -> SUBSET Passwords]
    /\ issued \in [Tokens -> SUBSET People]
    /\ invalid \subseteq Tokens \X {"access", "refresh"}
    /\ call \in [Calls -> CallRow]
    /\ solo \in BOOLEAN
    /\ faults \in 0..MaxFaults

\* Made from this text: hashed once, or not at all.
HashOf(h, w) ==
    \/ h = [plain |-> w, times |-> 1]
    \/ w \in Prefixed /\ h = Plain(w)

\* As long as calls do not overlap, what the table holds for an account is made from
\* the password last given for it, whoever gave it, and from no other text: hashed
\* once, or left as it is if the hook takes it for a hash.  No save hashes a hash
\* again, and no failure leaves a password nobody has given.
\* (user.entity.ts:199-206, auth.service.ts:223-258, 335-352, 729)
PasswordAsGiven ==
    solo => \A p \in People : users[p] # NoUser => \E w \in given[p] : HashOf(users[p].hash, w)

\* An account does not vanish: before its row is removed there is one in
\* deleted_users, through crashes and failed removals.
\* (auth.service.ts:291-306)
RecordedFirst ==
    [][\A p \in People : users[p] # NoUser /\ users'[p] = NoUser => deleted[p]]_vars

\* As long as calls do not overlap, an account that is gone does not come back: its
\* address cannot be registered again and nobody saves the old row.
\* (auth.service.ts:126-133, 729)
DeletedStays ==
    [][solo => \A p \in People :
           deleted[p] /\ users[p] = NoUser => users'[p] = NoUser]_vars

\* A log-out that is answered has invalidated every token passed to it but those
\* whose own query, or the lookup of the user, has failed: the failure for one token
\* does not spare the other, nor does another log-out that came first.  And nothing
\* makes a token good again.  (auth.service.ts:384-448)
LogoutSticks ==
    [][/\ invalid \subseteq invalid'
       /\ \A c \in Calls :
            call[c].pc = "reply" => call[c].passed \ call[c].lost \subseteq invalid]_vars

\* Registration is not transactional, mails get lost and codes expire; but as long
\* as calls do not overlap, whoever has a row gets to verify it with new codes.
\* (auth.service.ts:115-160, 201-222)
EventuallyVerified ==
    \A p \in People : solo /\ users[p] # NoUser ~> users[p] = NoUser \/ users[p].verified

\* The same without the assumption.  (Refuted: updateProfile saves the password it
\* has loaded before another call changed it, and inserts a removed user again.)
PasswordAsGivenAtAll ==
    \A p \in People : users[p] # NoUser => \E w \in given[p] : HashOf(users[p].hash, w)
DeletedStaysAtAll ==
    [][\A p \in People : deleted[p] /\ users[p] = NoUser => users'[p] = NoUser]_vars

\* Whoever has given a password can log in with it.  (Refuted: one that begins with
\* "$2" is stored as it is.)
PasswordWorks ==
    solo => \A p \in People : users[p] # NoUser =>
                \E w \in given[p] : validatePassword(users[p], w)

\* "Reset password using token from email" (auth.controller.ts:428): a password is
\* replaced by calls that have saved what they loaded for somebody signed in, or
\* else with a token, and no token is kept.  (Refuted: the token is not looked at.)
ResetUsesToken ==
    [][\A p \in People : users[p] # NoUser /\ users'[p] # NoUser /\
           users'[p].hash # users[p].hash => \E c \in InProgress : call[c].pc = "save"]_vars

\* "Logout successful" (auth.service.ts:443, 445): the pair that was used is good no
\* more.  (Refuted: by a failed query, and without a refresh token in the body.)
LogoutInvalidates ==
    [][\A c \in Calls : call[c].pc = "reply" =>
           {x[1] : x \in call[c].passed} \X {"access", "refresh"} \subseteq invalid]_vars

\* "User not found for deletion" is the last check (auth.service.ts:289): whoever
\* has a deleted_users row is gone when no deletion is in progress.  (Refuted:
\* the removal may fail after the row is saved.)
DeletedIsGone ==
    \A p \in People : deleted[p] /\ users[p] # NoUser =>
        \E c \in InProgress : call[c].kind = "delete"

\* Every account has its role.  (Refuted: the two rows are saved one after the
\* other.)
HasRole ==
    \A p \in People : users[p] # NoUser /\ users[p].verified => p \in roles

=============================================================================
