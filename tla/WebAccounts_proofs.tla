-------------------------- MODULE WebAccounts_proofs --------------------------
(***************************************************************************)
(* Theorems about the pages of the client that have to do with who is who: *)
(* the session (Session), the accounts of the server (UsersPage) and what  *)
(* they may do (Access), for any accounts, tokens, roles, groups and       *)
(* numbers of inputs.                                                      *)
(***************************************************************************)
EXTENDS WebPages, FiniteSetTheorems, TLAPS

-----------------------------------------------------------------------------
(* The accounts *)

UsersConstants ==
  /\ SSO \subseteq UserIds /\ Me \in UserIds
  /\ None \notin UserIds
  /\ MaxUsrInputs \in Nat

LEMMA UsersConstantsHold == UsersConstants
  BY PagesAssumption DEF People!UsersAssumption, UsersConstants

\* The types the argument needs
UsersTyped ==
  /\ usrShown \subseteq UserIds
  /\ usrForm \in [named : BOOLEAN, password : People!Passwords, sso : BOOLEAN]
  /\ usrDialog \in UserIds \cup {None}
  /\ usrText \in [for : UserIds \cup {None}, long : BOOLEAN]
  /\ usrCalls \subseteq People!Call
  /\ \A c \in usrCalls : c.op = "create" /\ c.phase = "ok" => c.of \in UserIds
  /\ usrInputs \in 0..MaxUsrInputs

\* What the dialog holds is of the account it is open for: the password in it, and,
\* unless it was opened meanwhile, every password that is being set.
DialogIsOwn ==
  /\ usrDialog # None => usrText = People!NoText \/ usrText.for = usrDialog
  /\ \A c \in usrCalls : c.op = "reset" =>
       /\ c.text = c.of
       /\ usrMixed \/ usrDialog \in {None, c.of}
  /\ usrSucceeded /\ usrDialog # None /\ ~usrMixed => usrDialog \in usrDone

UsersInv == UsersTyped /\ DialogIsOwn

LEMMA EmptyTyped ==
  /\ People!NoText \in [for : UserIds \cup {None}, long : BOOLEAN]
  /\ People!EmptyForm \in [named : BOOLEAN, password : People!Passwords, sso : BOOLEAN]
  BY DEF People!NoText, People!EmptyForm, People!Passwords

LEMMA RequestTyped ==
  ASSUME UsersTyped, usrInputs' \in 0..MaxUsrInputs,
         NEW op \in {"list", "create", "delete", "reset"}, NEW of \in UserIds \cup {None}
  PROVE  /\ People!Request(op, of) \in People!Call
         /\ People!Request(op, of).op = op
         /\ People!Request(op, of).of = of
         /\ People!Request(op, of).phase = "sent"
  BY DEF UsersTyped, People!Request, People!Call

LEMMA UsersInit == People!Init => UsersInv
<1> SUFFICES ASSUME People!Init PROVE UsersInv
  OBVIOUS
<1> USE UsersConstantsHold DEF UsersConstants
<1>1. UsersTyped
  BY DEF People!Init, UsersTyped, People!Call, People!NoText,
         People!EmptyForm, People!Passwords
<1>2. DialogIsOwn
  BY DEF People!Init, DialogIsOwn
<1> QED BY <1>1, <1>2 DEF UsersInv

LEMMA UsersStutter == UsersInv /\ UNCHANGED usrVars => UsersInv'
  BY DEF UsersInv, UsersTyped, DialogIsOwn, usrVars

\* Typing in the form that adds an account
LEMMA FormKeeps == UsersInv /\ People!EditForm => UsersInv'
<1> SUFFICES ASSUME UsersInv, People!EditForm PROVE UsersInv'
  OBVIOUS
<1>1. usrForm' \in [named : BOOLEAN, password : People!Passwords, sso : BOOLEAN]
  <2>1. usrForm \in [named : BOOLEAN, password : People!Passwords, sso : BOOLEAN]
    BY DEF UsersInv, UsersTyped
  <2>2. \/ usrForm' = [usrForm EXCEPT !.named = ~@]
        \/ usrForm' = [usrForm EXCEPT !.sso = ~@, !.password = "none"]
        \/ \E p \in People!Passwords : usrForm' = [usrForm EXCEPT !.password = p]
    BY Zenon DEF People!EditForm
  <2> QED BY <2>1, <2>2 DEF People!Passwords
<1> QED BY <1>1 DEF People!EditForm, People!list, People!dialog, People!notes, UsersInv,
                    UsersTyped, DialogIsOwn

LEMMA CreateKeeps == UsersInv /\ People!HandleCreate => UsersInv'
<1> SUFFICES ASSUME UsersInv, People!HandleCreate PROVE UsersInv'
  OBVIOUS
<1> USE UsersConstantsHold DEF UsersConstants
<1> DEFINE r == People!Request("create", None)
           c == [r EXCEPT !.sso = usrForm.sso]
<1>1. usrInputs' \in 0..MaxUsrInputs
  BY DEF People!HandleCreate, People!Input, UsersInv, UsersTyped
<1>2. r \in People!Call /\ r.op = "create" /\ r.phase = "sent"
  BY <1>1, RequestTyped DEF UsersInv
<1>3. c \in People!Call /\ c.op = "create" /\ c.phase = "sent"
  BY <1>2 DEF UsersInv, UsersTyped, People!Call
<1>4. usrCalls' = usrCalls \/ usrCalls' = usrCalls \cup {c}
  BY DEF People!HandleCreate, People!Send
<1> HIDE DEF c
<1> QED BY <1>1, <1>3, <1>4 DEF People!HandleCreate, People!list, People!dialog,
                    People!notes, UsersInv, UsersTyped, DialogIsOwn

LEMMA RowKeeps == UsersInv /\ People!Row => UsersInv'
<1> USE UsersConstantsHold DEF UsersConstants
<1>1. ASSUME UsersInv, People!HandleDelete PROVE UsersInv'
  <2>1. usrInputs' \in 0..MaxUsrInputs
    BY <1>1 DEF People!HandleDelete, People!Input, UsersInv, UsersTyped
  <2>2. PICK i \in UserIds : usrCalls' = usrCalls \cup {People!Request("delete", i)}
    BY <1>1 DEF People!HandleDelete, People!Send, UsersInv, UsersTyped
  <2>3. /\ People!Request("delete", i) \in People!Call
        /\ People!Request("delete", i).op = "delete"
    BY <1>1, <2>1, RequestTyped DEF UsersInv
  <2> QED BY <1>1, <2>1, <2>2, <2>3 DEF People!HandleDelete, People!list, People!form,
                    People!dialog, People!notes, UsersInv, UsersTyped, DialogIsOwn
<1>2. ASSUME UsersInv, People!OpenReset PROVE UsersInv'
  <2>1. /\ usrDialog' \in usrShown /\ usrText' = People!NoText /\ usrSucceeded' = FALSE
        /\ usrShown' = usrShown /\ usrForm' = usrForm
        /\ usrCalls' = usrCalls /\ usrInputs' = usrInputs
    BY <1>2 DEF People!OpenReset, People!list, People!form
  <2>2. UsersTyped'
    BY <1>2, <2>1, EmptyTyped DEF UsersInv, UsersTyped
  <2>3. ASSUME NEW c \in usrCalls, c.op = "reset" PROVE usrMixed' \/ c.of = usrDialog'
    BY <1>2, <2>3 DEF People!OpenReset
  <2>4. DialogIsOwn'
    BY <1>2, <2>1, <2>3 DEF UsersInv, DialogIsOwn
  <2> QED BY <2>2, <2>4 DEF UsersInv
<1> QED BY <1>1, <1>2 DEF People!Row

\* What is done in the dialog, and the timer
LEMMA DialogKeeps ==
  ASSUME UsersInv, People!CloseReset \/ People!TypePassword \/ People!TimerFires
  PROVE  UsersInv'
<1> USE UsersConstantsHold DEF UsersConstants
<1>1. CASE People!CloseReset
  BY <1>1 DEF People!CloseReset, People!list, People!form, People!notes,
              UsersInv, UsersTyped, DialogIsOwn
<1>2. CASE People!TypePassword
  BY <1>2, EmptyTyped DEF People!TypePassword, People!list, People!form, People!notes,
              UsersInv, UsersTyped, DialogIsOwn
<1>3. CASE People!TimerFires
  BY <1>3 DEF People!TimerFires, People!list, People!form,
              UsersInv, UsersTyped, DialogIsOwn
<1> QED BY <1>1, <1>2, <1>3

LEMMA ResetKeeps == UsersInv /\ People!HandleResetPassword => UsersInv'
<1> SUFFICES ASSUME UsersInv, People!HandleResetPassword PROVE UsersInv'
  OBVIOUS
<1> USE UsersConstantsHold DEF UsersConstants
<1> DEFINE r == People!Request("reset", usrDialog)
           c == [r EXCEPT !.text = usrText.for]
<1>1. usrInputs' \in 0..MaxUsrInputs
  BY DEF People!HandleResetPassword, People!Input, UsersInv, UsersTyped
<1>2. r \in People!Call /\ r.op = "reset" /\ r.of = usrDialog
  BY <1>1, RequestTyped DEF UsersInv, UsersTyped
<1>3. usrText.for = usrDialog
  BY DEF People!HandleResetPassword, UsersInv, DialogIsOwn
<1>4. c \in People!Call /\ c.op = "reset" /\ c.of = usrDialog /\ c.text = usrDialog
  BY <1>2, <1>3 DEF UsersInv, UsersTyped, People!Call
<1>5. usrCalls' = usrCalls \/ usrCalls' = usrCalls \cup {c}
  BY DEF People!HandleResetPassword, People!Send
<1> HIDE DEF c
<1> QED BY <1>1, <1>4, <1>5 DEF People!HandleResetPassword, People!list, People!form,
                    UsersInv, UsersTyped, DialogIsOwn

\* The server leaves a request to set a password the request it is.
LEMMA HandleKeeps ==
  ASSUME UsersInv, NEW c \in usrCalls, People!Handle(c)
  PROVE  UsersInv'
<1> USE UsersConstantsHold DEF UsersConstants
<1>1. c \in People!Call
  BY DEF UsersInv, UsersTyped
<1> DEFINE Same(d) == /\ d \in People!Call
                      /\ usrCalls' = (usrCalls \ {c}) \cup {d}
                      /\ d.op = c.op
                      /\ d.op = "create" /\ d.phase = "ok" => d.of \in UserIds
                      /\ c.op = "reset" => d.of = c.of /\ d.text = c.text
<1>2. \E d : Same(d)
  <2>1. CASE usrCalls' = (usrCalls \ {c}) \cup {[c EXCEPT !.phase = "no"]}
    <3> DEFINE d == [c EXCEPT !.phase = "no"]
    <3>1. d \in People!Call /\ d.op = c.op /\ d.of = c.of /\ d.text = c.text
          /\ d.phase = "no"
      BY <1>1 DEF People!Call
    <3> QED BY <2>1, <3>1
  <2>2. CASE c.op = "list" /\ People!ListUsers(c)
    <3> DEFINE d == [c EXCEPT !.phase = "ok", !.set = People!There]
    <3>1. d \in People!Call /\ d.op = c.op
      BY <1>1 DEF People!Call, People!There
    <3> QED BY <2>2, <3>1 DEF People!ListUsers
  <2>3. CASE c.op = "create" /\ People!Register(c)
    <3>1. PICK i \in UserIds : usrCalls' = (usrCalls \ {c}) \cup {[c EXCEPT !.phase = "ok", !.of = i]}
      BY <2>3 DEF People!Register
    <3> DEFINE d == [c EXCEPT !.phase = "ok", !.of = i]
    <3>2. d \in People!Call /\ d.op = c.op /\ d.of = i
      BY <1>1 DEF People!Call
    <3> QED BY <2>3, <3>1, <3>2
  <2>4. CASE c.op \in {"delete", "reset"} /\ usrCalls' = (usrCalls \ {c}) \cup {[c EXCEPT !.phase = "ok"]}
    <3> DEFINE d == [c EXCEPT !.phase = "ok"]
    <3>1. d \in People!Call /\ d.op = c.op /\ d.of = c.of /\ d.text = c.text
      BY <1>1 DEF People!Call
    <3> QED BY <2>4, <3>1
  <2>5. c.op \in {"list", "create", "delete", "reset"}
    BY <1>1 DEF People!Call
  <2>6. \/ usrCalls' = (usrCalls \ {c}) \cup {[c EXCEPT !.phase = "no"]}
        \/ c.op = "list" /\ People!ListUsers(c)
        \/ c.op = "create" /\ People!Register(c)
        \/ c.op = "delete" /\ People!DeleteUser(c)
        \/ c.op = "reset" /\ People!ResetPassword(c)
    BY <2>5 DEF People!Handle
  <2> QED BY <2>1, <2>2, <2>3, <2>4, <2>6 DEF People!DeleteUser, People!ResetPassword
<1>3. PICK d : Same(d)
  BY <1>2
<1> QED BY <1>3 DEF People!Handle, People!list, People!form, People!dialog, People!notes,
                    UsersInv, UsersTyped, DialogIsOwn

LEMMA ReceiveKeeps ==
  ASSUME UsersInv, NEW c \in usrCalls, People!Receive(c)
  PROVE  UsersInv'
<1> USE UsersConstantsHold DEF UsersConstants
<1>1. c \in People!Call /\ usrCalls' = usrCalls \ {c} /\ usrInputs' = usrInputs
  BY DEF UsersInv, UsersTyped, People!Receive
<1>2. CASE c.op = "list" /\ People!ReceiveList(c)
  BY <1>1, <1>2 DEF People!ReceiveList, People!form, People!dialog, People!notes,
                    People!Call, UsersInv, UsersTyped, DialogIsOwn
<1>3. CASE c.op = "create" /\ People!ReceiveCreate(c)
  <2>1. usrForm' = usrForm \/ usrForm' = People!EmptyForm
    BY <1>3 DEF People!ReceiveCreate
  <2>2. usrShown' \subseteq UserIds
    BY <1>3 DEF People!ReceiveCreate, UsersInv, UsersTyped
  <2> QED BY <1>1, <1>3, <2>1, <2>2, EmptyTyped DEF People!ReceiveCreate, People!dialog, People!notes, UsersInv, UsersTyped, DialogIsOwn
<1>4. CASE c.op = "delete" /\ People!ReceiveDelete(c)
  BY <1>1, <1>4 DEF People!ReceiveDelete, People!form, People!dialog, People!notes,
                    UsersInv, UsersTyped, DialogIsOwn
<1>5. CASE c.op = "reset" /\ People!ReceiveReset(c)
  <2>1. /\ usrDialog' = usrDialog /\ usrMixed' = usrMixed
        /\ usrShown' = usrShown /\ usrForm' = usrForm
        /\ \/ usrText' = People!NoText /\ usrDone' = usrDone \cup {c.of}
           \/ /\ usrText' = usrText /\ usrDone' = usrDone
              /\ usrSucceeded' = usrSucceeded
    BY <1>5 DEF People!ReceiveReset, People!list, People!form
  <2>2. UsersTyped'
    BY <1>1, <2>1, EmptyTyped DEF UsersInv, UsersTyped
  <2>3. DialogIsOwn'
    BY <1>1, <1>5, <2>1 DEF UsersInv, DialogIsOwn
  <2> QED BY <2>2, <2>3 DEF UsersInv
<1>6. c.op \in {"list", "create", "delete", "reset"}
  BY <1>1 DEF People!Call
<1> QED BY <1>2, <1>3, <1>4, <1>5, <1>6 DEF People!Receive

LEMMA UsersNext == UsersInv /\ People!Next => UsersInv'
  BY FormKeeps, CreateKeeps, RowKeeps, DialogKeeps, ResetKeeps, HandleKeeps, ReceiveKeeps
     DEF People!Next

\* A step of the window is a step of the accounts, or none, if it is open there.
LEMMA UsersStep ==
  [Next]_vars => page' = page /\ (page = "users" => People!Next \/ UNCHANGED usrVars)
  BY Zenon DEF Next, Alone, vars

\* A password is set for the account it was typed for only, and success is told of
\* an account whose password was set.
THEOREM PasswordsGoAsTyped == Spec => []PasswordsGoWhereTyped
<1> DEFINE Inv == page = "users" => UsersInv
<1>1. Init => Inv
  BY UsersInit DEF Init
<1>2. Inv /\ [Next]_vars => Inv'
  BY UsersStep, UsersNext, UsersStutter
<1>3. Inv => PasswordsGoWhereTyped
  BY DEF PasswordsGoWhereTyped, People!PasswordsGoWhereTyped, UsersInv, DialogIsOwn
<1> QED BY <1>1, <1>2, <1>3, PTL DEF Spec

-----------------------------------------------------------------------------
(* The session *)

LEMMA SessionConstants ==
  /\ Owner \in [Tokens -> Accounts] /\ Nobody \notin Accounts /\ None \notin Tokens
  /\ MaxSesInputs \in Nat
  BY PagesAssumption DEF Login!SessionAssumption

\* While the application starts no page is there to ask for anything, and what the
\* start asks with is the token, or without one the cookie unless a logout's answer
\* has cleared it.  While a login is under way nobody is signed in.
StartIsOwn ==
  /\ sesLoading => sesPage = None /\ sesPassword # "saving"
  /\ sesAsk.step \in {"start", "retry"} =>
       /\ sesLoading
       /\ IF sesToken # None THEN sesToken = sesAsk.with ELSE sesCookie \in {None, sesAsk.with}
  /\ sesAsk.step \in {"login", "me"} => ~sesLoading /\ sesUser = Nobody
  /\ sesAsk.step = "me" => /\ sesToken \in {None, sesAsk.with}
                           /\ sesCookie \in {None, sesAsk.with}

SessionInv == Login!TypeOK /\ StartIsOwn /\ Login!RequestsAreTheUsers

LEMMA SessionInit == Login!Init => SessionInv
<1> SUFFICES ASSUME Login!Init PROVE SessionInv
  OBVIOUS
<1>1. sesLoading /\ sesLoading \in BOOLEAN
  BY Zenon DEF Login!Init
<1>2. ~Login!SignedIn
  BY Zenon, <1>1 DEF Login!SignedIn
<1>3. Login!Headers \in Login!Credentials
  BY DEF Login!Init, Login!Headers
<1>4. /\ sesAsk = [step |-> "start", with |-> Login!Headers]
      /\ sesToken \in Login!Credentials /\ sesCookie \in Login!Credentials
      /\ sesValid = Tokens /\ sesUser = Nobody /\ sesPage = None
      /\ sesPassword = "idle" /\ sesInputs = 0
  BY Zenon DEF Login!Init
<1>5. sesLeaving \in BOOLEAN
  BY Zenon DEF Login!Init
<1>6. Login!TypeOK
  BY SessionConstants, <1>1, <1>3, <1>4, <1>5
     DEF Login!TypeOK, Login!Steps, Login!Credentials
<1>7. StartIsOwn
  BY <1>1, <1>4 DEF StartIsOwn, Login!Headers
<1> QED BY <1>2, <1>6, <1>7 DEF SessionInv, Login!RequestsAreTheUsers

LEMMA SessionStutter == SessionInv /\ UNCHANGED sesVars => SessionInv'
  BY DEF sesVars, SessionInv, Login!TypeOK, StartIsOwn, Login!RequestsAreTheUsers,
         Login!SignedIn, Login!Headers

\* The answers to the requests for the user
LEMMA AnswerKeeps == SessionInv /\ Login!Answer => SessionInv'
<1> USE SessionConstants DEF SessionInv, Login!TypeOK, Login!Credentials, Login!Steps,
        StartIsOwn, Login!RequestsAreTheUsers, Login!SignedIn, Login!Headers,
        Login!NoAsk, Login!Accepted, Login!Unauthorized
<1>1. SessionInv /\ Login!StartSucceeds => SessionInv'
  <2> SUFFICES ASSUME SessionInv, Login!StartSucceeds PROVE SessionInv'
    OBVIOUS
  <2>1. ~sesLoading' /\ sesLoading' \in BOOLEAN
    BY Zenon DEF Login!StartSucceeds
  <2>2. /\ sesAsk.step \in {"start", "retry"} /\ sesAsk.with \in sesValid
        /\ sesUser' = Owner[sesAsk.with] /\ sesAsk' = Login!NoAsk
        /\ UNCHANGED <<sesToken, sesCookie, sesValid, sesPage, sesLeaving,
                       sesPassword, sesInputs>>
    BY Zenon DEF Login!StartSucceeds
  <2>3. sesLoading
    BY <2>2
  <2> QED BY <2>1, <2>2, <2>3
<1>2. SessionInv /\ Login!StartFails => SessionInv'
  BY DEF Login!StartFails
<1>3. SessionInv /\ Login!StartEnds => SessionInv'
  <2> SUFFICES ASSUME SessionInv, Login!StartEnds PROVE SessionInv'
    OBVIOUS
  <2>1. ~sesLoading' /\ sesLoading' \in BOOLEAN
    BY Zenon DEF Login!StartEnds
  <2>2. /\ sesUser' = Nobody /\ sesAsk' = Login!NoAsk
        /\ UNCHANGED <<sesToken, sesCookie, sesValid, sesPage, sesLeaving,
                       sesPassword, sesInputs>>
    BY Zenon DEF Login!StartEnds
  <2>3. sesLoading
    BY DEF Login!StartEnds
  <2> QED BY <2>1, <2>2, <2>3
<1>4. SessionInv /\ Login!LoginSucceeds => SessionInv'
  BY DEF Login!LoginSucceeds
<1>5. SessionInv /\ Login!LoginFails => SessionInv'
  BY DEF Login!LoginFails
<1>6. SessionInv /\ Login!AnswerMe => SessionInv'
  BY DEF Login!AnswerMe
<1> QED BY <1>1, <1>2, <1>3, <1>4, <1>5, <1>6 DEF Login!Answer

\* What the user does, the answers to it, and tokens that run out
LEMMA SessionActs ==
  ASSUME SessionInv,
         Login!Submit \/ Login!Logout \/ Login!AnswerLogout \/ Login!Request
           \/ Login!AnswerRequest \/ Login!ChangePassword \/ Login!AnswerPassword
           \/ Login!Expire \/ Login!Reload
  PROVE  SessionInv'
<1> USE SessionConstants DEF SessionInv, Login!TypeOK, Login!Credentials, Login!Steps,
        StartIsOwn, Login!RequestsAreTheUsers, Login!SignedIn, Login!Headers,
        Login!NoAsk, Login!Accepted, Login!Unauthorized, Login!Input
<1>1. CASE Login!Submit
  BY <1>1 DEF Login!Submit, Login!FormEnabled, Login!AtLogin
<1>2. CASE Login!Logout
  BY <1>2 DEF Login!Logout
<1>3. CASE Login!AnswerLogout
  BY <1>3 DEF Login!AnswerLogout
<1>4. CASE Login!Request
  BY <1>4 DEF Login!Request
<1>5. CASE Login!AnswerRequest
  BY <1>5 DEF Login!AnswerRequest
<1>6. CASE Login!ChangePassword
  BY <1>6 DEF Login!ChangePassword, Login!PasswordForm
<1>7. CASE Login!AnswerPassword
  BY <1>7 DEF Login!AnswerPassword
<1>8. CASE Login!Expire
  BY <1>8 DEF Login!Expire
<1>9. CASE Login!Reload
  BY <1>9 DEF Login!Reload
<1> QED BY <1>1, <1>2, <1>3, <1>4, <1>5, <1>6, <1>7, <1>8, <1>9

LEMMA SessionNext == SessionInv /\ Login!Next => SessionInv'
  BY AnswerKeeps, SessionActs DEF Login!Next

\* A step of the window is a step of the session, or none, if it is open there.
LEMMA SessionStep ==
  [Next]_vars => page' = page /\ (page = "session" => Login!Next \/ UNCHANGED sesVars)
  BY Zenon DEF Next, Alone, vars

LEMMA SessionInvariant == Spec => [](page = "session" => SessionInv)
<1>1. Init => (page = "session" => SessionInv)
  BY SessionInit DEF Init
<1>2. (page = "session" => SessionInv) /\ [Next]_vars => (page = "session" => SessionInv)'
  BY SessionStep, SessionNext, SessionStutter
<1> QED BY <1>1, <1>2, PTL DEF Spec

\* What the pages of a user ask for they ask for in that user's name, through any
\* order of logins, logouts, starts and refusals.
THEOREM RequestsAreInTheUsersName == Spec => []RequestsAreTheUsers
<1>1. (page = "session" => SessionInv) => RequestsAreTheUsers
  BY DEF RequestsAreTheUsers, SessionInv
<1> QED BY <1>1, SessionInvariant, PTL
-----------------------------------------------------------------------------
(* The tabs of access control *)

LEMMA AccessConstants ==
  /\ BuiltIn \subseteq Roles /\ Admin \in BuiltIn /\ Admin \in Perms
  /\ None \notin Groups /\ Groups \cap Roles = {} /\ LocalGroups \subseteq Groups
  BY PagesAssumption DEF Rights!AccessAssumption

RightsFields == {"op", "of", "who", "type", "set", "lists", "done", "live"}
RoleOps == {"toggle", "createRole", "deleteRole", "refresh"}
MemberOps == {"add", "remove", "expand", "reread"}

\* What there is has been made, and so has what the page knows of.
RightsTyped ==
  /\ DOMAIN accRoles \subseteq accMade /\ DOMAIN accGroups \subseteq accMade \cap Groups
  /\ Admin \in DOMAIN accRoles /\ Admin \in accRoles[Admin]
  /\ {"loading", "roles", "groups", "rules"} \subseteq DOMAIN accShown
  /\ accShown.groups \subseteq accMade \cap Groups
  /\ accExpanded \in (accMade \cap Groups) \cup {None}
  /\ \A c \in accCalls :
       /\ RightsFields \subseteq DOMAIN c
       /\ c.op \in Rights!ListOps \cup {"expand", "effective"}
       /\ c.op \in Rights!GroupOps => c.of \in accMade
       /\ c.op = "createGroup" => c.of \in Groups
       /\ c.op = "createRole" => c.of \notin BuiltIn
       /\ c.op = "refresh" /\ c.done =>
            /\ {"loading", "roles", "groups", "rules"} \subseteq DOMAIN c.lists
            /\ c.lists.groups \subseteq accMade \cap Groups
            /\ ~c.lists.loading

\* One permission of the role is another one; not the administrator's own.
IsToggle(c) ==
  c.of \in DOMAIN accRoles =>
    \E perm \in Perms : /\ <<c.of, perm>> # <<Admin, Admin>>
                        /\ c.set = Rights!Toggled(accRoles[c.of], perm)

\* As long as the user waits: one request at a time, which finds the roles as the page
\* shows them; and when there is none the page shows the roles there are.
RolesSettled ==
  /\ \A c, d \in accCalls : c.op \in Rights!ListOps /\ d.op \in Rights!ListOps => c = d
  /\ \A c \in accCalls : c.op = "refresh" /\ c.done => c.lists.roles = accRoles
  /\ \A c \in accCalls : c.op = "toggle" /\ ~c.done => IsToggle(c)
  /\ (\A c \in accCalls : c.op \notin RoleOps) =>
       accShown.loading \/ accShown.roles = accRoles \/ accShown.roles = <<>>

\* As long as the user waits: one request at a time, for the group that is open.
MembersSettled ==
  /\ \A c, d \in accCalls : c.op \in Rights!GroupOps /\ d.op \in Rights!GroupOps => c = d
  /\ \A c \in accCalls : c.op \in MemberOps =>
       accExpanded = IF c.live THEN c.of ELSE None
  /\ \A c \in accCalls : c.op \in {"expand", "reread"} /\ c.done /\ c.of \in DOMAIN accGroups
       => c.set = Rights!Told(c.of)
  /\ (\A c \in accCalls : c.op \notin MemberOps) /\ accExpanded \in DOMAIN accGroups
       => accMembers = Rights!Told(accExpanded)

\* As long as the user waits: one request at a time, for the user who is chosen.
OverviewSettled ==
  /\ \A c, d \in accCalls : c.op = "effective" /\ d.op = "effective" => c = d
  /\ \A c \in accCalls : c.op = "effective" => accUser = IF c.live THEN c.of ELSE None
  /\ (\A c \in accCalls : c.op = "effective" => ~c.live) => accPerms \in {None, accUser}

RightsInv ==
  /\ RightsTyped
  /\ "roles" \notin accRaced => RolesSettled
  /\ "groups" \notin accRaced => MembersSettled
  /\ "overview" \notin accRaced => OverviewSettled

LEMMA RightsInit == Rights!Init => RightsInv
<1> SUFFICES ASSUME Rights!Init PROVE RightsInv
  OBVIOUS
<1> DEFINE first == [op |-> "refresh", of |-> None, who |-> None, type |-> "group", set |-> {},
                     lists |-> Rights!NoLists, done |-> FALSE, live |-> TRUE, nr |-> 0]
<1>1. /\ accCalls = {first} /\ first.op = "refresh" /\ ~first.done
      /\ RightsFields \subseteq DOMAIN first
  BY DEF Rights!Init, RightsFields
<1> HIDE DEF first
<1>2. /\ accRoles \in [BuiltIn -> {Perms}] /\ DOMAIN accGroups \subseteq Groups
      /\ accMade = BuiltIn \cup DOMAIN accGroups
      /\ {"loading", "roles", "groups", "rules"} \subseteq DOMAIN accShown
      /\ accShown.groups = {} /\ accShown.loading /\ accExpanded = None
      /\ accUser = None /\ accPerms = None
  BY DEF Rights!Init, Rights!NoLists
<1>3. RightsTyped
  BY <1>1, <1>2, AccessConstants DEF RightsTyped, Rights!ListOps, Rights!GroupOps
<1>4. RolesSettled
  BY <1>1, <1>2 DEF RolesSettled
<1>5. MembersSettled
  BY <1>1, <1>2, AccessConstants DEF MembersSettled, Rights!GroupOps, MemberOps
<1>6. OverviewSettled
  BY <1>1, <1>2 DEF OverviewSettled
<1> QED BY <1>3, <1>4, <1>5, <1>6 DEF RightsInv

\* The four parts under steps that leave what they are about alone but for requests that
\* go, or are not theirs.
LEMMA RolesUndisturbed ==
  ASSUME RightsTyped, "roles" \notin accRaced => RolesSettled,
         UNCHANGED <<accRoles, accShown>>, accRaced \subseteq accRaced',
         \A c \in accCalls' : c.op \in Rights!ListOps => c \in accCalls,
         \A c \in accCalls : c.op \in Rights!ListOps => c \in accCalls'
  PROVE  "roles" \notin accRaced' => RolesSettled'
<1>1. RoleOps \subseteq Rights!ListOps /\ {"toggle", "refresh"} \subseteq Rights!ListOps
  BY DEF Rights!ListOps, RoleOps
<1> QED BY <1>1 DEF RolesSettled, IsToggle

LEMMA MembersUndisturbed ==
  ASSUME RightsTyped, "groups" \notin accRaced => MembersSettled,
         UNCHANGED <<accGroups, accUnread, accExpanded, accMembers>>,
         accRaced \subseteq accRaced',
         \A c \in accCalls' : c.op \in Rights!GroupOps => c \in accCalls,
         \A c \in accCalls : c.op \in Rights!GroupOps => c \in accCalls'
  PROVE  "groups" \notin accRaced' => MembersSettled'
<1>1. MemberOps \subseteq Rights!GroupOps /\ {"expand", "reread"} \subseteq MemberOps
  BY DEF Rights!GroupOps, MemberOps
<1>2. \A g : Rights!Told(g)' = Rights!Told(g)
  BY DEF Rights!Told
<1> QED BY <1>1, <1>2 DEF MembersSettled

LEMMA OverviewUndisturbed ==
  ASSUME "overview" \notin accRaced => OverviewSettled,
         UNCHANGED <<accUser, accPerms>>, accRaced \subseteq accRaced',
         \A c \in accCalls' : c.op = "effective" => c \in accCalls,
         \A c \in accCalls : c.op = "effective" => c \in accCalls'
  PROVE  "overview" \notin accRaced' => OverviewSettled'
  BY DEF OverviewSettled

\* What the user asks for
LEMMA RequestOf ==
  ASSUME NEW op, NEW of
  PROVE  /\ RightsFields \subseteq DOMAIN Rights!Request(op, of)
         /\ Rights!Request(op, of).op = op /\ Rights!Request(op, of).of = of
         /\ ~Rights!Request(op, of).done /\ Rights!Request(op, of).live
  BY DEF Rights!Request, RightsFields

LEMMA SentTyped ==
  ASSUME RightsTyped, NEW d, RightsFields \subseteq DOMAIN d, ~d.done,
         accCalls' = accCalls \cup {d},
         UNCHANGED <<accRoles, accGroups, accMade, accUnread, accShown>>,
         accExpanded' \in (accMade \cap Groups) \cup {None},
         d.op \in Rights!ListOps \cup {"expand", "effective"},
         d.op \in Rights!GroupOps => d.of \in accMade,
         d.op = "createGroup" => d.of \in Groups,
         d.op = "createRole" => d.of \notin BuiltIn
  PROVE  RightsTyped'
  BY DEF RightsTyped

LEMMA SentRoles ==
  ASSUME "roles" \notin accRaced => RolesSettled, NEW d, ~d.done, d.op \in Rights!ListOps,
         accCalls' = accCalls \cup {d}, UNCHANGED <<accRoles, accShown>>,
         accRaced \subseteq accRaced',
         Rights!Waiting(Rights!ListOps) => "roles" \in accRaced',
         "roles" \notin accRaced' => (d.op = "toggle" => IsToggle(d))
  PROVE  "roles" \notin accRaced' => RolesSettled'
<1> SUFFICES ASSUME "roles" \notin accRaced' PROVE RolesSettled'
  OBVIOUS
<1>1. RolesSettled /\ \A c \in accCalls : c.op \notin Rights!ListOps
  BY DEF Rights!Waiting
<1>2. RoleOps \subseteq Rights!ListOps /\ {"toggle", "refresh"} \subseteq Rights!ListOps
  BY DEF Rights!ListOps, RoleOps
<1>3. IsToggle(d)' <=> IsToggle(d)
  BY DEF IsToggle
<1> QED BY <1>1, <1>2, <1>3 DEF RolesSettled

LEMMA SentMembers ==
  ASSUME "groups" \notin accRaced => MembersSettled, NEW d, ~d.done, d.live,
         d.op \in Rights!GroupOps, d.op \in MemberOps => accExpanded' = d.of,
         d.op \notin MemberOps => UNCHANGED accExpanded,
         accCalls' = accCalls \cup {d}, UNCHANGED <<accGroups, accUnread, accMembers>>,
         accRaced \subseteq accRaced',
         Rights!Waiting(Rights!GroupOps) => "groups" \in accRaced'
  PROVE  "groups" \notin accRaced' => MembersSettled'
<1> SUFFICES ASSUME "groups" \notin accRaced' PROVE MembersSettled'
  OBVIOUS
<1>1. MembersSettled /\ \A c \in accCalls : c.op \notin Rights!GroupOps
  BY DEF Rights!Waiting
<1>2. MemberOps \subseteq Rights!GroupOps /\ {"expand", "reread"} \subseteq MemberOps
  BY DEF Rights!GroupOps, MemberOps
<1>3. \A g : Rights!Told(g)' = Rights!Told(g)
  BY DEF Rights!Told
<1> QED BY <1>1, <1>2, <1>3 DEF MembersSettled

LEMMA RacedOnTabs ==
  ASSUME NEW tabs, Rights!Race(tabs)
  PROVE  /\ accRaced \subseteq accRaced'
         /\ "roles" \in tabs /\ Rights!Waiting(Rights!ListOps) => "roles" \in accRaced'
         /\ "groups" \in tabs /\ Rights!Waiting(Rights!GroupOps) => "groups" \in accRaced'
         /\ "overview" \in tabs /\ Rights!Waiting({"effective"}) => "overview" \in accRaced'
<1>1. /\ Rights!Awaited("roles") = Rights!ListOps
      /\ Rights!Awaited("groups") = Rights!GroupOps
      /\ Rights!Awaited("overview") = {"effective"}
  BY DEF Rights!Awaited
<1>2. accRaced' = accRaced \cup {tab \in tabs : Rights!Waiting(Rights!Awaited(tab))}
  BY Zenon DEF Rights!Race
<1> QED BY <1>1, <1>2

\* A write is sent: the lists are waited for, and the members if it is of them.
LEMMA WriteSent ==
  ASSUME RightsInv, NEW d, NEW tabs, RightsFields \subseteq DOMAIN d, ~d.done, d.live,
         d.op \in Rights!ListOps, accCalls' = accCalls \cup {d},
         UNCHANGED <<accRoles, accGroups, accMade, accUnread, accShown>>,
         UNCHANGED <<accExpanded, accMembers, accUser, accPerms>>,
         "roles" \in tabs, Rights!Race(tabs),
         d.op \in Rights!GroupOps => d.of \in accMade /\ "groups" \in tabs,
         d.op \in MemberOps => accExpanded = d.of,
         d.op = "createGroup" => d.of \in Groups,
         d.op = "createRole" => d.of \notin BuiltIn,
         "roles" \notin accRaced' => (d.op = "toggle" => IsToggle(d))
  PROVE  RightsInv'
<1>1. /\ accRaced \subseteq accRaced'
      /\ Rights!Waiting(Rights!ListOps) => "roles" \in accRaced'
      /\ "groups" \in tabs /\ Rights!Waiting(Rights!GroupOps) => "groups" \in accRaced'
  BY RacedOnTabs, Zenon
<1>2. RightsTyped'
  BY SentTyped DEF RightsInv, RightsTyped
<1>3. "roles" \notin accRaced' => RolesSettled'
  BY <1>1, SentRoles DEF RightsInv
<1>4. "groups" \notin accRaced' => MembersSettled'
  <2>1. CASE d.op \in Rights!GroupOps
    BY <1>1, <2>1, SentMembers DEF RightsInv
  <2>2. CASE d.op \notin Rights!GroupOps
    BY <1>1, <2>2, MembersUndisturbed DEF RightsInv
  <2> QED BY <2>1, <2>2
<1>5. "overview" \notin accRaced' => OverviewSettled'
  <2>1. d.op # "effective"
    BY DEF Rights!ListOps
  <2> QED BY <1>1, <2>1, OverviewUndisturbed DEF RightsInv
<1> QED BY <1>2, <1>3, <1>4, <1>5 DEF RightsInv

LEMMA ToggleSends == ASSUME RightsInv, Rights!HandleToggle PROVE RightsInv'
<1>1. PICK r \in DOMAIN accShown.roles, perm \in Perms :
        /\ <<r, perm>> \in Rights!Matrix
        /\ Rights!Send([Rights!Request("toggle", r) EXCEPT
                          !.set = Rights!Toggled(accShown.roles[r], perm)])
  BY Zenon DEF Rights!HandleToggle
<1>2. /\ Rights!On("roles") /\ Rights!Race({"roles"}) /\ UNCHANGED Rights!local
  BY Zenon DEF Rights!HandleToggle
<1> DEFINE d == [Rights!Request("toggle", r) EXCEPT
                   !.set = Rights!Toggled(accShown.roles[r], perm)]
<1>3. /\ RightsFields \subseteq DOMAIN d /\ d.op = "toggle" /\ d.of = r
      /\ d.set = Rights!Toggled(accShown.roles[r], perm) /\ ~d.done /\ d.live
  BY RequestOf DEF RightsFields
<1>4. accCalls' = accCalls \cup {d}
  BY <1>1 DEF Rights!Send
<1> HIDE DEF d
<1>5. /\ ~accShown.loading /\ UNCHANGED <<accRoles, accGroups, accMade, accUnread, accShown>>
      /\ UNCHANGED <<accExpanded, accMembers, accUser, accPerms>>
  BY <1>2 DEF Rights!On, Rights!local, Rights!server, Rights!tables
<1>6. "roles" \notin accRaced' => IsToggle(d)
  <2> SUFFICES ASSUME "roles" \notin accRaced', d.of \in DOMAIN accRoles PROVE IsToggle(d)
    BY DEF IsToggle
  <2>1. ~Rights!Waiting(Rights!ListOps) /\ "roles" \notin accRaced
    BY <1>2, RacedOnTabs
  <2>2. accShown.roles = accRoles \/ accShown.roles = <<>>
    BY <1>5, <2>1 DEF RightsInv, RolesSettled, Rights!Waiting, Rights!ListOps, RoleOps
  <2>3. accShown.roles = accRoles
    BY <2>2
  <2>4. <<r, perm>> # <<Admin, Admin>>
    BY <1>1 DEF Rights!Matrix
  <2> QED BY <1>3, <2>3, <2>4 DEF IsToggle
<1>7. "toggle" \in Rights!ListOps /\ "toggle" \notin Rights!GroupOps \cup MemberOps
  BY DEF Rights!ListOps, Rights!GroupOps, MemberOps
<1> QED BY <1>2, <1>3, <1>4, <1>5, <1>6, <1>7, WriteSent

LEMMA RoleWrites ==
  ASSUME RightsInv, Rights!CreateRole \/ Rights!DeleteRole PROVE RightsInv'
<1>1. /\ Rights!On("roles") /\ Rights!Race({"roles"}) /\ UNCHANGED Rights!local
  BY Zenon DEF Rights!CreateRole, Rights!DeleteRole
<1> DEFINE Sends == \E d : /\ RightsFields \subseteq DOMAIN d /\ ~d.done /\ d.live
                           /\ d.op \in {"createRole", "deleteRole"}
                           /\ d.op = "createRole" => d.of \notin BuiltIn
                           /\ accCalls' = accCalls \cup {d}
<1>2. Sends
  <2>1. ASSUME NEW r \in Roles \ BuiltIn, NEW set,
               Rights!Send([Rights!Request("createRole", r) EXCEPT !.set = set])
        PROVE  Sends
    <3>1. PICK d : d = [Rights!Request("createRole", r) EXCEPT !.set = set]
      OBVIOUS
    <3>2. /\ RightsFields \subseteq DOMAIN d /\ ~d.done /\ d.live
          /\ d.op = "createRole" /\ d.of = r
      BY <3>1, RequestOf DEF RightsFields
    <3> QED BY <2>1, <3>1, <3>2 DEF Rights!Send
  <2>2. ASSUME NEW r, Rights!Send(Rights!Request("deleteRole", r))
        PROVE  Sends
    BY <2>2, RequestOf DEF Rights!Send
  <2> QED BY <2>1, <2>2, Zenon DEF Rights!CreateRole, Rights!DeleteRole
<1>3. PICK d : /\ RightsFields \subseteq DOMAIN d /\ ~d.done /\ d.live
               /\ d.op \in {"createRole", "deleteRole"}
               /\ d.op = "createRole" => d.of \notin BuiltIn
               /\ accCalls' = accCalls \cup {d}
  BY <1>2
<1> HIDE DEF Sends
<1>4. /\ UNCHANGED <<accRoles, accGroups, accMade, accUnread, accShown>>
      /\ UNCHANGED <<accExpanded, accMembers, accUser, accPerms>>
  BY <1>1 DEF Rights!On, Rights!local, Rights!server, Rights!tables
<1>5. d.op \in Rights!ListOps /\ d.op \notin Rights!GroupOps \cup MemberOps
  BY <1>3 DEF Rights!ListOps, Rights!GroupOps, MemberOps
<1> QED BY <1>1, <1>3, <1>4, <1>5, WriteSent

LEMMA GroupWrites ==
  ASSUME RightsInv, Rights!ChangeMember \/ Rights!DeleteGroup PROVE RightsInv'
<1>1. /\ Rights!On("groups") /\ Rights!Race({"roles", "groups"}) /\ UNCHANGED Rights!local
  BY Zenon DEF Rights!ChangeMember, Rights!DeleteGroup
<1>2. PICK d : /\ RightsFields \subseteq DOMAIN d /\ ~d.done /\ d.live
               /\ d.op \in {"add", "remove", "deleteGroup"} /\ d.of \in accShown.groups
               /\ d.op \in {"add", "remove"} => d.of = accExpanded
               /\ accCalls' = accCalls \cup {d}
  <2>1. CASE Rights!ChangeMember
    <3>1. PICK u \in Users :
            Rights!Send([Rights!Request(IF u \in accMembers THEN "remove" ELSE "add", accExpanded)
                           EXCEPT !.who = u])
      BY <2>1, Zenon DEF Rights!ChangeMember
    <3>2. PICK op \in {"add", "remove"} :
            Rights!Send([Rights!Request(op, accExpanded) EXCEPT !.who = u])
      BY <3>1
    <3>3. PICK d : d = [Rights!Request(op, accExpanded) EXCEPT !.who = u]
      OBVIOUS
    <3>4. /\ RightsFields \subseteq DOMAIN d /\ ~d.done /\ d.live
          /\ d.op = op /\ d.of = accExpanded
      BY <3>3, RequestOf DEF RightsFields
    <3>5. accExpanded \in accShown.groups
      BY <2>1 DEF Rights!ChangeMember, Rights!GroupRows
    <3> QED BY <3>2, <3>3, <3>4, <3>5 DEF Rights!Send
  <2>2. CASE Rights!DeleteGroup
    <3>1. PICK g \in accShown.groups : Rights!Send(Rights!Request("deleteGroup", g))
      BY <2>2 DEF Rights!DeleteGroup, Rights!GroupRows
    <3> QED BY <3>1, RequestOf DEF Rights!Send
  <2> QED BY <2>1, <2>2
<1>3. /\ UNCHANGED <<accRoles, accGroups, accMade, accUnread, accShown>>
      /\ UNCHANGED <<accExpanded, accMembers, accUser, accPerms>>
  BY <1>1 DEF Rights!On, Rights!local, Rights!server, Rights!tables
<1>4. d.op \in Rights!ListOps /\ d.of \in accMade
      /\ (d.op \in MemberOps => d.op \in {"add", "remove"})
  BY <1>2 DEF Rights!ListOps, MemberOps, RightsInv, RightsTyped
<1> QED BY <1>1, <1>2, <1>3, <1>4, WriteSent

LEMMA OtherWrites ==
  ASSUME RightsInv,
         Rights!CreateGroup \/ Rights!HandleRoleChange \/ Rights!CreateRule \/ Rights!DeleteRule
  PROVE  RightsInv'
<1>1. /\ Rights!On("groups") \/ Rights!On("rules")
      /\ Rights!Race({"roles"}) /\ UNCHANGED Rights!local
  BY Zenon DEF Rights!CreateGroup, Rights!HandleRoleChange, Rights!CreateRule,
               Rights!DeleteRule
<1> DEFINE Sends == \E d : /\ RightsFields \subseteq DOMAIN d /\ ~d.done /\ d.live
                           /\ d.op \in {"createGroup", "setRole", "createRule", "deleteRule"}
                           /\ d.op = "createGroup" => d.of \in Groups
                           /\ accCalls' = accCalls \cup {d}
<1>2. Sends
  <2>1. ASSUME NEW op \in {"createGroup", "setRole"}, NEW of,
               op = "createGroup" => of \in LocalGroups,
               Rights!Send(Rights!Request(op, of))
        PROVE  Sends
    BY <2>1, RequestOf, AccessConstants DEF Rights!Send
  <2>2. ASSUME NEW op \in {"createRule", "deleteRule"}, NEW of, NEW type,
               Rights!Send([Rights!Request(op, of) EXCEPT !.type = type])
        PROVE  Sends
    <3>1. PICK d : d = [Rights!Request(op, of) EXCEPT !.type = type]
      OBVIOUS
    <3>2. RightsFields \subseteq DOMAIN d /\ ~d.done /\ d.live /\ d.op = op
      BY <3>1, RequestOf DEF RightsFields
    <3> QED BY <2>2, <3>1, <3>2 DEF Rights!Send
  <2>3. CASE Rights!CreateGroup
    BY <2>1, <2>3 DEF Rights!CreateGroup
  <2>4. CASE Rights!HandleRoleChange
    BY <2>1, <2>4 DEF Rights!HandleRoleChange
  <2>5. CASE Rights!CreateRule \/ Rights!DeleteRule
    BY <2>2, <2>5 DEF Rights!CreateRule, Rights!DeleteRule
  <2> QED BY <2>3, <2>4, <2>5
<1>3. PICK d : /\ RightsFields \subseteq DOMAIN d /\ ~d.done /\ d.live
               /\ d.op \in {"createGroup", "setRole", "createRule", "deleteRule"}
               /\ d.op = "createGroup" => d.of \in Groups
               /\ accCalls' = accCalls \cup {d}
  BY <1>2
<1> HIDE DEF Sends
<1>4. /\ UNCHANGED <<accRoles, accGroups, accMade, accUnread, accShown>>
      /\ UNCHANGED <<accExpanded, accMembers, accUser, accPerms>>
  BY <1>1 DEF Rights!On, Rights!local, Rights!server, Rights!tables
<1>5. d.op \in Rights!ListOps /\ d.op \notin Rights!GroupOps \cup MemberOps
  BY <1>3 DEF Rights!ListOps, Rights!GroupOps, MemberOps
<1> QED BY <1>1, <1>3, <1>4, <1>5, WriteSent

\* What is not a write: a group is opened or closed, a user chosen, another tab opened.
LEMMA ExpandKeeps == ASSUME RightsInv, Rights!ToggleExpand PROVE RightsInv'
<1>1. PICK g \in accShown.groups :
        IF g = accExpanded THEN accExpanded' = None /\ UNCHANGED accCalls
        ELSE accExpanded' = g /\ Rights!Send(Rights!Request("expand", g))
  BY DEF Rights!ToggleExpand, Rights!GroupRows
<1>2. /\ UNCHANGED <<accRoles, accGroups, accMade, accUnread, accShown>>
      /\ UNCHANGED <<accMembers, accUser, accPerms>>
  BY DEF Rights!ToggleExpand, Rights!On, Rights!server, Rights!tables
<1>3. /\ accRaced \subseteq accRaced'
      /\ Rights!Waiting(Rights!GroupOps) => "groups" \in accRaced'
  BY RacedOnTabs DEF Rights!ToggleExpand
<1>4. g \in accMade \cap Groups /\ g # None
  BY AccessConstants DEF RightsInv, RightsTyped
<1>5. "expand" \in Rights!GroupOps /\ "expand" \in MemberOps /\ "expand" \notin Rights!ListOps
      /\ MemberOps \subseteq Rights!GroupOps
  BY DEF Rights!GroupOps, MemberOps, Rights!ListOps
<1>6. CASE g = accExpanded
  <2>1. accExpanded' = None /\ UNCHANGED accCalls
    BY <1>1, <1>6
  <2>2. RightsTyped'
    BY <1>2, <2>1 DEF RightsInv, RightsTyped
  <2>3. "roles" \notin accRaced' => RolesSettled'
    BY <1>2, <1>3, <2>1, RolesUndisturbed DEF RightsInv
  <2>4. "overview" \notin accRaced' => OverviewSettled'
    BY <1>2, <1>3, <2>1, OverviewUndisturbed DEF RightsInv
  <2>5. "groups" \notin accRaced' => MembersSettled'
    <3>1. None \notin DOMAIN accGroups
      BY AccessConstants DEF RightsInv, RightsTyped
    <3>2. "groups" \notin accRaced' => \A c \in accCalls : c.op \notin Rights!GroupOps
      BY <1>3 DEF Rights!Waiting
    <3> QED BY <1>2, <1>3, <1>5, <2>1, <3>1, <3>2 DEF RightsInv, MembersSettled, Rights!Told
  <2> QED BY <2>2, <2>3, <2>4, <2>5 DEF RightsInv
<1>7. CASE g # accExpanded
  <2>1. PICK d : d = Rights!Request("expand", g)
    OBVIOUS
  <2>2. /\ RightsFields \subseteq DOMAIN d /\ d.op = "expand" /\ d.of = g /\ ~d.done /\ d.live
    BY <2>1, RequestOf
  <2>3. accExpanded' = g /\ accCalls' = accCalls \cup {d}
    BY <1>1, <1>7, <2>1 DEF Rights!Send
  <2>4. RightsTyped'
    BY <1>2, <1>4, <2>2, <2>3, SentTyped DEF RightsInv
  <2>5. "roles" \notin accRaced' => RolesSettled'
    BY <1>2, <1>3, <1>5, <2>2, <2>3, RolesUndisturbed DEF RightsInv
  <2>6. "overview" \notin accRaced' => OverviewSettled'
    BY <1>2, <1>3, <2>2, <2>3, OverviewUndisturbed DEF RightsInv
  <2>7. "groups" \notin accRaced' => MembersSettled'
    BY <1>2, <1>3, <1>5, <2>2, <2>3, SentMembers DEF RightsInv
  <2> QED BY <2>4, <2>5, <2>6, <2>7 DEF RightsInv
<1> QED BY <1>6, <1>7

LEMMA LoadPermsKeeps == ASSUME RightsInv, Rights!LoadPerms PROVE RightsInv'
<1>1. PICK u : /\ accUser' = u
               /\ IF u = None THEN accPerms' = None /\ UNCHANGED accCalls
                  ELSE Rights!Send(Rights!Request("effective", u)) /\ UNCHANGED accPerms
  BY DEF Rights!LoadPerms
<1>2. /\ UNCHANGED <<accRoles, accGroups, accMade, accUnread, accShown>>
      /\ UNCHANGED <<accExpanded, accMembers>>
  BY DEF Rights!LoadPerms, Rights!On, Rights!server, Rights!tables
<1>3. /\ accRaced \subseteq accRaced'
      /\ Rights!Waiting({"effective"}) => "overview" \in accRaced'
  BY RacedOnTabs DEF Rights!LoadPerms
<1>4. "overview" \notin accRaced' => \A c \in accCalls : c.op # "effective"
  BY <1>3 DEF Rights!Waiting
<1>5. "effective" \notin Rights!ListOps \cup Rights!GroupOps
  BY DEF Rights!ListOps, Rights!GroupOps
<1>6. CASE u = None
  <2>1. accPerms' = None /\ UNCHANGED accCalls
    BY <1>1, <1>6
  <2>2. RightsTyped'
    BY <1>2, <2>1 DEF RightsInv, RightsTyped
  <2>3. "roles" \notin accRaced' => RolesSettled'
    BY <1>2, <1>3, <2>1, RolesUndisturbed DEF RightsInv
  <2>4. "groups" \notin accRaced' => MembersSettled'
    BY <1>2, <1>3, <2>1, MembersUndisturbed DEF RightsInv
  <2>5. "overview" \notin accRaced' => OverviewSettled'
    BY <1>4, <2>1 DEF OverviewSettled
  <2> QED BY <2>2, <2>3, <2>4, <2>5 DEF RightsInv
<1>7. CASE u # None
  <2>1. PICK d : d = Rights!Request("effective", u)
    OBVIOUS
  <2>2. /\ RightsFields \subseteq DOMAIN d /\ d.op = "effective" /\ d.of = u
        /\ ~d.done /\ d.live
    BY <2>1, RequestOf
  <2>3. accCalls' = accCalls \cup {d} /\ UNCHANGED accPerms
    BY <1>1, <1>7, <2>1 DEF Rights!Send
  <2>4. RightsTyped'
    BY <1>2, <1>5, <2>2, <2>3, SentTyped DEF RightsInv, RightsTyped
  <2>5. "roles" \notin accRaced' => RolesSettled'
    BY <1>2, <1>3, <1>5, <2>2, <2>3, RolesUndisturbed DEF RightsInv
  <2>6. "groups" \notin accRaced' => MembersSettled'
    BY <1>2, <1>3, <1>5, <2>2, <2>3, MembersUndisturbed DEF RightsInv
  <2>7. "overview" \notin accRaced' => OverviewSettled'
    BY <1>1, <1>4, <2>2, <2>3 DEF OverviewSettled
  <2> QED BY <2>4, <2>5, <2>6, <2>7 DEF RightsInv
<1> QED BY <1>6, <1>7

\* The tab that is left no longer takes its answers, and the next one starts anew.
LEMMA SwitchTabKeeps == ASSUME RightsInv, Rights!SwitchTab PROVE RightsInv'
<1>1. /\ accExpanded' = None /\ accUser' = None /\ accPerms' = None
      /\ accCalls' = {[c EXCEPT !.live = FALSE] : c \in accCalls}
      /\ UNCHANGED <<accRoles, accGroups, accMade, accUnread, accShown, accRaced>>
  BY DEF Rights!SwitchTab, Rights!server, Rights!tables
<1>2. ASSUME NEW c \in accCalls'
      PROVE  \E e \in accCalls :
               /\ c = [e EXCEPT !.live = FALSE] /\ RightsFields \subseteq DOMAIN c
               /\ c.op = e.op /\ c.of = e.of /\ c.set = e.set /\ c.lists = e.lists
               /\ c.done = e.done /\ ~c.live
  <2>1. PICK e \in accCalls : c = [e EXCEPT !.live = FALSE]
    BY <1>1
  <2>2. RightsFields \subseteq DOMAIN e
    BY DEF RightsInv, RightsTyped
  <2> QED BY <2>1, <2>2 DEF RightsFields
<1>3. ASSUME NEW e \in accCalls
      PROVE  \E c \in accCalls' : c.op = e.op
  <2>1. RightsFields \subseteq DOMAIN e
    BY DEF RightsInv, RightsTyped
  <2>2. [e EXCEPT !.live = FALSE].op = e.op /\ [e EXCEPT !.live = FALSE] \in accCalls'
    BY <1>1, <2>1 DEF RightsFields
  <2> QED BY <2>2
<1>4. ASSUME NEW ops,
             \A e, f \in accCalls : e.op \in ops /\ f.op \in ops => e = f,
             NEW c \in accCalls', NEW d \in accCalls', c.op \in ops, d.op \in ops
      PROVE  c = d
  <2>1. PICK e \in accCalls : c = [e EXCEPT !.live = FALSE] /\ c.op = e.op
    BY <1>2
  <2>2. PICK f \in accCalls : d = [f EXCEPT !.live = FALSE] /\ d.op = f.op
    BY <1>2
  <2>3. e = f
    BY <1>4, <2>1, <2>2
  <2> QED BY <2>1, <2>2, <2>3
<1>5. RightsTyped'
  BY <1>1, <1>2 DEF RightsInv, RightsTyped
<1>6. "roles" \notin accRaced' => RolesSettled'
  <2> SUFFICES ASSUME "roles" \notin accRaced PROVE RolesSettled'
    BY <1>1
  <2>1. RolesSettled
    BY DEF RightsInv
  <2>2. \A c, d \in accCalls' : c.op \in Rights!ListOps /\ d.op \in Rights!ListOps => c = d
    BY <1>4, <2>1 DEF RolesSettled
  <2>3. \A c \in accCalls' : c.op = "toggle" /\ ~c.done => IsToggle(c)'
    BY <1>1, <1>2, <2>1 DEF RolesSettled, IsToggle
  <2>4. \A c \in accCalls' : c.op = "refresh" /\ c.done => c.lists.roles = accRoles'
    BY <1>1, <1>2, <2>1 DEF RolesSettled
  <2>5. (\A c \in accCalls' : c.op \notin RoleOps) => \A c \in accCalls : c.op \notin RoleOps
    BY <1>3
  <2> QED BY <1>1, <2>1, <2>2, <2>3, <2>4, <2>5 DEF RolesSettled
<1>7. "groups" \notin accRaced' => MembersSettled'
  <2> SUFFICES ASSUME "groups" \notin accRaced PROVE MembersSettled'
    BY <1>1
  <2>1. MembersSettled /\ None \notin DOMAIN accGroups
    BY AccessConstants DEF RightsInv, RightsTyped
  <2>2. \A c, d \in accCalls' : c.op \in Rights!GroupOps /\ d.op \in Rights!GroupOps => c = d
    BY <1>4, <2>1 DEF MembersSettled
  <2> QED BY <1>1, <1>2, <2>1, <2>2 DEF MembersSettled, Rights!Told
<1>8. "overview" \notin accRaced' => OverviewSettled'
  <2> SUFFICES ASSUME "overview" \notin accRaced PROVE OverviewSettled'
    BY <1>1
  <2>1. OverviewSettled
    BY DEF RightsInv
  <2>2. \A c, d \in accCalls' : c.op \in {"effective"} /\ d.op \in {"effective"} => c = d
    BY <1>4, <2>1 DEF OverviewSettled
  <2> QED BY <1>1, <1>2, <2>1, <2>2 DEF OverviewSettled
<1> QED BY <1>5, <1>6, <1>7, <1>8 DEF RightsInv

LEMMA RightsUndisturbed ==
  ASSUME RightsInv, UNCHANGED <<accRoles, accGroups, accMade, accUnread, accShown, accExpanded>>,
         UNCHANGED <<accMembers, accUser, accPerms, accCalls, accRaced>>
  PROVE  RightsInv'
<1>1. RightsTyped'
  BY DEF RightsInv, RightsTyped
<1> QED BY <1>1, RolesUndisturbed, MembersUndisturbed, OverviewUndisturbed DEF RightsInv

LEMMA RightsInputs ==
  ASSUME RightsInv,
         \/ Rights!SwitchTab
         \/ Rights!HandleToggle \/ Rights!CreateRole \/ Rights!DeleteRole
         \/ Rights!ToggleExpand \/ Rights!ChangeMember \/ Rights!CreateGroup
         \/ Rights!DeleteGroup \/ Rights!HandleRoleChange
         \/ Rights!ChooseSubject \/ Rights!CreateRule \/ Rights!DeleteRule
         \/ Rights!LoadPerms
  PROVE  RightsInv'
<1>1. CASE Rights!ChooseSubject
  BY <1>1, RightsUndisturbed DEF Rights!ChooseSubject, Rights!server, Rights!tables
<1> QED BY <1>1, SwitchTabKeeps, ToggleSends, RoleWrites, ExpandKeeps, GroupWrites,
           OtherWrites, LoadPermsKeeps

-----------------------------------------------------------------------------
(* The server and its answers *)

\* A request is handled: it is as it was but for what it found.
LEMMA HandledRequest ==
  ASSUME RightsInv, NEW c \in accCalls, Rights!Handle(c)
  PROVE  \E d : /\ accCalls' = (accCalls \ {c}) \cup {d} /\ RightsFields \subseteq DOMAIN d
                /\ d.done /\ d.op = c.op /\ d.of = c.of /\ d.live = c.live
                /\ d.op = "refresh" =>
                     /\ {"loading", "roles", "groups", "rules"} \subseteq DOMAIN d.lists
                     /\ d.lists.roles = accRoles /\ d.lists.groups = DOMAIN accGroups
                     /\ ~d.lists.loading
                /\ d.op \in {"expand", "reread"} => d.set = Rights!Told(c.of)'
<1> DEFINE lists == [loading |-> FALSE, roles |-> accRoles, groups |-> DOMAIN accGroups,
                     rules |-> accRules]
<1>1. RightsFields \subseteq DOMAIN c
  BY DEF RightsInv, RightsTyped
<1>2. CASE c.op \in Rights!Reads
  <2>1. Rights!HandleRead(c)
    BY <1>2 DEF Rights!Handle
  <2>2. CASE c.op = "refresh"
    <3>1. PICK d : d = [c EXCEPT !.done = TRUE, !.lists = lists]
      OBVIOUS
    <3>2. accCalls' = (accCalls \ {c}) \cup {d}
      BY <2>1, <2>2, <3>1 DEF Rights!HandleRead, Rights!HandleLists
    <3>3. /\ RightsFields \subseteq DOMAIN d /\ d.done /\ d.op = c.op /\ d.of = c.of
          /\ d.live = c.live /\ d.lists = lists
      BY <1>1, <3>1 DEF RightsFields
    <3> QED BY <2>2, <3>2, <3>3
  <2>3. CASE c.op \in {"expand", "reread"}
    <3>1. PICK listed \in BOOLEAN :
            /\ accCalls' = (accCalls \ {c}) \cup
                 {[c EXCEPT !.done = TRUE, !.set = IF listed THEN accGroups[c.of] ELSE {}]}
            /\ accUnread' = IF listed THEN accUnread \ {c.of} ELSE accUnread \cup {c.of}
      BY <2>1, <2>3, Zenon DEF Rights!HandleRead, Rights!HandleMembers
    <3>2. UNCHANGED accGroups
      BY <2>1 DEF Rights!HandleRead, Rights!tables
    <3>3. PICK set : set = IF listed THEN accGroups[c.of] ELSE {}
      OBVIOUS
    <3>4. PICK d : d = [c EXCEPT !.done = TRUE, !.set = set]
      OBVIOUS
    <3>5. /\ RightsFields \subseteq DOMAIN d /\ d.done /\ d.op = c.op /\ d.of = c.of
          /\ d.live = c.live /\ d.set = set
      BY <1>1, <3>4 DEF RightsFields
    <3>6. set = Rights!Told(c.of)'
      BY <3>1, <3>2, <3>3 DEF Rights!Told
    <3>7. accCalls' = (accCalls \ {c}) \cup {d}
      BY <3>1, <3>3, <3>4
    <3> QED BY <2>3, <3>5, <3>6, <3>7
  <2>4. CASE c.op = "effective"
    <3>1. PICK d : d = [c EXCEPT !.done = TRUE, !.lists = c.lists]
      OBVIOUS
    <3>2. accCalls' = (accCalls \ {c}) \cup {d}
      BY <2>1, <2>4, <3>1 DEF Rights!HandleRead, Rights!HandleLists
    <3>3. /\ RightsFields \subseteq DOMAIN d /\ d.done /\ d.op = c.op /\ d.of = c.of
          /\ d.live = c.live
      BY <1>1, <3>1 DEF RightsFields
    <3> QED BY <2>4, <3>2, <3>3
  <2> QED BY <1>2, <2>2, <2>3, <2>4 DEF Rights!Reads
<1>3. CASE c.op \notin Rights!Reads
  <2>1. Rights!Handled(c)
    BY <1>3 DEF Rights!Handle, Rights!HandleWrite
  <2>2. PICK d : d = [c EXCEPT !.done = TRUE]
    OBVIOUS
  <2>3. /\ RightsFields \subseteq DOMAIN d /\ d.done /\ d.op = c.op /\ d.of = c.of
        /\ d.live = c.live
    BY <1>1, <2>2 DEF RightsFields
  <2> QED BY <1>3, <2>1, <2>2, <2>3 DEF Rights!Handled, Rights!Reads
<1> QED BY <1>2, <1>3

\* What it changes of the roles and the groups there are
LEMMA HandledTables ==
  ASSUME RightsInv, NEW c \in accCalls, Rights!Handle(c)
  PROVE  /\ accMade \subseteq accMade'
         /\ DOMAIN accRoles' \subseteq accMade' /\ DOMAIN accGroups' \subseteq accMade' \cap Groups
         /\ Admin \in DOMAIN accRoles' /\ Admin \in accRoles'[Admin]
         /\ c.op \notin Rights!ListOps \ {"refresh", "reread"} =>
              UNCHANGED <<accRoles, accGroups, accMade>>
         /\ c.op \notin {"toggle", "createRole", "deleteRole"} => UNCHANGED accRoles
         /\ \A g \in DOMAIN accGroups' :
              \/ g \in DOMAIN accGroups /\ accGroups'[g] = accGroups[g]
              \/ g \notin accMade
              \/ c.op \in {"add", "remove"}
<1>1. RightsTyped /\ ~c.done
  BY DEF RightsInv, Rights!Handle
<1>2. CASE c.op \in Rights!Reads
  <2>1. UNCHANGED <<accRoles, accGroups, accMade>>
    BY <1>2, Zenon DEF Rights!Handle, Rights!HandleRead, Rights!tables
  <2>2. c.op \notin {"toggle", "createRole", "deleteRole"}
    BY <1>2 DEF Rights!Reads
  <2> QED BY <1>1, <2>1, <2>2 DEF RightsTyped
<1>3. CASE c.op \in {"toggle", "createRole", "deleteRole"}
  <2>1. Rights!HandleRole(c)
    BY <1>3 DEF Rights!Handle, Rights!HandleWrite, Rights!Reads
  <2>2. /\ \/ c.op = "toggle" /\ Rights!UpdateRole(c)
           \/ c.op = "createRole" /\ Rights!AddRole(c)
           \/ c.op = "deleteRole" /\ Rights!DropRole(c)
        /\ UNCHANGED accGroups
    BY <1>3, <2>1 DEF Rights!HandleRole
  <2>3. CASE c.op = "toggle" /\ Rights!UpdateRole(c)
    BY <1>1, <1>3, <2>2, <2>3 DEF RightsTyped, Rights!UpdateRole, Rights!ListOps
  <2>4. CASE c.op = "createRole" /\ Rights!AddRole(c)
    BY <1>1, <1>3, <2>2, <2>4 DEF RightsTyped, Rights!AddRole, Rights!ListOps
  <2>5. CASE c.op = "deleteRole" /\ Rights!DropRole(c)
    BY <1>1, <1>3, <2>2, <2>5, AccessConstants
       DEF RightsTyped, Rights!DropRole, Rights!Restrict, Rights!ListOps
  <2> QED BY <2>2, <2>3, <2>4, <2>5
<1>4. CASE c.op \in {"createRule", "deleteRule"}
  <2>1. UNCHANGED <<accRoles, accGroups, accMade>>
    BY <1>4 DEF Rights!Handle, Rights!HandleWrite, Rights!Reads, Rights!HandleRule
  <2> QED BY <1>1, <1>4, <2>1 DEF RightsTyped
<1>5. CASE c.op \in {"createGroup", "deleteGroup", "add", "remove", "setRole"}
  <2>1. Rights!HandleGroup(c) /\ UNCHANGED accRoles
    BY <1>5 DEF Rights!Handle, Rights!HandleWrite, Rights!Reads, Rights!HandleGroup
  <2>2. c.op \in Rights!ListOps \ {"refresh", "reread"}
    BY <1>5 DEF Rights!ListOps
  <2>3. CASE c.op = "createGroup"
    <3>1. /\ c.of \notin accMade /\ accMade' = accMade \cup {c.of}
          /\ accGroups' = [g \in DOMAIN accGroups \cup {c.of} |->
                             IF g = c.of THEN {} ELSE accGroups[g]]
      BY <2>1, <2>3 DEF Rights!HandleGroup
    <3>2. c.of \in Groups
      BY <1>1, <2>3 DEF RightsTyped
    <3> QED BY <1>1, <1>5, <2>1, <2>2, <3>1, <3>2 DEF RightsTyped
  <2>4. CASE c.op # "createGroup"
    <3>1. UNCHANGED accMade
      BY <2>1, <2>4 DEF Rights!HandleGroup
    <3>2. CASE c.op = "deleteGroup"
      <4>1. accGroups' = [g \in DOMAIN accGroups \ {c.of} |-> accGroups[g]]
        BY <2>1, <3>2 DEF Rights!HandleGroup, Rights!Restrict
      <4> QED BY <1>1, <1>5, <2>1, <2>2, <3>1, <4>1 DEF RightsTyped
    <3>3. CASE c.op \in {"add", "remove"}
      <4>1. DOMAIN accGroups' = DOMAIN accGroups
        BY <2>1, <3>3 DEF Rights!HandleGroup
      <4> QED BY <1>1, <1>5, <2>1, <2>2, <3>1, <3>3, <4>1 DEF RightsTyped
    <3>4. CASE c.op = "setRole"
      <4>1. UNCHANGED accGroups
        BY <2>1, <3>4 DEF Rights!HandleGroup
      <4> QED BY <1>1, <1>5, <2>1, <2>2, <3>1, <4>1 DEF RightsTyped
    <3> QED BY <1>5, <2>4, <3>2, <3>3, <3>4
  <2> QED BY <2>3, <2>4
<1>6. c.op \in Rights!ListOps \cup {"expand", "effective"}
  BY <1>1 DEF RightsTyped
<1> QED BY <1>2, <1>3, <1>4, <1>5, <1>6 DEF Rights!ListOps, Rights!Reads

\* Which members it could read is only noted of the group that was asked for.
LEMMA HandledUnread ==
  ASSUME NEW c, Rights!Handle(c), NEW g, c.op \in {"expand", "reread"} => g # c.of
  PROVE  g \in accUnread' <=> g \in accUnread
<1>1. CASE c.op \in Rights!Reads
  BY <1>1 DEF Rights!Handle, Rights!HandleRead, Rights!HandleMembers, Rights!HandleLists
<1>2. CASE c.op \notin Rights!Reads
  BY <1>2 DEF Rights!Handle, Rights!HandleWrite
<1> QED BY <1>1, <1>2

LEMMA RightsHandled ==
  ASSUME RightsInv, NEW c \in accCalls, Rights!Handle(c)
  PROVE  RightsInv'
<1>1. PICK d : /\ accCalls' = (accCalls \ {c}) \cup {d} /\ RightsFields \subseteq DOMAIN d
               /\ d.done /\ d.op = c.op /\ d.of = c.of /\ d.live = c.live
               /\ d.op = "refresh" =>
                    /\ {"loading", "roles", "groups", "rules"} \subseteq DOMAIN d.lists
                    /\ d.lists.roles = accRoles /\ d.lists.groups = DOMAIN accGroups
                    /\ ~d.lists.loading
               /\ d.op \in {"expand", "reread"} => d.set = Rights!Told(c.of)'
  BY HandledRequest
<1>2. /\ UNCHANGED <<accShown, accExpanded, accMembers, accUser, accPerms, accRaced>>
      /\ ~c.done
  BY DEF Rights!Handle, Rights!local
<1>3. RightsTyped
  BY DEF RightsInv
<1>4. RightsTyped'
  <2>1. accMade \subseteq accMade' /\ accMade \subseteq accMade' \cup Groups
    BY HandledTables
  <2>2. /\ DOMAIN accRoles' \subseteq accMade'
        /\ DOMAIN accGroups' \subseteq accMade' \cap Groups
        /\ Admin \in DOMAIN accRoles' /\ Admin \in accRoles'[Admin]
    BY HandledTables
  <2> QED BY <1>1, <1>2, <1>3, <2>1, <2>2 DEF RightsTyped
<1>5. "roles" \notin accRaced' => RolesSettled'
  <2> SUFFICES ASSUME "roles" \notin accRaced PROVE RolesSettled'
    BY <1>2
  <2>1. RolesSettled /\ {"toggle", "refresh"} \subseteq Rights!ListOps
    BY DEF RightsInv, Rights!ListOps
  <2>2. CASE c.op \in Rights!ListOps
    <3>1. \A e \in accCalls' : e.op \in Rights!ListOps => e = d
      BY <1>1, <2>1, <2>2 DEF RolesSettled
    <3>2. d \in accCalls' /\ d.op \in Rights!ListOps
      BY <1>1, <2>2
    <3>3. c.op = "refresh" \/ c.op \notin RoleOps => UNCHANGED accRoles
      BY HandledTables DEF RoleOps
    <3> QED BY <1>1, <1>2, <2>1, <3>1, <3>2, <3>3 DEF RolesSettled
  <2>3. CASE c.op \notin Rights!ListOps
    <3>1. UNCHANGED accRoles
      BY <2>3, HandledTables
    <3> QED BY <1>1, <1>2, <1>3, <2>1, <2>3, <3>1, RolesUndisturbed
  <2> QED BY <2>2, <2>3
<1>6. "groups" \notin accRaced' => MembersSettled'
  <2> SUFFICES ASSUME "groups" \notin accRaced PROVE MembersSettled'
    BY <1>2
  <2>1. /\ MembersSettled /\ MemberOps \subseteq Rights!GroupOps
        /\ {"expand", "reread", "add", "remove"} \subseteq MemberOps
    BY DEF RightsInv, Rights!GroupOps, MemberOps
  <2>2. \A e, f \in accCalls' : e.op \in Rights!GroupOps /\ f.op \in Rights!GroupOps => e = f
    BY <1>1, <2>1 DEF MembersSettled
  <2>3. \A e \in accCalls' : e.op \in MemberOps => accExpanded' = IF e.live THEN e.of ELSE None
    BY <1>1, <1>2, <2>1 DEF MembersSettled
  <2>4. ASSUME NEW e \in accCalls', e.op \in {"expand", "reread"}, e.done,
               e.of \in DOMAIN accGroups'
        PROVE  e.set = Rights!Told(e.of)'
    <3>1. CASE e = d
      BY <1>1, <2>4, <3>1
    <3>2. CASE e # d
      <4>1. e \in accCalls /\ e # c /\ e.op \in Rights!GroupOps
        BY <1>1, <2>1, <2>4, <3>2
      <4>2. c.op \notin {"add", "remove"} /\ e.of \in accMade
        BY <1>3, <2>1, <4>1 DEF MembersSettled, RightsTyped
      <4>3. e.of \in DOMAIN accGroups /\ accGroups'[e.of] = accGroups[e.of]
        BY <2>4, <4>2, HandledTables
      <4>4. e.of \in accUnread' <=> e.of \in accUnread
        BY <2>1, <4>1, HandledUnread DEF MembersSettled
      <4>5. Rights!Told(e.of)' = Rights!Told(e.of)
        BY <4>3, <4>4 DEF Rights!Told
      <4> QED BY <2>1, <2>4, <4>1, <4>3, <4>5 DEF MembersSettled
    <3> QED BY <3>1, <3>2
  <2>5. ASSUME \A e \in accCalls' : e.op \notin MemberOps, accExpanded' \in DOMAIN accGroups'
        PROVE  accMembers' = Rights!Told(accExpanded)'
    <3>1. \A e \in accCalls : e.op \notin MemberOps
      BY <1>1, <2>5
    <3>2. accExpanded \in accMade
      BY <1>2, <1>3, <2>5, AccessConstants, HandledTables DEF RightsTyped
    <3>3. accExpanded \in DOMAIN accGroups /\ accGroups'[accExpanded] = accGroups[accExpanded]
      BY <1>2, <2>1, <2>5, <3>1, <3>2, HandledTables
    <3>4. accExpanded \in accUnread' <=> accExpanded \in accUnread
      BY <2>1, <3>1, HandledUnread
    <3>5. Rights!Told(accExpanded)' = Rights!Told(accExpanded)
      BY <1>2, <3>3, <3>4 DEF Rights!Told
    <3> QED BY <1>2, <2>1, <3>1, <3>3, <3>5 DEF MembersSettled
  <2> QED BY <2>2, <2>3, <2>4, <2>5 DEF MembersSettled
<1>7. "overview" \notin accRaced' => OverviewSettled'
  BY <1>1, <1>2 DEF RightsInv, OverviewSettled
<1> QED BY <1>4, <1>5, <1>6, <1>7 DEF RightsInv

LEMMA FollowRequest ==
  ASSUME RightsInv, NEW c \in accCalls, NEW op, Rights!Follow(c, op)
  PROVE  \E d : /\ accCalls' = (accCalls \ {c}) \cup {d} /\ RightsFields \subseteq DOMAIN d
                /\ ~d.done /\ d.op = op /\ d.of = c.of /\ d.live = c.live
<1>1. PICK d : d = [c EXCEPT !.op = op, !.set = {}, !.lists = Rights!NoLists, !.done = FALSE]
  OBVIOUS
<1>2. RightsFields \subseteq DOMAIN c
  BY DEF RightsInv, RightsTyped
<1>3. /\ RightsFields \subseteq DOMAIN d /\ ~d.done /\ d.op = op /\ d.of = c.of
      /\ d.live = c.live
  BY <1>1, <1>2 DEF RightsFields
<1> QED BY <1>1, <1>3 DEF Rights!Follow

\* What was written is read again: there is still one request.
LEMMA FollowTyped ==
  ASSUME RightsInv, NEW c \in accCalls, NEW d, RightsFields \subseteq DOMAIN d, ~d.done,
         d.op \in {"refresh", "reread"}, d.op = "reread" => c.op \in {"add", "remove"}, d.of = c.of,
         accCalls' = (accCalls \ {c}) \cup {d},
         UNCHANGED <<accRoles, accGroups, accMade, accUnread, accShown, accExpanded>>
  PROVE  RightsTyped'
  BY DEF RightsInv, RightsTyped, Rights!ListOps, Rights!GroupOps

LEMMA FollowRoles ==
  ASSUME RightsInv, NEW c \in accCalls, c.op \in Rights!ListOps, NEW d, ~d.done,
         d.op \in {"refresh", "reread"}, d.op = "reread" => c.op \notin RoleOps,
         accCalls' = (accCalls \ {c}) \cup {d},
         UNCHANGED <<accRoles, accShown, accRaced>>
  PROVE  "roles" \notin accRaced' => RolesSettled'
<1> SUFFICES ASSUME "roles" \notin accRaced PROVE RolesSettled'
  OBVIOUS
<1>1. /\ RolesSettled /\ d.op \in Rights!ListOps /\ "refresh" \in RoleOps
      /\ {"toggle", "refresh"} \subseteq Rights!ListOps
  BY DEF RightsInv, Rights!ListOps, RoleOps
<1>2. \A e \in accCalls' : e.op \in Rights!ListOps => e = d
  BY <1>1 DEF RolesSettled
<1> QED BY <1>1, <1>2 DEF RolesSettled

LEMMA FollowKeeps ==
  ASSUME RightsInv, NEW c \in accCalls, c.op \in Rights!ListOps \ {"reread"},
         Rights!Follow(c, IF c.op \in {"add", "remove"} THEN "reread" ELSE "refresh"),
         UNCHANGED <<accRoles, accGroups, accMade, accUnread, accShown, accRaced>>,
         UNCHANGED <<accExpanded, accMembers, accUser, accPerms>>
  PROVE  RightsInv'
<1>1. PICK d : /\ accCalls' = (accCalls \ {c}) \cup {d} /\ RightsFields \subseteq DOMAIN d
               /\ ~d.done /\ d.of = c.of /\ d.live = c.live
               /\ d.op = IF c.op \in {"add", "remove"} THEN "reread" ELSE "refresh"
  BY FollowRequest
<1>2. RightsTyped'
  BY <1>1, FollowTyped
<1>3. "roles" \notin accRaced' => RolesSettled'
  BY <1>1, FollowRoles DEF RoleOps
<1>4. "overview" \notin accRaced' => OverviewSettled'
  <2>1. c.op # "effective" /\ d.op # "effective"
    BY <1>1 DEF Rights!ListOps
  <2> QED BY <1>1, <2>1, OverviewUndisturbed DEF RightsInv
<1>5. "groups" \notin accRaced' => MembersSettled'
  <2> SUFFICES ASSUME "groups" \notin accRaced PROVE MembersSettled'
    OBVIOUS
  <2>1. MembersSettled
    BY DEF RightsInv
  <2>2. CASE c.op \in {"add", "remove"}
    <3>1. c.op \in MemberOps /\ d.op \in MemberOps /\ MemberOps \subseteq Rights!GroupOps
          /\ {"expand", "reread"} \subseteq MemberOps
      BY <1>1, <2>2 DEF MemberOps, Rights!GroupOps
    <3>2. \A e \in accCalls' : e.op \in Rights!GroupOps => e = d
      BY <1>1, <2>1, <3>1 DEF MembersSettled
    <3>3. accExpanded = IF d.live THEN d.of ELSE None
      BY <1>1, <2>1, <3>1 DEF MembersSettled
    <3> QED BY <1>1, <3>1, <3>2, <3>3 DEF MembersSettled
  <2>3. CASE c.op \notin {"add", "remove"}
    <3>1. d.op \notin Rights!GroupOps /\ c.op \notin MemberOps
          /\ MemberOps \subseteq Rights!GroupOps /\ {"expand", "reread"} \subseteq MemberOps
      BY <1>1, <2>3 DEF Rights!GroupOps, MemberOps, Rights!ListOps
    <3> QED BY <1>1, <2>1, <3>1 DEF MembersSettled, Rights!Told
  <2> QED BY <2>2, <2>3
<1> QED BY <1>2, <1>3, <1>4, <1>5 DEF RightsInv

\* A request is over.
LEMMA GoneTyped ==
  ASSUME RightsInv, accCalls' \subseteq accCalls,
         UNCHANGED <<accRoles, accGroups, accMade, accUnread, accExpanded>>,
         {"loading", "roles", "groups", "rules"} \subseteq DOMAIN accShown',
         accShown'.groups \subseteq accMade \cap Groups
  PROVE  RightsTyped'
  BY DEF RightsInv, RightsTyped

LEMMA GoneRoles ==
  ASSUME RightsInv, NEW c \in accCalls, accCalls' = accCalls \ {c},
         UNCHANGED accRoles, accRaced \subseteq accRaced',
         \/ "roles" \in accRaced'
         \/ accShown'.roles \in {accRoles, <<>>}
         \/ c.op \notin RoleOps /\ UNCHANGED accShown
  PROVE  "roles" \notin accRaced' => RolesSettled'
<1> SUFFICES ASSUME "roles" \notin accRaced' PROVE RolesSettled'
  OBVIOUS
<1>1. RolesSettled
  BY DEF RightsInv
<1>2. \A e : IsToggle(e)' <=> IsToggle(e)
  BY DEF IsToggle
<1> QED BY <1>1, <1>2 DEF RolesSettled

LEMMA WriteReceived ==
  ASSUME RightsInv, NEW c \in accCalls, NEW ok, c.op \in Rights!ListOps \ {"refresh", "reread"},
         Rights!ReceiveWrite(c, ok), UNCHANGED Rights!server
  PROVE  RightsInv'
<1>1. /\ UNCHANGED <<accRoles, accGroups, accMade, accUnread, accShown>>
      /\ UNCHANGED <<accExpanded, accMembers, accUser, accPerms>>
  BY DEF Rights!ReceiveWrite, Rights!server, Rights!tables
<1>2. CASE ok
  <2>1. /\ Rights!Follow(c, IF c.op \in {"add", "remove"} THEN "reread" ELSE "refresh")
        /\ UNCHANGED accRaced
    BY <1>2, Zenon DEF Rights!ReceiveWrite
  <2> QED BY <1>1, <2>1, FollowKeeps
<1>3. CASE ~ok
  <2>1. accCalls' = accCalls \ {c} /\ accRaced' = accRaced \cup {"roles", "groups"}
    BY <1>3, Zenon DEF Rights!ReceiveWrite
  <2>2. RightsTyped'
    BY <1>1, <2>1, GoneTyped DEF RightsInv, RightsTyped
  <2>3. "overview" \notin accRaced' => OverviewSettled'
    <3>1. c.op # "effective"
      BY DEF Rights!ListOps
    <3> QED BY <1>1, <2>1, <3>1, OverviewUndisturbed DEF RightsInv
  <2> QED BY <2>1, <2>2, <2>3 DEF RightsInv
<1> QED BY <1>2, <1>3

LEMMA RefreshReceived ==
  ASSUME RightsInv, NEW c \in accCalls, NEW ok, c.op = "refresh", ok => c.done,
         Rights!ReceiveRefresh(c, ok), UNCHANGED Rights!server
  PROVE  RightsInv'
<1>1. /\ UNCHANGED <<accRoles, accGroups, accMade, accUnread>>
      /\ UNCHANGED <<accExpanded, accMembers, accUser, accPerms>>
      /\ accCalls' = accCalls \ {c}
  BY DEF Rights!ReceiveRefresh, Rights!server, Rights!tables, Rights!local
<1>2. c.op \notin Rights!GroupOps \cup {"effective"} /\ "refresh" \in Rights!ListOps
  BY DEF Rights!GroupOps, Rights!ListOps
<1>3. /\ accRaced \subseteq accRaced' /\ (~ok => "roles" \in accRaced')
      /\ ok => UNCHANGED accRaced
  BY DEF Rights!ReceiveRefresh
<1>4. "groups" \notin accRaced' => MembersSettled'
  BY <1>1, <1>2, <1>3, MembersUndisturbed DEF RightsInv
<1>5. "overview" \notin accRaced' => OverviewSettled'
  BY <1>1, <1>2, <1>3, OverviewUndisturbed DEF RightsInv
<1>6. CASE ok
  <2>1. accShown' \in {c.lists, [c.lists EXCEPT !.roles = <<>>]}
    BY <1>6, Zenon DEF Rights!ReceiveRefresh
  <2>2. /\ {"loading", "roles", "groups", "rules"} \subseteq DOMAIN c.lists
        /\ c.lists.groups \subseteq accMade \cap Groups
    BY <1>6 DEF RightsInv, RightsTyped
  <2>3. /\ {"loading", "roles", "groups", "rules"} \subseteq DOMAIN accShown'
        /\ accShown'.groups = c.lists.groups
        /\ accShown'.roles \in {c.lists.roles, <<>>}
    BY <2>1, <2>2
  <2>4. RightsTyped'
    BY <1>1, <2>2, <2>3, GoneTyped
  <2>5. "roles" \notin accRaced => c.lists.roles = accRoles
    BY <1>6 DEF RightsInv, RolesSettled
  <2>6. "roles" \notin accRaced' => RolesSettled'
    BY <1>1, <1>3, <2>3, <2>5, GoneRoles
  <2> QED BY <1>4, <1>5, <2>4, <2>6 DEF RightsInv
<1>7. CASE ~ok
  <2>1. accShown' = [accShown EXCEPT !.loading = FALSE]
    BY <1>7, Zenon DEF Rights!ReceiveRefresh
  <2>2. RightsTyped'
    BY <1>1, <2>1, GoneTyped DEF RightsInv, RightsTyped
  <2> QED BY <1>3, <1>4, <1>5, <1>7, <2>2 DEF RightsInv
<1> QED BY <1>6, <1>7

LEMMA MembersReceived ==
  ASSUME RightsInv, NEW c \in accCalls, NEW ok \in BOOLEAN, c.op \in {"expand", "reread"}, ok => c.done,
         Rights!ReceiveMembers(c, ok), UNCHANGED Rights!server
  PROVE  RightsInv'
<1>1. /\ UNCHANGED <<accRoles, accGroups, accMade, accUnread, accShown>>
      /\ UNCHANGED <<accExpanded, accUser, accPerms>>
      /\ accRaced \subseteq accRaced' /\ (~ok => "groups" \in accRaced')
      /\ ok => UNCHANGED accRaced
  BY DEF Rights!ReceiveMembers, Rights!server, Rights!tables
<1>2. /\ c.op \in MemberOps /\ c.op # "effective" /\ MemberOps \subseteq Rights!GroupOps
      /\ "refresh" \notin Rights!GroupOps \cup {"effective"}
      /\ {"expand", "reread"} \subseteq MemberOps
  BY DEF MemberOps, Rights!GroupOps
<1>3. \/ /\ ok /\ c.op = "reread"
         /\ \E d : /\ accCalls' = (accCalls \ {c}) \cup {d} /\ RightsFields \subseteq DOMAIN d
                   /\ ~d.done /\ d.op = "refresh" /\ d.of = c.of
      \/ ~(ok /\ c.op = "reread") /\ accCalls' = accCalls \ {c}
  BY FollowRequest DEF Rights!ReceiveMembers
<1>4. RightsTyped'
  BY <1>1, <1>3, FollowTyped, GoneTyped DEF RightsInv, RightsTyped
<1>5. "roles" \notin accRaced' => RolesSettled'
  <2>1. CASE ok /\ c.op = "reread"
    <3>1. c.op \in Rights!ListOps
      BY <2>1 DEF Rights!ListOps
    <3> QED BY <1>1, <1>3, <2>1, <3>1, FollowRoles
  <2>2. CASE ~(ok /\ c.op = "reread")
    <3>1. c.op \notin RoleOps
      BY DEF RoleOps
    <3> QED BY <1>1, <1>3, <2>2, <3>1, GoneRoles
  <2> QED BY <2>1, <2>2
<1>6. "overview" \notin accRaced' => OverviewSettled'
  BY <1>1, <1>2, <1>3, OverviewUndisturbed DEF RightsInv
<1>7. "groups" \notin accRaced' => MembersSettled'
  <2> SUFFICES ASSUME "groups" \notin accRaced' PROVE MembersSettled'
    OBVIOUS
  <2>1. MembersSettled /\ ok /\ c.done
    BY <1>1 DEF RightsInv
  <2>2. accExpanded = IF c.live THEN c.of ELSE None
    BY <1>2, <2>1 DEF MembersSettled
  <2>3. \A e \in accCalls' : e.op \notin Rights!GroupOps
    BY <1>2, <1>3, <2>1 DEF MembersSettled
  <2>4. accExpanded \in DOMAIN accGroups => accMembers' = Rights!Told(accExpanded)
    <3> SUFFICES ASSUME accExpanded \in DOMAIN accGroups
                 PROVE  accMembers' = Rights!Told(accExpanded)
      OBVIOUS
    <3>1. accExpanded # None
      BY AccessConstants DEF RightsInv, RightsTyped
    <3>2. c.live /\ accExpanded = c.of
      BY <2>2, <3>1
    <3>3. accMembers' = c.set
      BY <2>1, <3>2 DEF Rights!ReceiveMembers
    <3> QED BY <2>1, <3>2, <3>3 DEF MembersSettled
  <2>5. Rights!Told(accExpanded)' = Rights!Told(accExpanded)
    BY <1>1 DEF Rights!Told
  <2> QED BY <1>1, <1>2, <2>3, <2>4, <2>5 DEF MembersSettled
<1> QED BY <1>4, <1>5, <1>6, <1>7 DEF RightsInv

LEMMA EffectiveReceived ==
  ASSUME RightsInv, NEW c \in accCalls, NEW ok, c.op = "effective",
         Rights!ReceiveEffective(c, ok), UNCHANGED Rights!server
  PROVE  RightsInv'
<1>1. /\ UNCHANGED <<accRoles, accGroups, accMade, accUnread, accShown>>
      /\ UNCHANGED <<accExpanded, accMembers, accUser, accRaced>>
      /\ accCalls' = accCalls \ {c}
      /\ accPerms' = IF ~c.live THEN accPerms ELSE IF ok THEN c.of ELSE None
  BY DEF Rights!ReceiveEffective, Rights!server, Rights!tables
<1>2. c.op \notin RoleOps \cup Rights!GroupOps
  BY DEF RoleOps, Rights!GroupOps
<1>3. RightsTyped'
  BY <1>1, GoneTyped DEF RightsInv, RightsTyped
<1>4. "roles" \notin accRaced' => RolesSettled'
  BY <1>1, <1>2, GoneRoles
<1>5. "groups" \notin accRaced' => MembersSettled'
  BY <1>1, <1>2, MembersUndisturbed DEF RightsInv
<1>6. "overview" \notin accRaced' => OverviewSettled'
  BY <1>1 DEF RightsInv, OverviewSettled
<1> QED BY <1>3, <1>4, <1>5, <1>6 DEF RightsInv

LEMMA RightsNext == ASSUME RightsInv, Rights!Next PROVE RightsInv'
<1>1. ASSUME NEW c \in accCalls, Rights!Receive(c) PROVE RightsInv'
  <2>1. PICK ok \in {TRUE, FALSE} :
          /\ ok => c.done
          /\ CASE c.op = "refresh"              -> Rights!ReceiveRefresh(c, ok)
               [] c.op \in {"expand", "reread"} -> Rights!ReceiveMembers(c, ok)
               [] c.op = "effective"            -> Rights!ReceiveEffective(c, ok)
               [] OTHER                         -> Rights!ReceiveWrite(c, ok)
    BY <1>1, Zenon DEF Rights!Receive
  <2>2. UNCHANGED Rights!server
    BY <1>1, Zenon DEF Rights!Receive
  <2>3. CASE c.op = "refresh"
    BY <2>1, <2>2, <2>3, RefreshReceived
  <2>4. CASE c.op \in {"expand", "reread"}
    BY <2>1, <2>2, <2>4, MembersReceived
  <2>5. CASE c.op = "effective"
    BY <2>1, <2>2, <2>5, EffectiveReceived
  <2>6. CASE c.op \notin {"refresh", "expand", "reread", "effective"}
    <3>1. c.op \in Rights!ListOps \ {"refresh", "reread"}
      BY <2>6 DEF RightsInv, RightsTyped
    <3>2. Rights!ReceiveWrite(c, ok)
      BY <2>1, <2>6
    <3> QED BY <2>2, <3>1, <3>2, WriteReceived
  <2> QED BY <2>3, <2>4, <2>5, <2>6
<1> QED BY <1>1, RightsInputs, RightsHandled, Zenon DEF Rights!Next

\* A step of the window is a step of access control, or none, if it is open there.
LEMMA RightsStep ==
  [Next]_vars => page' = page /\ (page = "access" => Rights!Next \/ UNCHANGED accVars)
  BY Zenon DEF Next, Alone, vars

LEMMA RightsStutter == RightsInv /\ UNCHANGED accVars => RightsInv'
  BY RightsUndisturbed DEF accVars

LEMMA RightsInvariant == Spec => [](page = "access" => RightsInv)
<1>1. Init => (page = "access" => RightsInv)
  BY RightsInit DEF Init
<1>2. (page = "access" => RightsInv) /\ [Next]_vars => (page = "access" => RightsInv)'
  BY RightsStep, RightsNext, RightsStutter
<1> QED BY <1>1, <1>2, PTL DEF Spec

\* The members shown are those the server tells of the group that is open, and the
\* overview is the one of the user who is chosen, through every opening of groups and tabs and in
\* whatever order the answers come, once they have come to a user who waits for each.
THEOREM TabsTellTheChosen == Spec => []TabsShowTheChosen
<1>1. (page = "access" => RightsInv) => TabsShowTheChosen
  <2> SUFFICES ASSUME page = "access", RightsInv PROVE Rights!TabsShowTheChosen
    BY DEF TabsShowTheChosen
  <2>1. ASSUME accExpanded \in DOMAIN accGroups, "groups" \notin accRaced,
               ~Rights!Waiting(Rights!GroupOps)
        PROVE  accMembers = Rights!Told(accExpanded)
    BY <2>1 DEF RightsInv, MembersSettled, Rights!Waiting, Rights!GroupOps, MemberOps
  <2>2. ASSUME accPerms # None, "overview" \notin accRaced, ~Rights!Waiting({"effective"})
        PROVE  accPerms = accUser
    BY <2>2 DEF RightsInv, OverviewSettled, Rights!Waiting
  <2> QED BY <2>1, <2>2 DEF Rights!TabsShowTheChosen, Rights!OverviewShown
<1> QED BY <1>1, RightsInvariant, PTL

\* A press on one permission changes no other one of the role, whatever was written
\* before it, as long as the user waits for the page to be read again.
THEOREM PressesChangeOne == Spec => PressChangesOnePermission
<1>1. ASSUME RightsInv, Rights!Next PROVE Rights!PressChangesOnePermission
  <2> SUFFICES ASSUME "roles" \notin accRaced, NEW r \in DOMAIN accRoles,
                      r \in DOMAIN accRoles'
               PROVE  \E perm \in Perms : accRoles[r] \ {perm} = accRoles'[r] \ {perm}
    BY DEF Rights!PressChangesOnePermission
  <2>1. CASE accRoles'[r] = accRoles[r]
    BY <2>1, AccessConstants
  <2>2. ASSUME NEW c \in accCalls, Rights!Handle(c), c.op = "toggle", c.of = r
        PROVE  \E perm \in Perms : accRoles[r] \ {perm} = accRoles'[r] \ {perm}
    <3>1. accRoles' = [accRoles EXCEPT ![r] = IF r = Admin THEN c.set \cup {Admin} ELSE c.set]
      BY <2>2 DEF Rights!Handle, Rights!HandleWrite, Rights!Reads, Rights!HandleRole,
                  Rights!UpdateRole
    <3>2. PICK perm \in Perms : /\ <<r, perm>> # <<Admin, Admin>>
                                  /\ c.set = Rights!Toggled(accRoles[r], perm)
      BY <1>1, <2>2 DEF RightsInv, RolesSettled, IsToggle, Rights!Handle
    <3>3. r = Admin => perm # Admin /\ Admin \in accRoles[r]
      BY <1>1, <3>2 DEF RightsInv, RightsTyped
    <3> QED BY <3>1, <3>2, <3>3 DEF Rights!Toggled
  <2>3. ASSUME accRoles'[r] # accRoles[r]
        PROVE  \E c \in accCalls : Rights!Handle(c) /\ c.op = "toggle" /\ c.of = r
    <3>1. ~UNCHANGED accRoles
      BY <2>3
    <3>2. PICK c \in accCalls : Rights!Handle(c)
      <4>1. ASSUME NEW c \in accCalls, Rights!Receive(c) PROVE FALSE
        BY <3>1, <4>1 DEF Rights!Receive, Rights!server, Rights!tables
      <4> QED BY <1>1, <3>1, <4>1
              DEF Rights!Next, Rights!SwitchTab, Rights!HandleToggle, Rights!CreateRole,
                  Rights!DeleteRole, Rights!ToggleExpand, Rights!ChangeMember,
                  Rights!CreateGroup, Rights!DeleteGroup, Rights!HandleRoleChange,
                  Rights!ChooseSubject, Rights!CreateRule, Rights!DeleteRule,
                  Rights!LoadPerms, Rights!On, Rights!server, Rights!tables
    <3>3. c.op \in {"toggle", "createRole", "deleteRole"}
      BY <1>1, <3>1, <3>2, HandledTables
    <3>4. Rights!HandleRole(c)
      BY <3>2, <3>3 DEF Rights!Handle, Rights!HandleWrite, Rights!Reads
    <3>5. CASE c.op = "toggle"
      BY <2>3, <3>2, <3>4, <3>5 DEF Rights!HandleRole, Rights!UpdateRole
    <3>6. CASE c.op = "createRole"
      <4>1. r # c.of
        BY <1>1, <3>4, <3>6 DEF Rights!HandleRole, Rights!AddRole, RightsInv, RightsTyped
      <4> QED BY <2>3, <3>4, <3>6, <4>1 DEF Rights!HandleRole, Rights!AddRole
    <3>7. CASE c.op = "deleteRole"
      BY <2>3, <3>4, <3>7 DEF Rights!HandleRole, Rights!DropRole, Rights!Restrict
    <3> QED BY <3>3, <3>5, <3>6, <3>7
  <2> QED BY <2>1, <2>2, <2>3
<1>2. UNCHANGED accVars => Rights!PressChangesOnePermission
  <2> SUFFICES ASSUME UNCHANGED accRoles, NEW r \in DOMAIN accRoles
               PROVE  \E perm \in Perms : accRoles[r] \ {perm} = accRoles'[r] \ {perm}
    BY DEF accVars, Rights!PressChangesOnePermission
  <2> QED BY AccessConstants
<1>3. (page = "access" => RightsInv) /\ [Next]_vars
        => (page = "access" => Rights!PressChangesOnePermission)
  BY <1>1, <1>2, RightsStep
<1> QED BY <1>3, RightsInvariant, PTL DEF Spec, PressChangesOnePermission

-----------------------------------------------------------------------------
(* The types of the page of the users *)

\* The password requests that have not been answered
Resets(calls) == {c \in calls : c.op = "reset"}

\* The other types: every timer was started for a password the user asked to be set.
UsersRest ==
  /\ usrServer \in [UserIds -> {"none", "there", "gone"}]
  /\ {usrLoading, usrError, usrCreating, usrRefused, usrResetting, usrFailed, usrSucceeded,
      usrMixed} \subseteq BOOLEAN
  /\ usrDone \subseteq UserIds
  /\ IsFiniteSet(usrCalls) /\ \A c \in Resets(usrCalls) : c.of \in UserIds
  /\ usrTimers \in Nat /\ usrTimers + Cardinality(Resets(usrCalls)) <= usrInputs

LEMMA ResetsFinite ==
  ASSUME NEW calls, IsFiniteSet(calls)
  PROVE  IsFiniteSet(Resets(calls)) /\ Cardinality(Resets(calls)) \in Nat
  BY FS_Subset, FS_CardinalityType DEF Resets

LEMMA ResetsCounted ==
  ASSUME NEW calls, IsFiniteSet(calls), NEW c
  PROVE  /\ IsFiniteSet(calls \cup {c}) /\ IsFiniteSet(calls \ {c})
         /\ Cardinality(Resets(calls \cup {c})) <= Cardinality(Resets(calls)) + 1
         /\ Cardinality(Resets(calls \ {c})) <= Cardinality(Resets(calls))
         /\ c.op # "reset" => Cardinality(Resets(calls \cup {c})) = Cardinality(Resets(calls))
         /\ c \in calls /\ c.op = "reset" =>
              Cardinality(Resets(calls \ {c})) = Cardinality(Resets(calls)) - 1
<1>1. IsFiniteSet(calls \cup {c}) /\ IsFiniteSet(calls \ {c})
  BY FS_AddElement, FS_RemoveElement
<1> DEFINE R == Resets(calls)
<1>2. IsFiniteSet(R) /\ Cardinality(R) \in Nat
  BY ResetsFinite
<1>3. Resets(calls \cup {c}) = IF c.op = "reset" THEN R \cup {c} ELSE R
  BY DEF Resets
<1>4. Resets(calls \ {c}) = R \ {c}
  BY DEF Resets
<1>5. c \in R <=> c \in calls /\ c.op = "reset"
  BY DEF Resets
<1> HIDE DEF R
<1>6. /\ Cardinality(R \cup {c}) \in {Cardinality(R), Cardinality(R) + 1}
      /\ Cardinality(R \ {c}) = IF c \in R THEN Cardinality(R) - 1 ELSE Cardinality(R)
  BY <1>2, FS_AddElement, FS_RemoveElement
<1>7. Cardinality(R \cup {c}) <= Cardinality(R) + 1 /\ Cardinality(R \ {c}) <= Cardinality(R)
  BY <1>2, <1>6
<1>8. CASE c.op = "reset"
  <2>1. Resets(calls \cup {c}) = R \cup {c} /\ Resets(calls \ {c}) = R \ {c}
    BY <1>3, <1>4, <1>8
  <2> HIDE DEF R
  <2>2. c \in calls => Cardinality(R \ {c}) = Cardinality(R) - 1
    BY <1>5, <1>6, <1>8
  <2> QED BY <1>1, <1>7, <1>8, <2>1, <2>2 DEF R
<1>9. CASE c.op # "reset"
  <2>1. Resets(calls \cup {c}) = R /\ Resets(calls \ {c}) = R \ {c}
    BY <1>3, <1>4, <1>9
  <2>2. Cardinality(R) <= Cardinality(R) + 1
    BY <1>2
  <2> QED BY <1>1, <1>7, <1>9, <2>1, <2>2 DEF R
<1> QED BY <1>8, <1>9

\* In the place of a request comes the same with its answer.
LEMMA ResetAnswered ==
  ASSUME NEW calls, IsFiniteSet(calls), NEW c \in calls, NEW d, d.op = c.op
  PROVE  /\ IsFiniteSet((calls \ {c}) \cup {d})
         /\ Cardinality(Resets((calls \ {c}) \cup {d})) <= Cardinality(Resets(calls))
<1> DEFINE rest == calls \ {c}
<1>1. /\ IsFiniteSet(rest) /\ IsFiniteSet(rest \cup {d})
      /\ Cardinality(Resets(rest)) \in Nat /\ Cardinality(Resets(calls)) \in Nat
      /\ Cardinality(Resets(rest \cup {d})) \in Nat
  BY ResetsCounted, ResetsFinite
<1>2. CASE d.op = "reset"
  <2>1. Cardinality(Resets(rest)) = Cardinality(Resets(calls)) - 1
    BY <1>2, ResetsCounted
  <2>2. Cardinality(Resets(rest \cup {d})) <= Cardinality(Resets(rest)) + 1
    BY <1>1, ResetsCounted
  <2> QED BY <1>1, <2>1, <2>2
<1>3. CASE d.op # "reset"
  <2>1. Cardinality(Resets(rest)) <= Cardinality(Resets(calls))
    BY ResetsCounted
  <2>2. Cardinality(Resets(rest \cup {d})) = Cardinality(Resets(rest))
    BY <1>1, <1>3, ResetsCounted
  <2> QED BY <1>1, <2>1, <2>2
<1> QED BY <1>1, <1>2, <1>3

LEMMA UsersRestInit == People!Init => UsersRest
<1> SUFFICES ASSUME People!Init PROVE UsersRest
  OBVIOUS
<1>1. usrServer \in [UserIds -> {"none", "there", "gone"}]
  BY DEF People!Init
<1>2. /\ usrTimers = 0 /\ usrInputs = 0 /\ usrDone = {}
      /\ usrLoading = TRUE /\ usrError = FALSE /\ usrCreating = FALSE /\ usrRefused = FALSE
      /\ usrResetting = FALSE /\ usrFailed = FALSE /\ usrSucceeded = FALSE /\ usrMixed = FALSE
  BY Zenon DEF People!Init
<1>3. /\ usrTimers = 0 /\ usrInputs = 0 /\ usrDone = {}
      /\ {usrLoading, usrError, usrCreating, usrRefused, usrResetting, usrFailed,
          usrSucceeded, usrMixed} \subseteq BOOLEAN
  BY <1>2
<1> DEFINE c == [op |-> "list", of |-> None, text |-> None, sso |-> FALSE, set |-> {},
                 phase |-> "sent", nr |-> 0]
<1>4. usrCalls = {c}
  BY Zenon DEF People!Init
<1>5. c.op = "list"
  OBVIOUS
<1> HIDE DEF c
<1>6. usrCalls = {c} /\ c.op = "list"
  BY <1>4, <1>5
<1>7. Resets(usrCalls) = {} /\ IsFiniteSet(usrCalls)
  BY <1>6, FS_Singleton DEF Resets
<1> QED BY <1>1, <1>7, <1>3, FS_EmptySet DEF UsersRest

\* The steps that send at most one request, and start no timer
LEMMA UsersSend ==
  ASSUME UsersRest, NEW c, usrInputs \in Nat, UNCHANGED usrTimers,
         \/ usrCalls' = usrCalls /\ usrInputs' \in {usrInputs, usrInputs + 1}
         \/ /\ usrCalls' = usrCalls \cup {c} /\ usrInputs' = usrInputs + 1
            /\ c.op = "reset" => c.of \in UserIds
  PROVE  /\ IsFiniteSet(usrCalls') /\ \A d \in Resets(usrCalls') : d.of \in UserIds
         /\ usrTimers' \in Nat /\ usrTimers' + Cardinality(Resets(usrCalls')) <= usrInputs'
<1>1. /\ IsFiniteSet(usrCalls) /\ Cardinality(Resets(usrCalls)) \in Nat
      /\ IsFiniteSet(usrCalls \cup {c}) /\ Cardinality(Resets(usrCalls \cup {c})) \in Nat
      /\ Cardinality(Resets(usrCalls \cup {c})) <= Cardinality(Resets(usrCalls)) + 1
  BY ResetsFinite, ResetsCounted DEF UsersRest
<1>2. \A d \in Resets(usrCalls') : d.of \in UserIds
  BY DEF UsersRest, Resets
<1>3. usrTimers \in Nat /\ usrTimers + Cardinality(Resets(usrCalls)) <= usrInputs
  BY DEF UsersRest
<1>4. CASE usrCalls' = usrCalls /\ usrInputs' \in {usrInputs, usrInputs + 1}
  BY <1>1, <1>2, <1>3, <1>4
<1>5. CASE usrCalls' = usrCalls \cup {c} /\ usrInputs' = usrInputs + 1
  <2>1. /\ IsFiniteSet(usrCalls') /\ Cardinality(Resets(usrCalls')) \in Nat
        /\ Cardinality(Resets(usrCalls')) <= Cardinality(Resets(usrCalls)) + 1
    BY <1>1, <1>5
  <2>2. usrTimers + Cardinality(Resets(usrCalls')) <= usrInputs'
    BY <1>1, <1>3, <1>5, <2>1
  <2> QED BY <1>2, <1>3, <2>1, <2>2
<1> QED BY <1>4, <1>5

LEMMA UsersRestInputs ==
  ASSUME UsersInv, UsersRest,
         \/ People!EditForm \/ People!HandleCreate \/ People!Row \/ People!CloseReset
         \/ People!TypePassword \/ People!HandleResetPassword
  PROVE  UsersRest'
<1>1. usrInputs \in Nat
  BY DEF UsersInv, UsersTyped
<1>2. /\ UNCHANGED <<usrServer, usrLoading, usrError, usrTimers, usrDone>>
      /\ {usrCreating', usrRefused', usrResetting', usrFailed', usrSucceeded', usrMixed'}
           \subseteq BOOLEAN
      /\ \E c : \/ usrCalls' = usrCalls /\ usrInputs' \in {usrInputs, usrInputs + 1}
                \/ /\ usrCalls' = usrCalls \cup {c} /\ usrInputs' = usrInputs + 1
                   /\ c.op = "reset" => c.of \in UserIds
  <2>1. /\ \A op, of : People!Request(op, of).op = op /\ People!Request(op, of).of = of
        /\ \A of, b : /\ [People!Request("create", of) EXCEPT !.sso = b].op = "create"
                      /\ [People!Request("reset", of) EXCEPT !.text = b].of = of
    BY DEF People!Request
  <2>2. CASE People!EditForm
    BY <2>2 DEF People!EditForm, People!list, People!dialog, People!notes, UsersRest
  <2>3. CASE People!HandleCreate
    <3> DEFINE c == [People!Request("create", None) EXCEPT !.sso = usrForm.sso]
    <3>1. c.op = "create"
      BY <2>1
    <3> HIDE DEF c
    <3>2. /\ usrInputs' = usrInputs + 1
          /\ usrCalls' = usrCalls \/ usrCalls' = usrCalls \cup {c}
          /\ {usrCreating', usrRefused'} \subseteq BOOLEAN
      BY <2>3 DEF People!HandleCreate, People!Input, People!Send, UsersRest, c
    <3>3. UNCHANGED <<usrServer, usrLoading, usrError, usrTimers, usrDone, usrResetting, usrFailed,
                      usrSucceeded, usrMixed>>
      BY <2>3 DEF People!HandleCreate, People!list, People!dialog, People!notes
    <3> QED BY <3>1, <3>2, <3>3 DEF UsersRest
  <2>4. CASE People!HandleDelete
    BY <2>1, <2>4 DEF People!HandleDelete, People!Input, People!Send, People!list, People!form,
                People!dialog, People!notes, UsersRest
  <2>5. CASE People!OpenReset
    BY <2>5 DEF People!OpenReset, People!list, People!form, UsersRest
  <2>6. CASE People!CloseReset \/ People!TypePassword
    BY <2>6 DEF People!CloseReset, People!TypePassword, People!list, People!form,
                People!notes, UsersRest
  <2>7. CASE People!HandleResetPassword
    <3>1. usrText.long \in BOOLEAN /\ (usrDialog # None => usrDialog \in UserIds)
      BY DEF UsersInv, UsersTyped
    <3> DEFINE c == [People!Request("reset", usrDialog) EXCEPT !.text = usrText.for]
    <3>2. c.of = usrDialog
      BY <2>1
    <3> HIDE DEF c
    <3>3. /\ usrInputs' = usrInputs + 1 /\ usrDialog # None
          /\ usrCalls' = usrCalls \/ usrCalls' = usrCalls \cup {c}
      BY <2>7 DEF People!HandleResetPassword, People!Input, People!Send, c
    <3>4. /\ UNCHANGED <<usrServer, usrLoading, usrError, usrTimers, usrDone, usrCreating,
                         usrRefused, usrMixed>>
          /\ {usrResetting', usrFailed', usrSucceeded'} \subseteq BOOLEAN
      BY <2>7, <3>1 DEF People!HandleResetPassword, People!list, People!form, UsersRest
    <3> QED BY <3>1, <3>2, <3>3, <3>4 DEF UsersRest
  <2> QED BY <2>2, <2>3, <2>4, <2>5, <2>6, <2>7 DEF People!Row
<1> QED BY <1>1, <1>2, UsersSend DEF UsersRest

LEMMA TimerKeepsRest == ASSUME UsersInv, UsersRest, People!TimerFires PROVE UsersRest'
<1>1. Cardinality(Resets(usrCalls)) \in Nat /\ usrInputs \in Nat
  BY ResetsFinite DEF UsersRest, UsersInv, UsersTyped
<1>2. /\ UNCHANGED <<usrServer, usrLoading, usrError, usrCreating, usrRefused, usrResetting,
                     usrFailed, usrMixed, usrDone, usrCalls, usrInputs>>
      /\ usrTimers > 0 /\ usrTimers' = usrTimers - 1 /\ usrSucceeded' = FALSE
  BY DEF People!TimerFires, People!list, People!form
<1>3. usrTimers' \in Nat /\ usrTimers' + Cardinality(Resets(usrCalls')) <= usrInputs'
  BY <1>1, <1>2 DEF UsersRest
<1> QED BY <1>2, <1>3 DEF UsersRest

LEMMA HandleKeepsRest ==
  ASSUME UsersInv, UsersRest, NEW c \in usrCalls, People!Handle(c) PROVE UsersRest'
<1>1. c \in People!Call
  BY DEF UsersInv, UsersTyped
<1>2. /\ usrServer' \in [UserIds -> {"none", "there", "gone"}]
      /\ \E d : /\ usrCalls' = (usrCalls \ {c}) \cup {d} /\ d.op = c.op
                /\ c.op = "reset" => d.of = c.of
  <2>1. c.op \in {"list", "create", "delete", "reset"}
    BY <1>1 DEF People!Call
  <2>2. /\ \A s : [c EXCEPT !.phase = s].op = c.op /\ [c EXCEPT !.phase = s].of = c.of
        /\ \A s, t : [c EXCEPT !.phase = s, !.of = t].op = c.op
        /\ \A s, t : [c EXCEPT !.phase = s, !.set = t].op = c.op
    BY <1>1 DEF People!Call
  <2>3. \/ usrCalls' = (usrCalls \ {c}) \cup {[c EXCEPT !.phase = "no"]} /\ usrServer' = usrServer
        \/ c.op = "list" /\ People!ListUsers(c)
        \/ c.op = "create" /\ People!Register(c)
        \/ People!DeleteUser(c)
        \/ People!ResetPassword(c)
    BY <2>1, Zenon DEF People!Handle
  <2>4. \E d : /\ usrCalls' = (usrCalls \ {c}) \cup {d} /\ d.op = c.op
               /\ c.op = "reset" => d.of = c.of
    <3>1. CASE usrCalls' = (usrCalls \ {c}) \cup {[c EXCEPT !.phase = "no"]}
      BY <2>2, <3>1
    <3>2. CASE c.op = "list" /\ People!ListUsers(c)
      <4>1. usrCalls' = (usrCalls \ {c}) \cup {[c EXCEPT !.phase = "ok", !.set = People!There]}
        BY <3>2 DEF People!ListUsers
      <4>2. [c EXCEPT !.phase = "ok", !.set = People!There].op = c.op
        BY <2>2
      <4> QED BY <3>2, <4>1, <4>2
    <3>3. CASE c.op = "create" /\ People!Register(c)
      <4>1. PICK i : usrCalls' = (usrCalls \ {c}) \cup {[c EXCEPT !.phase = "ok", !.of = i]}
        BY <3>3 DEF People!Register
      <4>2. [c EXCEPT !.phase = "ok", !.of = i].op = c.op
        BY <2>2
      <4> QED BY <3>3, <4>1, <4>2
    <3>4. CASE usrCalls' = (usrCalls \ {c}) \cup {[c EXCEPT !.phase = "ok"]}
      BY <2>2, <3>4
    <3> QED BY <2>3, <3>1, <3>2, <3>3, <3>4 DEF People!DeleteUser, People!ResetPassword
  <2>5. usrServer' \in [UserIds -> {"none", "there", "gone"}]
    BY <2>3 DEF UsersRest, People!ListUsers, People!Register, People!DeleteUser,
       People!ResetPassword
  <2> QED BY <2>4, <2>5
<1>3. PICK d : /\ usrCalls' = (usrCalls \ {c}) \cup {d} /\ d.op = c.op
               /\ c.op = "reset" => d.of = c.of
  BY <1>2
<1>4. \A e \in Resets(usrCalls') : e.of \in UserIds
  BY <1>3 DEF UsersRest, Resets
<1>5. /\ IsFiniteSet(usrCalls') /\ Cardinality(Resets(usrCalls')) <= Cardinality(Resets(usrCalls))
      /\ Cardinality(Resets(usrCalls')) \in Nat /\ Cardinality(Resets(usrCalls)) \in Nat
  BY <1>3, ResetAnswered, ResetsFinite DEF UsersRest
<1>6. UNCHANGED <<usrTimers, usrInputs>> /\ usrInputs \in Nat
  BY DEF People!Handle, People!dialog, UsersInv, UsersTyped
<1>7. usrTimers' + Cardinality(Resets(usrCalls')) <= usrInputs'
  BY <1>5, <1>6 DEF UsersRest
<1> QED BY <1>2, <1>5, <1>6, <1>7, <1>4 DEF People!Handle, People!list, People!form, People!dialog,
                                    People!notes, UsersRest

LEMMA ReceiveKeepsRest ==
  ASSUME UsersInv, UsersRest, NEW c \in usrCalls, People!Receive(c) PROVE UsersRest'
<1>1. c \in People!Call /\ usrCalls' = usrCalls \ {c} /\ usrInputs' = usrInputs
      /\ usrServer' = usrServer /\ usrInputs \in Nat
  BY DEF UsersInv, UsersTyped, People!Receive
<1>2. /\ IsFiniteSet(usrCalls') /\ Cardinality(Resets(usrCalls')) <= Cardinality(Resets(usrCalls))
      /\ c.op = "reset" => Cardinality(Resets(usrCalls')) = Cardinality(Resets(usrCalls)) - 1
      /\ Cardinality(Resets(usrCalls')) \in Nat /\ Cardinality(Resets(usrCalls)) \in Nat
  BY <1>1, ResetsCounted, ResetsFinite DEF UsersRest
<1>3. \A d \in Resets(usrCalls') : d.of \in UserIds
  BY <1>1 DEF UsersRest, Resets
<1>4. CASE c.op = "reset" /\ People!ReceiveReset(c)
  <2>1. /\ UNCHANGED <<usrLoading, usrError, usrCreating, usrRefused, usrMixed>>
        /\ usrTimers' \in {usrTimers, usrTimers + 1}
        /\ {usrResetting', usrFailed', usrSucceeded'} \subseteq BOOLEAN
        /\ usrDone' \subseteq UserIds
    <3>1. c.of \in UserIds
      BY <1>4 DEF UsersRest, Resets
    <3> QED BY <1>1, <1>4, <3>1 DEF People!ReceiveReset, People!list, People!form, UsersRest
  <2>2. usrTimers' \in Nat /\ usrTimers' + Cardinality(Resets(usrCalls')) <= usrInputs'
    BY <1>1, <1>2, <1>4, <2>1 DEF UsersRest
  <2> QED BY <1>1, <1>2, <1>3, <2>1, <2>2 DEF UsersRest
<1>5. CASE \/ c.op = "list" /\ People!ReceiveList(c)
           \/ c.op = "create" /\ People!ReceiveCreate(c)
           \/ c.op = "delete" /\ People!ReceiveDelete(c)
  <2>1. /\ UNCHANGED <<usrTimers, usrDone, usrResetting, usrFailed, usrSucceeded, usrMixed>>
        /\ {usrLoading', usrError', usrCreating', usrRefused'} \subseteq BOOLEAN
    BY <1>5 DEF People!ReceiveList, People!ReceiveCreate, People!ReceiveDelete, People!list,
                People!form, People!dialog, People!notes, UsersRest
  <2>2. usrTimers' \in Nat /\ usrTimers' + Cardinality(Resets(usrCalls')) <= usrInputs'
    BY <1>1, <1>2, <2>1 DEF UsersRest
  <2> QED BY <1>1, <1>2, <1>3, <2>1, <2>2 DEF UsersRest
<1>6. c.op \in {"list", "create", "delete", "reset"}
  BY <1>1 DEF People!Call
<1> QED BY <1>4, <1>5, <1>6 DEF People!Receive

LEMMA UsersTypeOK == UsersInv /\ UsersRest => People!TypeOK
<1> SUFFICES ASSUME UsersInv, UsersRest PROVE People!TypeOK
  OBVIOUS
<1>1. Cardinality(Resets(usrCalls)) \in Nat /\ usrInputs \in 0..MaxUsrInputs
  BY ResetsFinite DEF UsersRest, UsersInv, UsersTyped
<1>2. usrTimers \in 0..MaxUsrInputs
  BY <1>1, UsersConstantsHold DEF UsersRest, UsersConstants
<1> QED BY <1>2 DEF UsersInv, UsersTyped, UsersRest, People!TypeOK

LEMMA UsersTypedCorrectly == Spec => [](page = "users" => People!TypeOK)
<1> DEFINE Inv == page = "users" => UsersInv /\ UsersRest
<1>1. Init => Inv
  BY UsersInit, UsersRestInit DEF Init
<1>2. UsersRest /\ UNCHANGED usrVars => UsersRest'
  BY DEF UsersRest, usrVars, Resets
<1>3. UsersInv /\ UsersRest /\ People!Next => UsersRest'
  BY UsersRestInputs, TimerKeepsRest, HandleKeepsRest, ReceiveKeepsRest, Zenon DEF People!Next
<1>4. Inv /\ [Next]_vars => Inv'
  BY <1>2, <1>3, UsersStep, UsersNext, UsersStutter
<1>5. Inv => (page = "users" => People!TypeOK)
  BY UsersTypeOK
<1> QED BY <1>1, <1>4, <1>5, PTL DEF Spec

-----------------------------------------------------------------------------
(* The types of access control *)

AccessOps == Rights!ListOps \cup {"expand", "effective"}
Subjects  == Groups \cup Users
RoleTables == Rights!PartialFunctions(Roles, SUBSET Perms)

\* The requests: what each operation names and carries
AccessAsked ==
  {c \in Rights!Call :
     /\ c.op \in {"toggle", "createRole"} => c.of \in Roles /\ c.set \subseteq Perms
     /\ c.op = "createGroup" => c.of \in Groups
     /\ c.op \in {"add", "remove"} => c.who \in Users
     /\ c.op = "createRule" => c.of \in Subjects
     /\ c.op \in {"expand", "reread"} => c.set \subseteq Users
     /\ c.op = "effective" => c.of \in Users}

AccessTyped == Rights!TypeOK /\ accCalls \subseteq AccessAsked

LEMMA AccessTypeConstants ==
  /\ BuiltIn \subseteq Roles /\ Admin \in BuiltIn /\ Admin \in Perms
  /\ LocalGroups \subseteq Groups /\ None \notin Subjects /\ MaxAccInputs \in Nat
  BY PagesAssumption DEF Rights!AccessAssumption, Subjects

LEMMA PartialTyped ==
  ASSUME NEW S, NEW T, NEW f
  PROVE  f \in Rights!PartialFunctions(S, T) <=> DOMAIN f \subseteq S /\ f \in [DOMAIN f -> T]
  BY DEF Rights!PartialFunctions

LEMMA EmptyTable == <<>> \in RoleTables
<1>1. <<>> \in [{} -> SUBSET Perms]
  <2>1. <<>> \in Seq(SUBSET Perms) /\ Len(<<>>) = 0 /\ 1..0 = {}
    OBVIOUS
  <2>2. <<>> \in [1..0 -> SUBSET Perms]
    BY <2>1
  <2> QED BY <2>1, <2>2
<1> QED BY <1>1 DEF RoleTables, Rights!PartialFunctions

LEMMA ListsTyped ==
  /\ Rights!NoLists \in Rights!Lists
  /\ \A lists \in Rights!Lists : [lists EXCEPT !.roles = <<>>] \in Rights!Lists
<1>1. Rights!NoLists \in Rights!Lists
  BY EmptyTable DEF RoleTables, Rights!NoLists, Rights!Lists
<1>2. ASSUME NEW lists \in Rights!Lists PROVE [lists EXCEPT !.roles = <<>>] \in Rights!Lists
  BY EmptyTable DEF RoleTables, Rights!Lists
<1> QED BY <1>1, <1>2

LEMMA AccessRequestTyped ==
  ASSUME NEW op \in AccessOps, NEW of \in Roles \cup Groups \cup Users \cup {None},
         accInputs' \in 0..MaxAccInputs
  PROVE  LET r == Rights!Request(op, of)
         IN  /\ r \in Rights!Call /\ r.op = op /\ r.of = of /\ r.set = {}
  BY DEF Rights!Request, Rights!Call, AccessOps, Rights!ListOps

\* A request as it is, and one that carries permissions, a member or a type
LEMMA SentAsked ==
  ASSUME NEW op \in AccessOps, NEW of \in Roles \cup Groups \cup Users \cup {None},
         accInputs' \in 0..MaxAccInputs
  PROVE  /\ op \notin {"toggle", "createRole", "createGroup", "add", "remove", "createRule",
                       "effective"} => Rights!Request(op, of) \in AccessAsked
         /\ op = "createGroup" /\ of \in Groups => Rights!Request(op, of) \in AccessAsked
         /\ op = "effective" /\ of \in Users => Rights!Request(op, of) \in AccessAsked
         /\ \A set \in SUBSET Perms : op \in {"toggle", "createRole"} /\ of \in Roles =>
              [Rights!Request(op, of) EXCEPT !.set = set] \in AccessAsked
         /\ \A u \in Users : op \in {"add", "remove"} =>
              [Rights!Request(op, of) EXCEPT !.who = u] \in AccessAsked
         /\ \A type \in {"group", "user"} : op \in {"createRule", "deleteRule"} /\ of \in Subjects =>
              [Rights!Request(op, of) EXCEPT !.type = type] \in AccessAsked
<1>1. PICK r : r = Rights!Request(op, of)
  OBVIOUS
<1>2. r \in Rights!Call /\ r.op = op /\ r.of = of /\ r.set = {}
  BY <1>1, AccessRequestTyped
<1>3. /\ op \notin {"toggle", "createRole", "createGroup", "add", "remove", "createRule",
                    "effective"} => r \in AccessAsked
      /\ op = "createGroup" /\ of \in Groups => r \in AccessAsked
      /\ op = "effective" /\ of \in Users => r \in AccessAsked
  BY <1>2 DEF AccessAsked
<1>4. ASSUME NEW set \in SUBSET Perms, op \in {"toggle", "createRole"}, of \in Roles
      PROVE  [r EXCEPT !.set = set] \in AccessAsked
  <2>1. PICK d : d = [r EXCEPT !.set = set]
    OBVIOUS
  <2>2. d \in Rights!Call /\ d.op = op /\ d.of = of /\ d.set = set
    BY <1>2, <2>1 DEF Rights!Call
  <2> QED BY <1>4, <2>1, <2>2 DEF AccessAsked
<1>5. ASSUME NEW u \in Users, op \in {"add", "remove"}
      PROVE  [r EXCEPT !.who = u] \in AccessAsked
  <2>1. PICK d : d = [r EXCEPT !.who = u]
    OBVIOUS
  <2>2. d \in Rights!Call /\ d.op = op /\ d.who = u
    BY <1>2, <2>1 DEF Rights!Call
  <2> QED BY <1>5, <2>1, <2>2 DEF AccessAsked
<1>6. ASSUME NEW type \in {"group", "user"}, op \in {"createRule", "deleteRule"}, of \in Subjects
      PROVE  [r EXCEPT !.type = type] \in AccessAsked
  <2>1. PICK d : d = [r EXCEPT !.type = type]
    OBVIOUS
  <2>2. d \in Rights!Call /\ d.op = op /\ d.of = of
    BY <1>2, <2>1 DEF Rights!Call
  <2> QED BY <1>6, <2>1, <2>2 DEF AccessAsked
<1> QED BY <1>1, <1>3, <1>4, <1>5, <1>6

LEMMA AccessTypedInit == Rights!Init => AccessTyped
<1> SUFFICES ASSUME Rights!Init PROVE AccessTyped
  OBVIOUS
<1>1. accRoles \in RoleTables
  BY AccessTypeConstants, PartialTyped DEF Rights!Init, RoleTables
<1>2. accGroups \in Rights!PartialFunctions(Groups, SUBSET Users) /\ DOMAIN accGroups \subseteq Groups
  BY PartialTyped DEF Rights!Init
<1>3. accMade \subseteq Roles \cup Groups
  BY <1>2, AccessTypeConstants DEF Rights!Init
<1>4. accShown \in Rights!Lists
  BY ListsTyped DEF Rights!Init
<1>5. accCalls \subseteq AccessAsked
  <2>1. PICK c : c = [op |-> "refresh", of |-> None, who |-> None, type |-> "group", set |-> {},
                      lists |-> Rights!NoLists, done |-> FALSE, live |-> TRUE, nr |-> 0]
    OBVIOUS
  <2>2. c \in Rights!Call /\ c.op = "refresh"
    BY <2>1, AccessTypeConstants DEF Rights!Call
  <2> QED BY <2>1, <2>2 DEF Rights!Init, AccessAsked
<1>6. accCalls \subseteq Rights!Call
  BY <1>5 DEF AccessAsked
<1>7. accInputs \in 0..MaxAccInputs
  BY AccessTypeConstants DEF Rights!Init
<1> QED BY <1>1, <1>2, <1>3, <1>4, <1>5, <1>6, <1>7
        DEF Rights!Init, AccessTyped, Rights!TypeOK, RoleTables, Rights!Tabs, Rights!Rules

\* The server is as it was, and so are the lists; what the tabs keep may change.
LEMMA TabsTyped ==
  ASSUME AccessTyped, UNCHANGED <<accRoles, accGroups, accMade, accRules, accUnread, accShown>>,
         accTab' \in Rights!Tabs, accExpanded' \in Groups \cup {None}, accMembers' \subseteq Users,
         accSubject' \in [type : {"group", "user"}, id : Groups \cup Users \cup {None}],
         accUser' \in Users \cup {None}, accPerms' \in Users \cup {None},
         accCalls' \subseteq AccessAsked, accRaced' \subseteq Rights!Tabs,
         accInputs' \in 0..MaxAccInputs
  PROVE  AccessTyped'
<1>1. accCalls' \subseteq Rights!Call
  BY DEF AccessAsked
<1> QED BY <1>1 DEF AccessTyped, Rights!TypeOK

\* A request is sent from a tab: nothing else changes but what is noted.
LEMMA WriteTyped ==
  ASSUME AccessTyped, NEW tab, NEW tabs \in SUBSET Rights!Tabs, NEW d \in AccessAsked,
         Rights!On(tab), Rights!Send(d), Rights!Race(tabs), UNCHANGED Rights!local
  PROVE  AccessTyped'
<1>1. accInputs' \in 0..MaxAccInputs
  BY AccessTypeConstants DEF Rights!On, Rights!Input, AccessTyped, Rights!TypeOK
<1>2. accRaced' \subseteq Rights!Tabs
  BY DEF Rights!Race, AccessTyped, Rights!TypeOK
<1>3. accCalls' \subseteq AccessAsked
  BY DEF Rights!Send, AccessTyped
<1> QED BY <1>1, <1>2, <1>3, TabsTyped
        DEF Rights!On, Rights!server, Rights!tables, Rights!local, AccessTyped, Rights!TypeOK

LEMMA AccessTypedInputs ==
  ASSUME AccessTyped,
         \/ Rights!SwitchTab
         \/ Rights!HandleToggle \/ Rights!CreateRole \/ Rights!DeleteRole
         \/ Rights!ToggleExpand \/ Rights!ChangeMember \/ Rights!CreateGroup
         \/ Rights!DeleteGroup \/ Rights!HandleRoleChange
         \/ Rights!ChooseSubject \/ Rights!CreateRule \/ Rights!DeleteRule
         \/ Rights!LoadPerms
  PROVE  AccessTyped'
<1>1. /\ accExpanded \in Groups \cup {None} /\ accMembers \subseteq Users
      /\ accSubject \in [type : {"group", "user"}, id : Groups \cup Users \cup {None}]
      /\ accUser \in Users \cup {None} /\ accPerms \in Users \cup {None}
      /\ accCalls \subseteq AccessAsked /\ accRaced \subseteq Rights!Tabs
      /\ accTab \in Rights!Tabs /\ accInputs \in 0..MaxAccInputs
  BY DEF AccessTyped, Rights!TypeOK
<1>2. /\ DOMAIN accShown.roles \subseteq Roles
      /\ \A r \in DOMAIN accShown.roles : accShown.roles[r] \subseteq Perms
      /\ accShown.groups \subseteq Groups /\ accShown.rules \subseteq Rights!Rules
  <2>1. accShown.roles \in Rights!PartialFunctions(Roles, SUBSET Perms)
    BY DEF AccessTyped, Rights!TypeOK, Rights!Lists
  <2>2. /\ DOMAIN accShown.roles \subseteq Roles
        /\ accShown.roles \in [DOMAIN accShown.roles -> SUBSET Perms]
    BY <2>1, PartialTyped
  <2> QED BY <2>2 DEF AccessTyped, Rights!TypeOK, Rights!Lists
<1>3. ASSUME Rights!Input PROVE accInputs' \in 0..MaxAccInputs
  BY <1>1, <1>3, AccessTypeConstants DEF Rights!Input
<1>4. \A tab : Rights!On(tab) => accInputs' \in 0..MaxAccInputs
  BY <1>3 DEF Rights!On
<1>5. CASE Rights!SwitchTab
  <2>1. ASSUME NEW c \in AccessAsked PROVE [c EXCEPT !.live = FALSE] \in AccessAsked
    <3>1. PICK d : d = [c EXCEPT !.live = FALSE]
      OBVIOUS
    <3>2. /\ d \in Rights!Call /\ d.op = c.op /\ d.of = c.of /\ d.who = c.who /\ d.set = c.set
      BY <3>1 DEF AccessAsked, Rights!Call
    <3> QED BY <3>1, <3>2 DEF AccessAsked
  <2>2. accCalls' \subseteq AccessAsked
    BY <1>1, <1>5, <2>1 DEF Rights!SwitchTab
  <2> QED BY <1>1, <1>3, <1>5, <2>2, TabsTyped DEF Rights!SwitchTab, Rights!server, Rights!tables
<1>6. CASE Rights!HandleToggle
  <2>1. PICK r \in DOMAIN accShown.roles, p \in Perms :
          Rights!Send([Rights!Request("toggle", r) EXCEPT
                         !.set = Rights!Toggled(accShown.roles[r], p)])
    BY <1>6 DEF Rights!HandleToggle
  <2>2. Rights!Toggled(accShown.roles[r], p) \in SUBSET Perms
    BY <1>2 DEF Rights!Toggled
  <2>3. [Rights!Request("toggle", r) EXCEPT !.set = Rights!Toggled(accShown.roles[r], p)]
          \in AccessAsked
    BY <1>2, <1>4, <1>6, <2>2, SentAsked DEF Rights!HandleToggle, AccessOps, Rights!ListOps
  <2> QED BY <1>6, <2>1, <2>3, WriteTyped DEF Rights!HandleToggle, Rights!Tabs
<1>7. CASE Rights!CreateRole
  <2>1. PICK r \in Roles \ BuiltIn, set \in SUBSET Perms :
          Rights!Send([Rights!Request("createRole", r) EXCEPT !.set = set])
    BY <1>7 DEF Rights!CreateRole
  <2>2. [Rights!Request("createRole", r) EXCEPT !.set = set] \in AccessAsked
    BY <1>4, <1>7, SentAsked DEF Rights!CreateRole, AccessOps, Rights!ListOps
  <2> QED BY <1>7, <2>1, <2>2, WriteTyped DEF Rights!CreateRole, Rights!Tabs
<1>8. CASE Rights!ChangeMember
  <2>1. PICK u \in Users, op \in {"remove", "add"} :
          Rights!Send([Rights!Request(op, accExpanded) EXCEPT !.who = u])
    BY <1>8 DEF Rights!ChangeMember
  <2>2. [Rights!Request(op, accExpanded) EXCEPT !.who = u] \in AccessAsked
    BY <1>1, <1>4, <1>8, SentAsked DEF Rights!ChangeMember, AccessOps, Rights!ListOps
  <2> QED BY <1>8, <2>1, <2>2, WriteTyped DEF Rights!ChangeMember, Rights!Tabs
<1>9. CASE Rights!DeleteRole \/ Rights!CreateGroup \/ Rights!DeleteGroup \/ Rights!HandleRoleChange
  <2>1. PICK tab \in {"roles", "groups"} : Rights!On(tab)
    BY <1>9 DEF Rights!DeleteRole, Rights!CreateGroup, Rights!DeleteGroup,
                Rights!HandleRoleChange
  <2>2. PICK tabs \in SUBSET Rights!Tabs : Rights!Race(tabs) /\ UNCHANGED Rights!local
    BY <1>9 DEF Rights!DeleteRole, Rights!CreateGroup, Rights!DeleteGroup,
                Rights!HandleRoleChange, Rights!Tabs
  <2>3. PICK op \in {"deleteRole", "createGroup", "deleteGroup", "setRole"},
             of \in Roles \cup Groups :
          Rights!Send(Rights!Request(op, of)) /\ (op = "createGroup" => of \in Groups)
    BY <1>2, <1>9, AccessTypeConstants
       DEF Rights!DeleteRole, Rights!CreateGroup, Rights!DeleteGroup,
           Rights!HandleRoleChange, Rights!GroupRows
  <2>4. Rights!Request(op, of) \in AccessAsked
    BY <1>4, <2>1, <2>3, SentAsked DEF AccessOps, Rights!ListOps
  <2> QED BY <2>1, <2>2, <2>3, <2>4, WriteTyped
<1>10. CASE Rights!CreateRule \/ Rights!DeleteRule
  <2>1. PICK op \in {"createRule", "deleteRule"}, of \in Subjects, type \in {"group", "user"} :
          Rights!Send([Rights!Request(op, of) EXCEPT !.type = type])
    <3>1. CASE Rights!CreateRule
      <4>1. accSubject.id \in Subjects /\ accSubject.type \in {"group", "user"}
        BY <1>1, <3>1 DEF Rights!CreateRule, Subjects
      <4> QED BY <3>1, <4>1 DEF Rights!CreateRule
    <3>2. CASE Rights!DeleteRule
      <4>1. PICK r \in Rights!Rules :
              Rights!Send([Rights!Request("deleteRule", r.id) EXCEPT !.type = r.type])
        BY <1>2, <3>2 DEF Rights!DeleteRule
      <4>2. r.id \in Subjects /\ r.type \in {"group", "user"}
        BY DEF Rights!Rules, Subjects
      <4> QED BY <4>1, <4>2
    <3> QED BY <1>10, <3>1, <3>2
  <2>2. [Rights!Request(op, of) EXCEPT !.type = type] \in AccessAsked
    BY <1>4, <1>10, <2>1, SentAsked
       DEF Rights!CreateRule, Rights!DeleteRule, AccessOps, Rights!ListOps, Subjects
  <2> QED BY <1>10, <2>1, <2>2, WriteTyped DEF Rights!CreateRule, Rights!DeleteRule, Rights!Tabs
<1>11. CASE Rights!ToggleExpand
  <2>1. PICK g \in accShown.groups :
          IF g = accExpanded THEN accExpanded' = None /\ UNCHANGED accCalls
          ELSE accExpanded' = g /\ Rights!Send(Rights!Request("expand", g))
    BY <1>11 DEF Rights!ToggleExpand, Rights!GroupRows
  <2>2. Rights!Request("expand", g) \in AccessAsked
    BY <1>2, <1>4, <1>11, SentAsked DEF Rights!ToggleExpand, AccessOps
  <2>3. accCalls' \subseteq AccessAsked /\ accExpanded' \in Groups \cup {None}
    BY <1>1, <1>2, <2>1, <2>2 DEF Rights!Send
  <2>4. accRaced' \subseteq Rights!Tabs
    BY <1>1, <1>11 DEF Rights!ToggleExpand, Rights!Race, Rights!Tabs
  <2> QED BY <1>1, <1>4, <1>11, <2>3, <2>4, TabsTyped
          DEF Rights!ToggleExpand, Rights!On, Rights!server, Rights!tables
<1>12. CASE Rights!ChooseSubject
  <2>1. accSubject' \in [type : {"group", "user"}, id : Groups \cup Users \cup {None}]
    BY <1>1, <1>2, <1>12 DEF Rights!ChooseSubject, Rights!ChooseType
  <2> QED BY <1>1, <1>12, <2>1, TabsTyped DEF Rights!ChooseSubject, Rights!server, Rights!tables
<1>13. CASE Rights!LoadPerms
  <2>1. PICK u \in (Users \cup {None}) \ {accUser} :
          /\ accUser' = u
          /\ IF u = None THEN accPerms' = None /\ UNCHANGED accCalls
             ELSE Rights!Send(Rights!Request("effective", u)) /\ UNCHANGED accPerms
    BY <1>13 DEF Rights!LoadPerms
  <2>2. u # None => Rights!Request("effective", u) \in AccessAsked
    BY <1>4, <1>13, SentAsked DEF Rights!LoadPerms, AccessOps
  <2>3. accCalls' \subseteq AccessAsked /\ accPerms' \in Users \cup {None}
    BY <1>1, <2>1, <2>2 DEF Rights!Send
  <2>4. accRaced' \subseteq Rights!Tabs
    BY <1>1, <1>13 DEF Rights!LoadPerms, Rights!Race, Rights!Tabs
  <2> QED BY <1>1, <1>4, <1>13, <2>1, <2>3, <2>4, TabsTyped
          DEF Rights!LoadPerms, Rights!On, Rights!server, Rights!tables
<1> QED BY <1>5, <1>6, <1>7, <1>8, <1>9, <1>10, <1>11, <1>12, <1>13

\* What a request that is handled carries then
LEMMA HandledAsked ==
  ASSUME AccessTyped, NEW c \in accCalls, Rights!Handle(c)
  PROVE  accCalls' \subseteq AccessAsked
<1>1. c \in AccessAsked /\ c \in Rights!Call /\ accCalls \subseteq AccessAsked
  BY DEF AccessTyped, AccessAsked
<1>2. [c EXCEPT !.done = TRUE] \in AccessAsked
  <2>1. PICK d : d = [c EXCEPT !.done = TRUE]
    OBVIOUS
  <2>2. d \in Rights!Call /\ d.op = c.op /\ d.of = c.of /\ d.who = c.who /\ d.set = c.set
    BY <1>1, <2>1 DEF Rights!Call
  <2> QED BY <1>1, <2>1, <2>2 DEF AccessAsked
<1>3. CASE accCalls' = (accCalls \ {c}) \cup {[c EXCEPT !.done = TRUE]}
  BY <1>1, <1>2, <1>3
<1>4. CASE c.op \in {"expand", "reread"} /\ Rights!HandleRead(c)
  <2>1. accGroups[c.of] \subseteq Users
    <3>1. c.of \in DOMAIN accGroups
      BY <1>4, Zenon DEF Rights!HandleRead, Rights!HandleMembers
    <3>2. accGroups \in [DOMAIN accGroups -> SUBSET Users]
      BY PartialTyped DEF AccessTyped, Rights!TypeOK
    <3> QED BY <3>1, <3>2
  <2>2. PICK set \in SUBSET Users :
          accCalls' = (accCalls \ {c}) \cup {[c EXCEPT !.done = TRUE, !.set = set]}
    BY <1>4, <2>1 DEF Rights!HandleRead, Rights!HandleMembers
  <2>3. PICK d : d = [c EXCEPT !.done = TRUE, !.set = set]
    OBVIOUS
  <2>4. d \in Rights!Call /\ d.op = c.op /\ d.set = set
    BY <1>1, <2>3 DEF Rights!Call
  <2>5. d \in AccessAsked
    BY <1>4, <2>4 DEF AccessAsked
  <2> QED BY <1>1, <2>2, <2>3, <2>5
<1>5. CASE c.op = "refresh" /\ Rights!HandleRead(c)
  <2> DEFINE lists == [loading |-> FALSE, roles |-> accRoles, groups |-> DOMAIN accGroups,
                       rules |-> accRules]
  <2>1. PICK d : d = [c EXCEPT !.done = TRUE, !.lists = lists]
    OBVIOUS
  <2>2. accCalls' = (accCalls \ {c}) \cup {d}
    BY <1>5, <2>1 DEF Rights!HandleRead, Rights!HandleLists
  <2>3. DOMAIN accGroups \subseteq Groups
    BY PartialTyped DEF AccessTyped, Rights!TypeOK
  <2>4. lists \in Rights!Lists
    BY <2>3 DEF AccessTyped, Rights!TypeOK, Rights!Lists
  <2> HIDE DEF lists
  <2>5. d \in Rights!Call /\ d.op = c.op
    BY <1>1, <2>1, <2>4 DEF Rights!Call
  <2>6. d \in AccessAsked
    BY <1>5, <2>5 DEF AccessAsked
  <2> QED BY <1>1, <2>2, <2>6
<1>6. CASE c.op = "effective" /\ Rights!HandleRead(c)
  <2>1. [c EXCEPT !.done = TRUE, !.lists = c.lists] = [c EXCEPT !.done = TRUE]
    BY <1>1 DEF Rights!Call
  <2> QED BY <1>3, <1>6, <2>1 DEF Rights!HandleRead, Rights!HandleLists
<1>7. CASE c.op \notin Rights!Reads
  BY <1>3, <1>7 DEF Rights!Handle, Rights!HandleWrite, Rights!Handled
<1> QED BY <1>4, <1>5, <1>6, <1>7 DEF Rights!Handle, Rights!Reads

\* What is written is of the kind that is stored.
LEMMA StoredTyped ==
  ASSUME AccessTyped, NEW c \in accCalls, Rights!Handle(c)
  PROVE  /\ accRoles' \in RoleTables
         /\ accGroups' \in Rights!PartialFunctions(Groups, SUBSET Users)
         /\ accMade' \subseteq Roles \cup Groups
         /\ accRules' \subseteq Rights!Rules
<1>1. c \in AccessAsked /\ c \in Rights!Call
  BY DEF AccessTyped, AccessAsked
<1>2. /\ accRoles \in RoleTables
      /\ accGroups \in Rights!PartialFunctions(Groups, SUBSET Users)
      /\ accMade \subseteq Roles \cup Groups /\ accRules \subseteq Rights!Rules
  BY DEF AccessTyped, Rights!TypeOK, RoleTables
<1>3. /\ DOMAIN accRoles \subseteq Roles /\ accRoles \in [DOMAIN accRoles -> SUBSET Perms]
      /\ DOMAIN accGroups \subseteq Groups /\ accGroups \in [DOMAIN accGroups -> SUBSET Users]
  BY <1>2, PartialTyped DEF RoleTables
<1>4. \/ Rights!HandleRead(c)
      \/ c.op \in {"toggle", "createRole", "deleteRole"} /\ Rights!HandleRole(c)
      \/ c.op \in {"createRule", "deleteRule"} /\ Rights!HandleRule(c)
      \/ /\ c.op \in {"createGroup", "deleteGroup", "add", "remove", "setRole"}
         /\ Rights!HandleGroup(c)
  <2>1. \/ Rights!HandleRead(c)
        \/ c.op \notin Rights!Reads /\ Rights!HandleWrite(c)
    BY Zenon DEF Rights!Handle
  <2> QED BY <1>1, <2>1 DEF Rights!HandleWrite, Rights!Reads, Rights!Call
<1>5. CASE Rights!HandleRead(c)
  BY <1>2, <1>5 DEF Rights!HandleRead, Rights!tables
<1>6. CASE c.op \in {"toggle", "createRole", "deleteRole"} /\ Rights!HandleRole(c)
  <2>1. UNCHANGED <<accGroups, accRules>>
    BY <1>6 DEF Rights!HandleRole
  <2>2. \/ c.op = "toggle" /\ Rights!UpdateRole(c)
        \/ c.op = "createRole" /\ Rights!AddRole(c)
        \/ Rights!DropRole(c)
    BY <1>6 DEF Rights!HandleRole
  <2>3. c.op \in {"toggle", "createRole"} => c.of \in Roles /\ c.set \subseteq Perms
    BY <1>1 DEF AccessAsked
  <2>4. CASE c.op = "toggle" /\ Rights!UpdateRole(c)
    <3>1. /\ DOMAIN accRoles' = DOMAIN accRoles /\ accMade' = accMade
          /\ accRoles' \in [DOMAIN accRoles -> SUBSET Perms]
      BY <1>3, <2>3, <2>4, AccessTypeConstants DEF Rights!UpdateRole
    <3> QED BY <1>2, <1>3, <2>1, <3>1, PartialTyped DEF RoleTables
  <2>5. CASE c.op = "createRole" /\ Rights!AddRole(c)
    <3>1. /\ DOMAIN accRoles' = DOMAIN accRoles \cup {c.of} /\ accMade' = accMade \cup {c.of}
          /\ accRoles' \in [DOMAIN accRoles \cup {c.of} -> SUBSET Perms]
      BY <1>3, <2>3, <2>5 DEF Rights!AddRole
    <3> QED BY <1>2, <1>3, <2>1, <2>3, <2>5, <3>1, PartialTyped DEF RoleTables
  <2>6. CASE Rights!DropRole(c)
    <3>1. /\ DOMAIN accRoles' = DOMAIN accRoles \ {c.of} /\ accMade' = accMade
          /\ accRoles' \in [DOMAIN accRoles \ {c.of} -> SUBSET Perms]
      BY <1>3, <2>6 DEF Rights!DropRole, Rights!Restrict
    <3> QED BY <1>2, <1>3, <2>1, <3>1, PartialTyped DEF RoleTables
  <2> QED BY <2>2, <2>4, <2>5, <2>6
<1>7. CASE c.op \in {"createRule", "deleteRule"} /\ Rights!HandleRule(c)
  <2>1. c.op = "createRule" => [type |-> c.type, id |-> c.of] \in Rights!Rules
    BY <1>1 DEF AccessAsked, Rights!Call, Rights!Rules, Subjects
  <2> QED BY <1>2, <1>7, <2>1 DEF Rights!HandleRule
<1>8. CASE /\ c.op \in {"createGroup", "deleteGroup", "add", "remove", "setRole"}
           /\ Rights!HandleGroup(c)
  <2>1. UNCHANGED <<accRoles, accRules>>
    BY <1>8 DEF Rights!HandleGroup
  <2>2. CASE c.op = "createGroup"
    <3>1. c.of \in Groups
      BY <1>1, <2>2 DEF AccessAsked
    <3>2. accGroups' = [g \in DOMAIN accGroups \cup {c.of} |->
                          IF g = c.of THEN {} ELSE accGroups[g]]
      BY <1>8, <2>2 DEF Rights!HandleGroup
    <3>3. accMade' = accMade \cup {c.of}
      BY <1>8, <2>2 DEF Rights!HandleGroup
    <3>4. /\ DOMAIN accGroups' = DOMAIN accGroups \cup {c.of}
          /\ accGroups' \in [DOMAIN accGroups \cup {c.of} -> SUBSET Users]
      BY <1>3, <3>2
    <3>5. accGroups' \in Rights!PartialFunctions(Groups, SUBSET Users)
      BY <1>3, <3>1, <3>4, PartialTyped
    <3> QED BY <1>2, <2>1, <3>1, <3>3, <3>5
  <2>3. CASE c.op # "createGroup"
    <3>1. accMade' = accMade /\ c.of \in DOMAIN accGroups
      BY <1>8, <2>3 DEF Rights!HandleGroup
    <3>2. CASE c.op = "deleteGroup"
      <4>1. accGroups' = [g \in DOMAIN accGroups \ {c.of} |-> accGroups[g]]
        BY <1>8, <3>2 DEF Rights!HandleGroup, Rights!Restrict
      <4>2. /\ DOMAIN accGroups' = DOMAIN accGroups \ {c.of}
            /\ accGroups' \in [DOMAIN accGroups \ {c.of} -> SUBSET Users]
        BY <1>3, <4>1
      <4> QED BY <1>2, <1>3, <2>1, <3>1, <4>2, PartialTyped
    <3>3. CASE c.op \in {"add", "remove"}
      <4>1. c.who \in Users
        BY <1>1, <3>3 DEF AccessAsked
      <4>2. PICK set \in SUBSET Users : accGroups' = [accGroups EXCEPT ![c.of] = set]
        BY <1>3, <1>8, <3>1, <3>3, <4>1 DEF Rights!HandleGroup
      <4>3. DOMAIN accGroups' = DOMAIN accGroups /\ accGroups' \in [DOMAIN accGroups -> SUBSET Users]
        BY <1>3, <4>2
      <4> QED BY <1>2, <1>3, <2>1, <3>1, <4>3, PartialTyped
    <3>4. CASE c.op = "setRole"
      BY <1>2, <1>8, <2>1, <3>1, <3>4 DEF Rights!HandleGroup
    <3> QED BY <1>8, <2>3, <3>2, <3>3, <3>4
  <2> QED BY <2>2, <2>3
<1> QED BY <1>4, <1>5, <1>6, <1>7, <1>8

LEMMA UnreadTyped ==
  ASSUME AccessTyped, NEW c \in accCalls, Rights!Handle(c) PROVE accUnread' \subseteq Groups
<1>1. accUnread \subseteq Groups /\ DOMAIN accGroups \subseteq Groups
  BY PartialTyped DEF AccessTyped, Rights!TypeOK
<1>2. CASE Rights!HandleMembers(c)
  <2>1. c.of \in DOMAIN accGroups
    BY <1>2, Zenon DEF Rights!HandleMembers
  <2>2. \/ accUnread' = accUnread \ {c.of}
        \/ accUnread' = accUnread \cup {c.of}
    BY <1>2, Zenon DEF Rights!HandleMembers
  <2> QED BY <1>1, <2>1, <2>2
<1>3. CASE ~Rights!HandleMembers(c)
  BY <1>1, <1>3, Zenon
     DEF Rights!Handle, Rights!HandleRead, Rights!HandleLists, Rights!HandleWrite
<1> QED BY <1>2, <1>3

LEMMA AccessTypedHandled ==
  ASSUME AccessTyped, NEW c \in accCalls, Rights!Handle(c) PROVE AccessTyped'
<1>1. UNCHANGED <<accTab, accShown, accExpanded, accMembers, accSubject, accUser, accPerms,
                  accRaced, accInputs>>
  BY DEF Rights!Handle, Rights!local
<1>2. accCalls' \subseteq AccessAsked /\ accCalls' \subseteq Rights!Call
  BY HandledAsked DEF AccessAsked
<1> QED BY <1>1, <1>2, StoredTyped, UnreadTyped DEF AccessTyped, Rights!TypeOK, RoleTables

LEMMA FollowAsked ==
  ASSUME AccessTyped, NEW c \in accCalls, NEW op \in {"refresh", "reread"}, Rights!Follow(c, op)
  PROVE  accCalls' \subseteq AccessAsked
<1>1. c \in Rights!Call /\ accCalls \subseteq AccessAsked
  BY DEF AccessTyped, Rights!TypeOK
<1>2. PICK d : d = [c EXCEPT !.op = op, !.set = {}, !.lists = Rights!NoLists, !.done = FALSE]
  OBVIOUS
<1>3. accCalls' = (accCalls \ {c}) \cup {d}
  BY <1>2 DEF Rights!Follow
<1>4. d \in Rights!Call /\ d.op = op /\ d.set = {}
  BY <1>1, <1>2 DEF Rights!Call
<1>5. d \in AccessAsked
  BY <1>4 DEF AccessAsked
<1> QED BY <1>1, <1>3, <1>5

LEMMA AccessTypedReceived ==
  ASSUME AccessTyped, NEW c \in accCalls, Rights!Receive(c) PROVE AccessTyped'
<1>1. c \in AccessAsked /\ c \in Rights!Call /\ accCalls \subseteq AccessAsked
  BY DEF AccessTyped, AccessAsked
<1>2. UNCHANGED <<accRoles, accGroups, accMade, accRules, accUnread, accTab, accInputs>>
  BY DEF Rights!Receive, Rights!server, Rights!tables
<1>3. /\ accTab \in Rights!Tabs /\ accExpanded \in Groups \cup {None} /\ accMembers \subseteq Users
      /\ accSubject \in [type : {"group", "user"}, id : Groups \cup Users \cup {None}]
      /\ accUser \in Users \cup {None} /\ accPerms \in Users \cup {None}
      /\ accRaced \subseteq Rights!Tabs /\ accInputs \in 0..MaxAccInputs
      /\ accShown \in Rights!Lists
  BY DEF AccessTyped, Rights!TypeOK
<1>4. PICK ok \in {TRUE, FALSE} :
        \/ c.op = "refresh" /\ Rights!ReceiveRefresh(c, ok)
        \/ c.op \in {"expand", "reread"} /\ Rights!ReceiveMembers(c, ok)
        \/ c.op = "effective" /\ Rights!ReceiveEffective(c, ok)
        \/ Rights!ReceiveWrite(c, ok)
  BY Zenon DEF Rights!Receive
<1>5. CASE Rights!ReceiveRefresh(c, ok)
  <2>1. c.lists \in Rights!Lists
    BY <1>1, ListsTyped DEF Rights!Call
  <2>2. accShown' \in Rights!Lists
    <3>1. [accShown EXCEPT !.loading = FALSE] \in Rights!Lists
      BY <1>3 DEF Rights!Lists
    <3>2. [c.lists EXCEPT !.roles = <<>>] \in Rights!Lists
      BY <2>1, ListsTyped
    <3>3. accShown' \in {c.lists, [c.lists EXCEPT !.roles = <<>>],
                         [accShown EXCEPT !.loading = FALSE]}
      BY <1>5 DEF Rights!ReceiveRefresh
    <3> QED BY <2>1, <3>1, <3>2, <3>3
  <2>3. accRaced' \subseteq Rights!Tabs
    BY <1>3, <1>5 DEF Rights!ReceiveRefresh, Rights!Tabs
  <2>4. accCalls' \subseteq AccessAsked /\ accCalls' \subseteq Rights!Call
    BY <1>1, <1>5 DEF Rights!ReceiveRefresh, AccessAsked
  <2> QED BY <1>2, <1>5, <2>2, <2>3, <2>4
          DEF Rights!ReceiveRefresh, Rights!local, AccessTyped, Rights!TypeOK
<1>6. CASE c.op \in {"expand", "reread"} /\ Rights!ReceiveMembers(c, ok)
  <2>1. accMembers' \subseteq Users
    BY <1>1, <1>3, <1>6 DEF Rights!ReceiveMembers, AccessAsked
  <2>2. accRaced' \subseteq Rights!Tabs
    BY <1>3, <1>6 DEF Rights!ReceiveMembers, Rights!Tabs
  <2>3. accCalls' \subseteq AccessAsked
    BY <1>1, <1>6, FollowAsked DEF Rights!ReceiveMembers
  <2> QED BY <1>2, <1>3, <1>6, <2>1, <2>2, <2>3, TabsTyped DEF Rights!ReceiveMembers
<1>7. CASE c.op = "effective" /\ Rights!ReceiveEffective(c, ok)
  <2>1. accPerms' \in Users \cup {None}
    BY <1>1, <1>3, <1>7 DEF Rights!ReceiveEffective, AccessAsked
  <2>2. accCalls' \subseteq AccessAsked
    BY <1>1, <1>7 DEF Rights!ReceiveEffective
  <2> QED BY <1>2, <1>3, <1>7, <2>1, <2>2, TabsTyped DEF Rights!ReceiveEffective
<1>8. CASE Rights!ReceiveWrite(c, ok)
  <2>1. accCalls' \subseteq AccessAsked
    BY <1>1, <1>8, FollowAsked DEF Rights!ReceiveWrite
  <2>2. accRaced' \subseteq Rights!Tabs
    BY <1>3, <1>8 DEF Rights!ReceiveWrite, Rights!Tabs
  <2>3. accSubject' \in [type : {"group", "user"}, id : Groups \cup Users \cup {None}]
    BY <1>3, <1>8 DEF Rights!ReceiveWrite
  <2> QED BY <1>2, <1>3, <1>8, <2>1, <2>2, <2>3, TabsTyped DEF Rights!ReceiveWrite
<1> QED BY <1>4, <1>5, <1>6, <1>7, <1>8

LEMMA AccessTypedNext == ASSUME AccessTyped, Rights!Next PROVE AccessTyped'
  BY AccessTypedInputs, AccessTypedHandled, AccessTypedReceived, Zenon DEF Rights!Next

LEMMA AccessTypedCorrectly == Spec => [](page = "access" => Rights!TypeOK)
<1> DEFINE Inv == page = "access" => AccessTyped
<1>1. Init => Inv
  BY AccessTypedInit DEF Init
<1>2. AccessTyped /\ UNCHANGED accVars => AccessTyped'
  BY DEF AccessTyped, Rights!TypeOK, accVars
<1>3. Inv /\ [Next]_vars => Inv'
  BY <1>2, RightsStep, AccessTypedNext
<1>4. Inv => (page = "access" => Rights!TypeOK)
  BY DEF AccessTyped
<1> QED BY <1>1, <1>3, <1>4, PTL DEF Spec
=============================================================================
