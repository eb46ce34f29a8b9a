------------------------------ MODULE UsersPage ------------------------------
(***************************************************************************)
(* The accounts of the server (web/src/pages/Users.tsx): the list, the     *)
(* form that adds an account, and the dialog that sets the password of     *)
(* another one, which closes by itself a while after the password was set. *)
(* There is one dialog for all accounts, and no answer or timer asks       *)
(* whether it is still open for the account it was of.                     *)
(***************************************************************************)
EXTENDS Naturals, FiniteSets

CONSTANTS
  Ids,           \* of accounts, never used twice
  SSO,           \* those of accounts without a password
  Me,            \* the account of the user of the page
  None,          \* no account
  MaxUsrInputs   \* bound: requests of the user

UsersAssumption ==
  /\ SSO \subseteq Ids /\ Me \in Ids
  /\ None \notin Ids
  /\ MaxUsrInputs \in Nat

VARIABLES
  usrServer,     \* the server's: is there an account of this id, or was there one?
  usrShown,      \* users
  usrLoading, usrError,
  usrForm,       \* of the account to add: is it named, its password, is it of SSO?
  usrCreating, usrRefused,   \* creating, createError
  usrDialog,     \* resetUserId
  usrText,       \* resetPassword: the account it was typed for, and if it is long enough
  usrResetting, usrFailed, usrSucceeded,   \* resetting, resetError, resetSuccess
  usrTimers,     \* timers that will close the dialog
  usrCalls,      \* requests that have not been answered
  usrDone,       \* history: the accounts whose password is known to have been set
  usrMixed,      \* history: has the dialog opened while the password of another was set?
  usrInputs

usrVars == <<usrServer, usrShown, usrLoading, usrError, usrForm, usrCreating, usrRefused,
             usrDialog, usrText, usrResetting, usrFailed, usrSucceeded, usrTimers, usrCalls,
             usrDone, usrMixed, usrInputs>>

list   == <<usrShown, usrLoading, usrError>>
form   == <<usrForm, usrCreating, usrRefused>>
notes  == <<usrResetting, usrFailed, usrSucceeded>>
dialog == <<usrDialog, usrText, notes, usrTimers, usrDone, usrMixed>>

Passwords == {"none", "short", "long"}
NoText    == [for |-> None, long |-> FALSE]
EmptyForm == [named |-> FALSE, password |-> "none", sso |-> FALSE]

\* of: the account; text: the one the password was typed for; set: the accounts read
Call == [op : {"list", "create", "delete", "reset"}, of : Ids \cup {None},
         text : Ids \cup {None}, sso : BOOLEAN, set : SUBSET Ids,
         phase : {"sent", "ok", "no"}, nr : 0..MaxUsrInputs]

Request(op, of) ==
  [op |-> op, of |-> of, text |-> None, sso |-> FALSE, set |-> {}, phase |-> "sent",
   nr |-> usrInputs']

There == {i \in Ids : usrServer[i] = "there"}

\* One account can still be added.
Init ==
  /\ usrServer \in {[i \in Ids |-> IF i = added THEN "none" ELSE "there"] :
                      added \in Ids \ {Me}}
  /\ usrShown = {} /\ usrLoading = TRUE /\ usrError = FALSE
  /\ usrForm = EmptyForm /\ usrCreating = FALSE /\ usrRefused = FALSE
  /\ usrDialog = None /\ usrText = NoText
  /\ usrResetting = FALSE /\ usrFailed = FALSE /\ usrSucceeded = FALSE
  /\ usrTimers = 0
  /\ usrInputs = 0
  /\ usrCalls = {[op |-> "list", of |-> None, text |-> None, sso |-> FALSE, set |-> {},
                  phase |-> "sent", nr |-> 0]}
  /\ usrDone = {} /\ usrMixed = FALSE

Input == usrInputs < MaxUsrInputs /\ usrInputs' = usrInputs + 1

Send(c) == usrCalls' = usrCalls \cup {c}

\* The dialog covers the page.
Page == usrDialog = None

-----------------------------------------------------------------------------
(* The form that adds an account: also while the list is being loaded *)

\* The switch takes back the password.
EditForm ==
  /\ Page
  /\ usrForm' \in {[usrForm EXCEPT !.named = ~@],
                   [usrForm EXCEPT !.sso = ~@, !.password = "none"]} \cup
       (IF usrForm.sso THEN {} ELSE {[usrForm EXCEPT !.password = p] : p \in Passwords})
  /\ usrForm' # usrForm
  /\ UNCHANGED <<usrServer, list, usrCreating, usrRefused, dialog, usrCalls, usrInputs>>

Complete == usrForm.named /\ (usrForm.sso \/ usrForm.password # "none")

\* A short password is not sent.
HandleCreate ==
  /\ Page /\ ~usrCreating /\ Complete /\ Input
  /\ \/ /\ usrForm.password = "short"
        /\ usrRefused' = TRUE
        /\ UNCHANGED <<usrCreating, usrCalls>>
     \/ /\ usrForm.password # "short"
        /\ usrRefused' = FALSE
        /\ usrCreating' = TRUE
        /\ Send([Request("create", None) EXCEPT !.sso = usrForm.sso])
  /\ UNCHANGED <<usrServer, list, usrForm, dialog>>

-----------------------------------------------------------------------------
(* The list *)

\* Nothing keeps the button from being pressed again before the answer.
HandleDelete ==
  /\ Page /\ ~usrLoading /\ Input
  /\ \E i \in usrShown \ {Me} : Send(Request("delete", i))
  /\ UNCHANGED <<usrServer, list, form, dialog>>

\* Faulty: the password that was typed for another account stays
OpenResetAsLeft ==
  /\ Page /\ ~usrLoading
  /\ usrDialog' \in usrShown \ (SSO \cup {Me})
  /\ usrFailed' = FALSE /\ usrSucceeded' = FALSE
  /\ UNCHANGED <<usrServer, list, form, usrText, usrResetting, usrTimers, usrCalls, usrDone,
                 usrMixed, usrInputs>>

OpenReset ==
  /\ Page /\ ~usrLoading
  /\ usrDialog' \in usrShown \ (SSO \cup {Me})
  /\ usrText' = NoText /\ usrFailed' = FALSE /\ usrSucceeded' = FALSE
  /\ usrMixed' = (usrMixed \/ \E c \in usrCalls : c.op = "reset" /\ c.of # usrDialog')
  /\ UNCHANGED <<usrServer, list, form, usrResetting, usrTimers, usrCalls, usrDone, usrInputs>>

Row == HandleDelete \/ OpenReset

-----------------------------------------------------------------------------
(* The dialog *)

CloseReset ==
  /\ usrDialog # None
  /\ usrDialog' = None
  /\ UNCHANGED <<usrServer, list, form, usrText, notes, usrTimers, usrCalls, usrDone,
                 usrMixed, usrInputs>>

TypePassword ==
  /\ usrDialog # None
  /\ usrText' \in {NoText} \cup [for : {usrDialog}, long : BOOLEAN]
  /\ UNCHANGED <<usrServer, list, form, usrDialog, notes, usrTimers, usrCalls, usrDone,
                 usrMixed, usrInputs>>

\* By the button, which waits for the answer to the last one, or by the Enter key, which
\* does not; a short password is not sent.
HandleResetPassword ==
  /\ usrDialog # None /\ usrText # NoText /\ Input
  /\ usrSucceeded' = (usrSucceeded /\ ~usrText.long)
  /\ usrFailed' = ~usrText.long
  /\ usrResetting' = (usrResetting \/ usrText.long)
  /\ IF usrText.long THEN Send([Request("reset", usrDialog) EXCEPT !.text = usrText.for])
     ELSE UNCHANGED usrCalls
  /\ UNCHANGED <<usrServer, list, form, usrDialog, usrText, usrTimers, usrDone, usrMixed>>

\* Whichever account the dialog is open for by then
TimerFires ==
  /\ usrTimers > 0
  /\ usrTimers' = usrTimers - 1
  /\ usrDialog' = None /\ usrSucceeded' = FALSE
  /\ UNCHANGED <<usrServer, list, form, usrText, usrResetting, usrFailed, usrCalls, usrDone,
                 usrMixed, usrInputs>>

-----------------------------------------------------------------------------
(* The server *)

Register(c) ==
  \E i \in Ids :
    /\ usrServer[i] = "none" /\ (i \in SSO) = c.sso
    /\ usrServer' = [usrServer EXCEPT ![i] = "there"]
    /\ usrCalls' = (usrCalls \ {c}) \cup {[c EXCEPT !.phase = "ok", !.of = i]}

DeleteUser(c) ==
  /\ c.of # Me
  /\ usrServer' = [usrServer EXCEPT ![c.of] = "gone"]
  /\ usrCalls' = (usrCalls \ {c}) \cup {[c EXCEPT !.phase = "ok"]}

ResetPassword(c) ==
  /\ c.of \in There \ SSO
  /\ usrCalls' = (usrCalls \ {c}) \cup {[c EXCEPT !.phase = "ok"]}
  /\ UNCHANGED usrServer

ListUsers(c) ==
  /\ usrCalls' = (usrCalls \ {c}) \cup {[c EXCEPT !.phase = "ok", !.set = There]}
  /\ UNCHANGED usrServer

Handle(c) ==
  /\ c.phase = "sent"
  /\ \/ CASE c.op = "list"   -> ListUsers(c)
          [] c.op = "create" -> Register(c)
          [] c.op = "delete" -> DeleteUser(c)
          [] c.op = "reset"  -> ResetPassword(c)
     \/ /\ usrCalls' = (usrCalls \ {c}) \cup {[c EXCEPT !.phase = "no"]}
        /\ UNCHANGED usrServer
  /\ UNCHANGED <<list, form, dialog, usrInputs>>

-----------------------------------------------------------------------------
(* The answers *)

\* The list replaces what has been added to it before it came.
ReceiveList(c) ==
  /\ IF c.phase = "ok" THEN usrShown' = c.set /\ UNCHANGED usrError
     ELSE usrError' = TRUE /\ UNCHANGED usrShown
  /\ usrLoading' = FALSE
  /\ UNCHANGED <<form, dialog>>

ReceiveCreate(c) ==
  /\ IF c.phase = "ok" THEN usrShown' = usrShown \cup {c.of} /\ usrForm' = EmptyForm
                            /\ UNCHANGED usrRefused
     ELSE usrRefused' = TRUE /\ UNCHANGED <<usrShown, usrForm>>
  /\ usrCreating' = FALSE
  /\ UNCHANGED <<usrLoading, usrError, dialog>>

\* A failure is not shown.
ReceiveDelete(c) ==
  /\ usrShown' = IF c.phase = "ok" THEN usrShown \ {c.of} ELSE usrShown
  /\ UNCHANGED <<usrLoading, usrError, form, dialog>>

\* The dialog says so and what is typed in it is taken back, for whom it is by now.
ReceiveReset(c) ==
  /\ IF c.phase = "ok"
     THEN /\ usrSucceeded' = TRUE /\ usrText' = NoText /\ usrTimers' = usrTimers + 1
          /\ usrDone' = usrDone \cup {c.of}
          /\ UNCHANGED usrFailed
     ELSE usrFailed' = TRUE /\ UNCHANGED <<usrSucceeded, usrText, usrTimers, usrDone>>
  /\ usrResetting' = FALSE
  /\ UNCHANGED <<list, form, usrDialog, usrMixed>>

Receive(c) ==
  /\ c.phase # "sent"
  /\ usrCalls' = usrCalls \ {c}
  /\ CASE c.op = "list"   -> ReceiveList(c)
       [] c.op = "create" -> ReceiveCreate(c)
       [] c.op = "delete" -> ReceiveDelete(c)
       [] c.op = "reset"  -> ReceiveReset(c)
  /\ UNCHANGED <<usrServer, usrInputs>>

Next ==
  \/ EditForm \/ HandleCreate \/ Row
  \/ CloseReset \/ TypePassword \/ HandleResetPassword \/ TimerFires
  \/ \E c \in usrCalls : Handle(c) \/ Receive(c)

Spec == Init /\ [][Next]_usrVars

-----------------------------------------------------------------------------
(* Correctness *)

\* The type of every variable
TypeOK ==
  /\ usrServer \in [Ids -> {"none", "there", "gone"}]
  /\ usrShown \subseteq Ids
  /\ {usrLoading, usrError, usrCreating, usrRefused, usrResetting, usrFailed, usrSucceeded,
      usrMixed} \subseteq BOOLEAN
  /\ usrForm \in [named : BOOLEAN, password : Passwords, sso : BOOLEAN]
  /\ usrDialog \in Ids \cup {None}
  /\ usrText \in [for : Ids \cup {None}, long : BOOLEAN]
  /\ usrTimers \in 0..MaxUsrInputs
  /\ usrCalls \subseteq Call /\ usrDone \subseteq Ids
  /\ usrInputs \in 0..MaxUsrInputs

\* A password is only ever set for the account it was typed for, however the one dialog
\* is closed by the user or a timer and opened for another account; and it tells success
\* only of an account whose password was set, unless it was opened for that one while the
\* password of another was still being set.
PasswordsGoWhereTyped ==
  /\ \A c \in usrCalls : c.op = "reset" => c.text = c.of
  /\ usrSucceeded /\ usrDialog # None /\ ~usrMixed => usrDialog \in usrDone
=============================================================================
