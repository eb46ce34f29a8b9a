------------------------------- MODULE Session -------------------------------
(***************************************************************************)
(* Who is signed in: the token api.ts keeps (and local storage, for the    *)
(* next start), the session cookie, and the user the provider of           *)
(* useAuth.tsx shows the application to, or else the login page.  A        *)
(* request carries the token if there is one and the cookie otherwise      *)
(* (tokenFromRequest); tokens run out, and answers come late.              *)
(***************************************************************************)
EXTENDS Naturals

CONSTANTS
  Users,
  Tokens,
  Owner,         \* whose token it is
  Nobody,        \* no user
  None,          \* no token, no request
  MaxSesInputs   \* bound: what the user does, and tokens that run out

SessionAssumption ==
  /\ Owner \in [Tokens -> Users]
  /\ Nobody \notin Users
  /\ None \notin Tokens
  /\ MaxSesInputs \in Nat

VARIABLES
  sesToken,    \* authToken
  sesCookie,   \* the session cookie
  sesValid,    \* tokens the server accepts
  sesUser,     \* user
  sesLoading,  \* loading
  sesAsk,      \* the request for the user: its step and what it carries
  sesPage,     \* what a request of a page, not yet answered, carries
  sesLeaving,  \* a logout the server has not answered
  sesPassword, \* the change of the password, under way or ended
  sesInputs

sesVars == <<sesToken, sesCookie, sesValid, sesUser, sesLoading, sesAsk, sesPage,
             sesLeaving, sesPassword, sesInputs>>

Steps == {"none", "start", "retry", "login", "me"}
NoAsk == [step |-> "none", with |-> None]

Credentials == Tokens \cup {None}

\* What a request sent now carries
Headers == IF sesToken # None THEN sesToken ELSE sesCookie

Accepted(t) == t \in sesValid

\* Faulty: the provider does not hear of it
TokenForgotten == sesToken' = None /\ UNCHANGED sesUser

\* setToken(null) and the event that makes the provider forget the user
Unauthorized == sesToken' = None /\ sesUser' = Nobody

-----------------------------------------------------------------------------
\* The application starts: with what local storage and the cookies still hold.
Init ==
  /\ sesToken \in Credentials
  /\ sesCookie \in Credentials
  /\ sesValid = Tokens
  /\ sesUser = Nobody
  /\ sesLoading = TRUE
  /\ sesAsk = [step |-> "start", with |-> Headers]
  /\ sesPage = None
  /\ sesLeaving = FALSE
  /\ sesPassword = "idle"
  /\ sesInputs = 0

Input == sesInputs < MaxSesInputs /\ sesInputs' = sesInputs + 1

\* The application shows a user's pages, the login page or, first, neither.
SignedIn  == ~sesLoading /\ sesUser # Nobody
AtLogin   == ~sesLoading /\ sesUser = Nobody

\* getMe succeeds.
StartSucceeds ==
  /\ sesAsk.step \in {"start", "retry"}
  /\ Accepted(sesAsk.with)
  /\ sesUser' = Owner[sesAsk.with]
  /\ sesLoading' = FALSE
  /\ sesAsk' = NoAsk
  /\ UNCHANGED <<sesToken, sesCookie, sesValid, sesPage, sesLeaving, sesPassword,
                 sesInputs>>

\* It fails, for any reason: a token is given up and the cookie tried.
StartFails ==
  /\ sesAsk.step = "start"
  /\ sesToken # None
  /\ Unauthorized
  /\ sesAsk' = [step |-> "retry", with |-> sesCookie]
  /\ UNCHANGED <<sesCookie, sesValid, sesLoading, sesPage, sesLeaving, sesPassword,
                 sesInputs>>

\* Faulty: loading is left as it is
StartEndsQuietly ==
  /\ sesAsk.step \in {"start", "retry"}
  /\ sesToken = None
  /\ sesUser' = Nobody
  /\ sesAsk' = NoAsk
  /\ UNCHANGED <<sesToken, sesCookie, sesValid, sesLoading, sesPage, sesLeaving,
                 sesPassword, sesInputs>>

StartEnds ==
  /\ sesAsk.step \in {"start", "retry"}
  /\ sesToken = None
  /\ sesUser' = Nobody
  /\ sesLoading' = FALSE
  /\ sesAsk' = NoAsk
  /\ UNCHANGED <<sesToken, sesCookie, sesValid, sesPage, sesLeaving, sesPassword,
                 sesInputs>>

-----------------------------------------------------------------------------
(* The login page *)

\* The form for a name and a password can be sent while no login is under way;
\* the links of other sign-in services leave the application.
FormEnabled == AtLogin /\ sesAsk = NoAsk

Submit ==
  /\ FormEnabled /\ Input
  /\ sesAsk' = [step |-> "login", with |-> Headers]
  /\ UNCHANGED <<sesToken, sesCookie, sesValid, sesUser, sesLoading, sesPage,
                 sesLeaving, sesPassword>>

\* The answer sets the cookie and brings the token; where it does not say what the
\* user's role is, the user is asked for.
LoginSucceeds ==
  /\ sesAsk.step = "login"
  /\ \E t \in Tokens :
       /\ Accepted(t)
       /\ sesCookie' = t
       /\ sesToken' = t
       /\ \/ sesUser' = Owner[t] /\ sesAsk' = NoAsk
          \/ sesAsk' = [step |-> "me", with |-> t] /\ UNCHANGED sesUser
  /\ UNCHANGED <<sesValid, sesLoading, sesPage, sesLeaving, sesPassword, sesInputs>>

\* Refused (401) or failed
LoginFails ==
  /\ sesAsk.step = "login"
  /\ sesAsk' = NoAsk
  /\ Unauthorized \/ UNCHANGED <<sesToken, sesUser>>
  /\ UNCHANGED <<sesCookie, sesValid, sesLoading, sesPage, sesLeaving, sesPassword,
                 sesInputs>>

AnswerMe ==
  /\ sesAsk.step = "me"
  /\ sesAsk' = NoAsk
  /\ \/ Accepted(sesAsk.with) /\ sesUser' = Owner[sesAsk.with] /\ UNCHANGED sesToken
     \/ ~Accepted(sesAsk.with) /\ Unauthorized
     \/ UNCHANGED <<sesToken, sesUser>>
  /\ UNCHANGED <<sesCookie, sesValid, sesLoading, sesPage, sesLeaving, sesPassword,
                 sesInputs>>

-----------------------------------------------------------------------------
(* The pages of a signed in user *)

Logout ==
  /\ SignedIn /\ Input
  /\ sesLeaving' = TRUE
  /\ sesToken' = None
  /\ sesUser' = Nobody
  /\ UNCHANGED <<sesCookie, sesValid, sesLoading, sesAsk, sesPage, sesPassword>>

\* The answer clears the cookie, if there is one.
AnswerLogout ==
  /\ sesLeaving
  /\ sesLeaving' = FALSE
  /\ sesCookie' \in {None, sesCookie}
  /\ UNCHANGED <<sesToken, sesValid, sesUser, sesLoading, sesAsk, sesPage,
                 sesPassword, sesInputs>>

Request ==
  /\ SignedIn /\ sesPage = None /\ Headers # None /\ Input
  /\ sesPage' = Headers
  /\ UNCHANGED <<sesToken, sesCookie, sesValid, sesUser, sesLoading, sesAsk,
                 sesLeaving, sesPassword>>

\* A 401 signs out whoever is signed in by now, if it is with a token.
AnswerRequest ==
  /\ sesPage # None
  /\ sesPage' = None
  /\ IF ~Accepted(sesPage) /\ sesToken # None
     THEN Unauthorized
     ELSE UNCHANGED <<sesToken, sesUser>>
  /\ UNCHANGED <<sesCookie, sesValid, sesLoading, sesAsk, sesLeaving, sesPassword,
                 sesInputs>>

PasswordForm == SignedIn /\ sesPassword # "saving"

\* Settings: two new passwords that differ, or a short one, are not sent.
ChangePassword ==
  /\ PasswordForm /\ Input
  /\ sesPassword' \in {"error", "saving"}
  /\ UNCHANGED <<sesToken, sesCookie, sesValid, sesUser, sesLoading, sesAsk, sesPage,
                 sesLeaving>>

\* A wrong current password is answered 401 as well: it signs the user out.
AnswerPassword ==
  /\ sesPassword = "saving"
  /\ \/ sesPassword' \in {"success", "error"} /\ UNCHANGED <<sesToken, sesUser>>
     \/ sesPassword' = "error" /\ sesToken # None /\ Unauthorized
  /\ UNCHANGED <<sesCookie, sesValid, sesLoading, sesAsk, sesPage, sesLeaving,
                 sesInputs>>

-----------------------------------------------------------------------------
Expire ==
  /\ Input
  /\ \E t \in sesValid : sesValid' = sesValid \ {t}
  /\ UNCHANGED <<sesToken, sesCookie, sesUser, sesLoading, sesAsk, sesPage,
                 sesLeaving, sesPassword>>

\* The page is loaded again: answers are lost, but the browser takes the cookie of
\* a logout's answer.
Reload ==
  /\ ~sesLoading /\ sesAsk = NoAsk /\ Input
  /\ sesUser' = Nobody
  /\ sesLoading' = TRUE
  /\ sesAsk' = [step |-> "start", with |-> Headers]
  /\ sesPage' = None
  /\ sesPassword' = "idle"
  /\ UNCHANGED <<sesToken, sesCookie, sesValid, sesLeaving>>

Answer ==
  \/ StartSucceeds \/ StartFails \/ StartEnds
  \/ LoginSucceeds \/ LoginFails \/ AnswerMe

Next ==
  \/ Answer
  \/ Submit \/ Logout \/ AnswerLogout
  \/ Request \/ AnswerRequest \/ ChangePassword \/ AnswerPassword
  \/ Expire \/ Reload

\* The server or the browser answers every request in the end.
Spec == Init /\ [][Next]_sesVars /\ WF_sesVars(Answer)

-----------------------------------------------------------------------------
(* Correctness *)

\* The type of every variable
TypeOK ==
  /\ sesToken \in Credentials
  /\ sesCookie \in Credentials
  /\ sesValid \subseteq Tokens
  /\ sesUser \in Users \cup {Nobody}
  /\ sesLoading \in BOOLEAN
  /\ sesAsk \in [step : Steps, with : Credentials]
  /\ sesPage \in Credentials
  /\ sesLeaving \in BOOLEAN
  /\ sesPassword \in {"idle", "saving", "success", "error"}
  /\ sesInputs \in 0..MaxSesInputs

\* What the pages of a user ask for, they never ask for in another's name: no late
\* answer, of a logout or of an earlier session, leaves one user's pages with the
\* credentials of another, be it the token or the cookie behind it.
RequestsAreTheUsers ==
  SignedIn /\ Headers # None => Owner[Headers] = sesUser

\* The application always gets past its loading screen.
LoadingEnds == sesLoading ~> ~sesLoading
=============================================================================
