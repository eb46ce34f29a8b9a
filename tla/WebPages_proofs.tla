--------------------------- MODULE WebPages_proofs ---------------------------
(***************************************************************************)
(* The types of the client: whatever page the window is opened at, its     *)
(* state is of the types its module declares, for any values of the        *)
(* constants.  The lemmas about each page, with what has to be known       *)
(* besides the types for them to be inductive, are in the modules of the   *)
(* pages' theorems.                                                        *)
(***************************************************************************)
EXTENDS WebAccounts_proofs, WebDetails_proofs, WebForms_proofs

LEMMA PageStays == Spec => [](page \in Pages)
<1>1. Init => page \in Pages
  BY Zenon DEF Init
<1>2. [Next]_vars => page' = page
  BY Zenon DEF Next, Alone, vars
<1>3. page \in Pages /\ [Next]_vars => (page \in Pages)'
  BY <1>2
<1> QED BY <1>1, <1>3, PTL DEF Spec

\* The state of the page that is open is of its types, through every action of the
\* user, the server and the timers: what requests and answers carry, which are kept in
\* sets and come in any order, is always of the kind the handlers take it for.
THEOREM WebTypeCorrect == Spec => []TypeOK
<1>1. /\ page \in Pages
      /\ page = "dashboard" => BoardInv
      /\ page = "session" => SessionInv
      /\ page = "plugins" => Plugin!TypeOK
      /\ page = "form" => Form!TypeOK
      /\ page = "entity" => Entity!TypeOK
      /\ page = "references" => References!TypeOK
      /\ page = "catalog" => List!TypeOK
      /\ page = "access" => Rights!TypeOK
      /\ page = "actions" => Runs!TypeOK
      /\ page = "wizard" => Wizard!TypeOK
      /\ page = "users" => People!TypeOK
      => TypeOK
  <2>1. SessionInv => Login!TypeOK
    BY DEF SessionInv
  <2> QED BY <2>1, BoardTyped, Zenon DEF TypeOK, Pages
<1> QED BY <1>1, PageStays, BoardInvariant, SessionInvariant, PluginsTypedCorrectly,
           FormTypedCorrectly, EntityTypedCorrectly, PickersTypedCorrectly,
           CatalogTypedCorrectly, AccessTypedCorrectly, RunsTypedCorrectly,
           WizardTypedCorrectly, UsersTypedCorrectly, PTL
=============================================================================
