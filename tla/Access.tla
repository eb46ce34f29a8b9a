------------------------------- MODULE Access --------------------------------
(***************************************************************************)
(* Access control (web/src/pages/RBAC.tsx): the tabs of the roles and      *)
(* their permissions, of the groups and their members, of the permission   *)
(* rules, and of what one user may do.  Roles, groups and rules are read   *)
(* together and passed down to the tabs; what else a tab keeps is lost     *)
(* when another one is opened, and answers to it are then dropped, except  *)
(* that a write that succeeded still has everything read again.            *)
(***************************************************************************)
EXTENDS Naturals, Functions

CONSTANTS
  Roles, BuiltIn,   \* roles that may exist, and those that cannot be deleted
  Perms,            \* what a role may permit
  Admin,            \* the role, and the permission, that stay together
  Groups, LocalGroups, Users,   \* groups, and those that were created here
  None,             \* no group, or no user
  MaxAccInputs      \* bound: what the user does

AccessAssumption ==
  /\ BuiltIn \subseteq Roles /\ Admin \in BuiltIn \cap Perms
  /\ None \notin Groups \cup Users /\ Groups \cap (Users \cup Roles) = {}
  /\ LocalGroups \subseteq Groups
  /\ MaxAccInputs \in Nat

Tabs == {"roles", "groups", "rules", "overview"}

VARIABLES
  accRoles,    \* the server's: the permissions of each role there is
  accGroups,   \* the server's: the members of each group there is
  accMade,     \* the server's: the roles and groups there have been; none comes again
  accRules,    \* the server's: the type and the subject of each rule
  accUnread,   \* history: the groups whose members could not be read when last asked for
  accTab,
  accShown,    \* roles, groups and rules as last read; loading until they are
  accExpanded, accMembers,   \* of the groups' tab
  accSubject,                \* of the rules' tab: the type and the subject of a new one
  accUser, accPerms,         \* of the overview: the user chosen, and the one it is of
  accCalls,    \* requests that have not been answered
  accRaced,    \* history: what the user did before the last answer, or after an error
  accInputs

accVars == <<accRoles, accGroups, accMade, accRules, accUnread, accTab, accShown,
             accExpanded, accMembers, accSubject, accUser, accPerms, accCalls, accRaced,
             accInputs>>

tables == <<accRoles, accGroups, accMade, accRules>>
server == <<tables, accUnread>>
local  == <<accExpanded, accMembers, accSubject, accUser, accPerms>>

PartialFunctions(S, T) == UNION {[D -> T] : D \in SUBSET S}
Rules == [type : {"group", "user"}, id : Groups \cup Users]
Lists == [loading : BOOLEAN, roles : PartialFunctions(Roles, SUBSET Perms),
          groups : SUBSET Groups, rules : SUBSET Rules]

NoLists == [loading |-> TRUE, roles |-> <<>>, groups |-> {}, rules |-> {}]

\* What a request is about: the tab it is of, what it names and who; the permissions of a
\* role or the members of a group; lists that were read; whether its tab is still open
Call == [op : {"toggle", "createRole", "deleteRole", "createGroup", "deleteGroup", "setRole",
               "add", "remove", "expand", "reread", "createRule", "deleteRule", "effective",
               "refresh"},
         of : Roles \cup Groups \cup Users \cup {None}, who : Users \cup {None},
         type : {"group", "user"}, set : SUBSET (Perms \cup Users), lists : {NoLists} \cup Lists,
         done : BOOLEAN, live : BOOLEAN, nr : 0..MaxAccInputs]

Request(op, of) ==
  [op |-> op, of |-> of, who |-> None, type |-> "group", set |-> {}, lists |-> NoLists,
   done |-> FALSE, live |-> TRUE, nr |-> accInputs']

Reads       == {"refresh", "expand", "reread", "effective"}
GroupOps    == {"add", "remove", "expand", "reread", "deleteGroup"}
\* Writes, and what follows them until everything has been read again
ListOps     == {"toggle", "createRole", "deleteRole", "createGroup", "deleteGroup", "setRole",
                "add", "remove", "createRule", "deleteRule", "reread", "refresh"}

Init ==
  /\ accRoles \in [BuiltIn -> {Perms}]
  /\ \E D \in {Groups, Groups \ LocalGroups} : accGroups \in [D -> SUBSET Users]
  /\ accMade = BuiltIn \cup DOMAIN accGroups
  /\ accRules = {} /\ accUnread = {}
  /\ accTab = "roles"
  /\ accShown = NoLists
  /\ accExpanded = None /\ accMembers = {}
  /\ accSubject = [type |-> "group", id |-> None]
  /\ accUser = None /\ accPerms = None
  /\ accInputs = 0
  /\ accCalls = {[op |-> "refresh", of |-> None, who |-> None, type |-> "group", set |-> {},
                  lists |-> NoLists, done |-> FALSE, live |-> TRUE, nr |-> 0]}
  /\ accRaced = {}

-----------------------------------------------------------------------------
(* What the user does on the tabs *)

Input == accInputs < MaxAccInputs /\ accInputs' = accInputs + 1

\* While what the page shows may not be what the server has
Waiting(ops) == \E c \in accCalls : c.op \in ops

Awaited(tab) == CASE tab = "roles"    -> ListOps
                  [] tab = "groups"   -> GroupOps
                  [] tab = "overview" -> {"effective"}

Race(tabs) == accRaced' = accRaced \cup {tab \in tabs : Waiting(Awaited(tab))}

SwitchTab ==
  /\ Input
  /\ accTab' \in Tabs \ {accTab}
  /\ accExpanded' = None /\ accMembers' = {}
  /\ accSubject' = [type |-> "group", id |-> None]
  /\ accUser' = None /\ accPerms' = None
  /\ accCalls' = {[c EXCEPT !.live = FALSE] : c \in accCalls}
  /\ UNCHANGED <<server, accShown, accRaced>>

On(tab) ==
  /\ accTab = tab /\ ~accShown.loading /\ Input
  /\ UNCHANGED <<server, accTab, accShown>>

Send(c) == accCalls' = accCalls \cup {c}

\* A button for each permission of each role
Matrix == ((DOMAIN accShown.roles) \X Perms) \ {<<Admin, Admin>>}

\* Faulty: the one permission is sent, not those beside it
ToggledAlone(shown, perm) == {perm} \ shown

\* All the permissions of the role are sent, as the page shows them but for one.
Toggled(shown, perm) == IF perm \in shown THEN shown \ {perm} ELSE shown \cup {perm}

HandleToggle ==
  /\ On("roles")
  /\ \E r \in DOMAIN accShown.roles, p \in Perms :
       /\ <<r, p>> \in Matrix
       /\ Send([Request("toggle", r) EXCEPT !.set = Toggled(accShown.roles[r], p)])
  /\ Race({"roles"}) /\ UNCHANGED local

CreateRole ==
  /\ On("roles")
  /\ \E r \in Roles \ BuiltIn, set \in SUBSET Perms :
       Send([Request("createRole", r) EXCEPT !.set = set])
  /\ Race({"roles"}) /\ UNCHANGED local

DeleteRole ==
  /\ On("roles")
  /\ \E r \in DOMAIN accShown.roles \ BuiltIn : Send(Request("deleteRole", r))
  /\ Race({"roles"}) /\ UNCHANGED local

\* The rows of the table
GroupRows == accShown.groups

\* A second click closes the group; another one is shown with the members of the last
\* until its own come.
ToggleExpand ==
  /\ On("groups")
  /\ \E g \in GroupRows :
       IF g = accExpanded THEN accExpanded' = None /\ UNCHANGED accCalls
       ELSE accExpanded' = g /\ Send(Request("expand", g))
  /\ Race({"groups"})
  /\ UNCHANGED <<accMembers, accSubject, accUser, accPerms>>

\* To the group that is open any user can be added that is not shown as a member, and
\* who is shown as one can be removed.
ChangeMember ==
  /\ On("groups") /\ accExpanded \in GroupRows
  /\ \E u \in Users :
       Send([Request(IF u \in accMembers THEN "remove" ELSE "add", accExpanded)
               EXCEPT !.who = u])
  /\ Race({"roles", "groups"}) /\ UNCHANGED local

CreateGroup ==
  /\ On("groups")
  /\ \E g \in LocalGroups : Send(Request("createGroup", g))
  /\ Race({"roles"}) /\ UNCHANGED local

DeleteGroup ==
  /\ On("groups")
  /\ \E g \in GroupRows \cap LocalGroups : Send(Request("deleteGroup", g))
  /\ Race({"roles", "groups"}) /\ UNCHANGED local

HandleRoleChange ==
  /\ On("groups")
  /\ \E g \in GroupRows : Send(Request("setRole", g))
  /\ Race({"roles"}) /\ UNCHANGED local

\* Another type of subject takes back the subject.
ChooseType(type) == [type |-> type, id |-> None]

ChooseSubject ==
  /\ accTab = "rules" /\ ~accShown.loading
  /\ accSubject' \in {ChooseType(t) : t \in {"group", "user"} \ {accSubject.type}} \cup
       {[accSubject EXCEPT !.id = i] :
          i \in IF accSubject.type = "group" THEN accShown.groups ELSE Users}
  /\ UNCHANGED <<server, accTab, accShown, accExpanded, accMembers, accUser, accPerms,
                 accCalls, accRaced, accInputs>>

CreateRule ==
  /\ On("rules") /\ accSubject.id # None
  /\ Send([Request("createRule", accSubject.id) EXCEPT !.type = accSubject.type])
  /\ Race({"roles"}) /\ UNCHANGED local

DeleteRule ==
  /\ On("rules")
  /\ \E r \in accShown.rules :
       Send([Request("deleteRule", r.id) EXCEPT !.type = r.type])
  /\ Race({"roles"}) /\ UNCHANGED local

\* What the user chosen may do, or that there is nothing to show
OverviewShown == accPerms # None

LoadPerms ==
  /\ On("overview")
  /\ \E u \in (Users \cup {None}) \ {accUser} :
       /\ accUser' = u
       /\ IF u = None THEN accPerms' = None /\ UNCHANGED accCalls
          ELSE Send(Request("effective", u)) /\ UNCHANGED accPerms
  /\ Race({"overview"})
  /\ UNCHANGED <<accExpanded, accMembers, accSubject>>

-----------------------------------------------------------------------------
(* The server *)

Handled(c) == accCalls' = (accCalls \ {c}) \cup {[c EXCEPT !.done = TRUE]}

\* The permissions are replaced by those in the request, but the administrator's stay
\* the administrator's.
UpdateRole(c) ==
  /\ c.of \in DOMAIN accRoles /\ UNCHANGED accMade
  /\ accRoles' = [accRoles EXCEPT ![c.of] = IF c.of = Admin THEN c.set \cup {Admin} ELSE c.set]

AddRole(c) ==
  /\ c.of \notin accMade /\ accMade' = accMade \cup {c.of}
  /\ accRoles' = [r \in DOMAIN accRoles \cup {c.of} |-> IF r = c.of THEN c.set ELSE accRoles[r]]

DropRole(c) ==
  /\ c.of \in DOMAIN accRoles \ BuiltIn /\ UNCHANGED accMade
  /\ accRoles' = Restrict(accRoles, DOMAIN accRoles \ {c.of})

HandleRole(c) ==
  /\ CASE c.op = "toggle"     -> UpdateRole(c)
       [] c.op = "createRole" -> AddRole(c)
       [] c.op = "deleteRole" -> DropRole(c)
  /\ UNCHANGED <<accGroups, accRules>>

HandleGroup(c) ==
  /\ IF c.op = "createGroup"
     THEN c.of \notin accMade /\ accMade' = accMade \cup {c.of}
     ELSE c.of \in DOMAIN accGroups /\ UNCHANGED accMade
  /\ accGroups' =
       CASE c.op = "createGroup" -> [g \in DOMAIN accGroups \cup {c.of} |->
                                       IF g = c.of THEN {} ELSE accGroups[g]]
         [] c.op = "deleteGroup" -> Restrict(accGroups, DOMAIN accGroups \ {c.of})
         [] c.op = "add"         -> [accGroups EXCEPT ![c.of] = @ \cup {c.who}]
         [] c.op = "remove"      -> [accGroups EXCEPT ![c.of] = @ \ {c.who}]
         [] c.op = "setRole"     -> accGroups
  /\ UNCHANGED <<accRoles, accRules>>

HandleRule(c) ==
  /\ LET rule == [type |-> c.type, id |-> c.of] IN
     accRules' = IF c.op = "createRule" THEN accRules \cup {rule} ELSE accRules \ {rule}
  /\ UNCHANGED <<accRoles, accGroups, accMade>>

HandleWrite(c) ==
  /\ CASE c.op \in {"toggle", "createRole", "deleteRole"} -> HandleRole(c)
       [] c.op \in {"createRule", "deleteRule"}           -> HandleRule(c)
       [] OTHER                                           -> HandleGroup(c)
  /\ Handled(c) /\ UNCHANGED accUnread

\* Of a group its members are read.  One whose members cannot be listed is answered all
\* the same, as one that has none.
HandleMembers(c) ==
  /\ c.of \in DOMAIN accGroups
  /\ \E listed \in BOOLEAN :
       /\ accCalls' = (accCalls \ {c}) \cup
            {[c EXCEPT !.done = TRUE, !.set = IF listed THEN accGroups[c.of] ELSE {}]}
       /\ accUnread' = IF listed THEN accUnread \ {c.of} ELSE accUnread \cup {c.of}

\* Everything is read in lists, and of a user what the permissions are.
HandleLists(c) ==
  /\ accCalls' = (accCalls \ {c}) \cup
       {[c EXCEPT !.done = TRUE, !.lists =
           IF c.op = "refresh"
           THEN [loading |-> FALSE, roles |-> accRoles, groups |-> DOMAIN accGroups,
                 rules |-> accRules]
           ELSE c.lists]}
  /\ UNCHANGED accUnread

HandleRead(c) ==
  /\ IF c.op \in {"expand", "reread"} THEN HandleMembers(c) ELSE HandleLists(c)
  /\ UNCHANGED tables

Handle(c) ==
  /\ ~c.done
  /\ IF c.op \in Reads THEN HandleRead(c) ELSE HandleWrite(c)
  /\ UNCHANGED <<accTab, accShown, local, accRaced, accInputs>>

-----------------------------------------------------------------------------
(* The answers.  An error is one of the server, or an answer that is lost. *)

\* Faulty: after every write only the lists are read again
FollowWithLists(c, op) ==
  accCalls' = (accCalls \ {c}) \cup
    {[c EXCEPT !.op = "refresh", !.set = {}, !.lists = NoLists, !.done = FALSE]}

Follow(c, op) ==
  accCalls' = (accCalls \ {c}) \cup {[c EXCEPT !.op = op, !.set = {}, !.lists = NoLists, !.done = FALSE]}

\* Everything is kept as it was read before if one of the lists cannot be read, except
\* that roles that cannot be read are none.
ReceiveRefresh(c, ok) ==
  /\ accShown' \in IF ok THEN {c.lists, [c.lists EXCEPT !.roles = <<>>]}
                   ELSE {[accShown EXCEPT !.loading = FALSE]}
  /\ accRaced' = IF ok THEN accRaced ELSE accRaced \cup {"roles"}
  /\ accCalls' = accCalls \ {c}
  /\ UNCHANGED local

ReceiveMembers(c, ok) ==
  /\ accMembers' = IF c.live /\ ok THEN c.set
                   ELSE IF c.live /\ c.op = "expand" THEN {} ELSE accMembers
  /\ accRaced' = IF ok THEN accRaced ELSE accRaced \cup {"groups"}
  /\ IF ok /\ c.op = "reread" THEN Follow(c, "refresh") ELSE accCalls' = accCalls \ {c}
  /\ UNCHANGED <<accShown, accExpanded, accSubject, accUser, accPerms>>

ReceiveEffective(c, ok) ==
  /\ accPerms' = IF ~c.live THEN accPerms ELSE IF ok THEN c.of ELSE None
  /\ accCalls' = accCalls \ {c}
  /\ UNCHANGED <<accShown, accExpanded, accMembers, accSubject, accUser, accRaced>>

\* After a write everything is read again; of a member, the group first.
ReceiveWrite(c, ok) ==
  /\ IF ok THEN Follow(c, IF c.op \in {"add", "remove"} THEN "reread" ELSE "refresh")
     ELSE accCalls' = accCalls \ {c}
  /\ accRaced' = IF ok THEN accRaced ELSE accRaced \cup {"roles", "groups"}
  /\ accSubject' = IF ok /\ c.live /\ c.op = "createRule"
                   THEN [accSubject EXCEPT !.id = None] ELSE accSubject
  /\ UNCHANGED <<accShown, accExpanded, accMembers, accUser, accPerms>>

Receive(c) ==
  /\ UNCHANGED <<server, accTab, accInputs>>
  /\ \E ok \in {TRUE, FALSE} :
       /\ ok => c.done
       /\ CASE c.op = "refresh"                -> ReceiveRefresh(c, ok)
            [] c.op \in {"expand", "reread"}   -> ReceiveMembers(c, ok)
            [] c.op = "effective"              -> ReceiveEffective(c, ok)
            [] OTHER                           -> ReceiveWrite(c, ok)

Next ==
  \/ SwitchTab
  \/ HandleToggle \/ CreateRole \/ DeleteRole
  \/ ToggleExpand \/ ChangeMember \/ CreateGroup \/ DeleteGroup \/ HandleRoleChange
  \/ ChooseSubject \/ CreateRule \/ DeleteRule
  \/ LoadPerms
  \/ \E c \in accCalls : Handle(c) \/ Receive(c)

Spec == Init /\ [][Next]_accVars

-----------------------------------------------------------------------------
(* Correctness *)

\* Who the server tells are in a group
Told(g) == IF g \in accUnread THEN {} ELSE accGroups[g]

\* The type of every variable
TypeOK ==
  /\ accRoles \in PartialFunctions(Roles, SUBSET Perms)
  /\ accGroups \in PartialFunctions(Groups, SUBSET Users)
  /\ accMade \subseteq Roles \cup Groups
  /\ accRules \subseteq Rules /\ accUnread \subseteq Groups
  /\ accShown \in Lists
  /\ accTab \in Tabs
  /\ accExpanded \in Groups \cup {None} /\ accMembers \subseteq Users
  /\ accSubject \in [type : {"group", "user"}, id : Groups \cup Users \cup {None}]
  /\ {accUser, accPerms} \subseteq Users \cup {None}
  /\ accCalls \subseteq Call
  /\ accRaced \subseteq Tabs /\ accInputs \in 0..MaxAccInputs

\* Although a press on one permission has all those of the role written, no other one of
\* the role changes with it, as long as the user waits for the page to be read again
\* after everything that is written, on this tab and on the others.
PressChangesOnePermission ==
  "roles" \in accRaced \/
    \A r \in DOMAIN accRoles \cap DOMAIN accRoles' :
      \E perm \in Perms : accRoles[r] \ {perm} = accRoles'[r] \ {perm}

\* Who is shown as the members of the group that is open are its members, or nobody if
\* the server, which does not tell, could not list them; and the overview is the one of
\* the user chosen there: once the answers have come to a user who waits for each.
TabsShowTheChosen ==
  /\ accExpanded \in accShown.groups \cap DOMAIN accGroups /\ "groups" \notin accRaced
       /\ ~Waiting(GroupOps) =>
         accMembers = Told(accExpanded)
  /\ OverviewShown /\ "overview" \notin accRaced /\ ~Waiting({"effective"}) =>
       accPerms = accUser
=============================================================================
