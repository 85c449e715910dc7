-------------------------------- MODULE RoleNames --------------------------------
(***************************************************************************)
(* How a role gets, changes and gives back its name and its id.            *)
(* uniquenamed keeps one register of names and ids for all zones; each     *)
(* zone has a gamedbd with its roles and a gdeliveryd that first reserves  *)
(* in the register, then writes the database, then confirms or frees the   *)
(* reservation.  Nothing else holds the two together.  Both servers run    *)
(* their requests on a pool of threads, one transaction each: a handler is *)
(* one step, and requests are served in any order.                         *)
(*                                                                         *)
(* A definition named Mut... is a plausible mistake in the definition that *)
(* follows it.                                                             *)
(***************************************************************************)
EXTENDS Naturals

CONSTANTS
    Zone, User, Name,
    RoleCount,      \* MAX_ROLE_COUNT, the roles of a user
    OldUser,        \* users whose logicuid is their userid
    Xid,            \* room for requests that are under way
    NoName, NoCall, Free,
    MaxAsked,       \* bound: what players ask for
    MaxFaults       \* bound: crashes, timeouts, lost requests, deletions sent twice

ASSUME CountAssumption == RoleCount \in Nat \ {0} /\ MaxAsked \in Nat /\ MaxFaults \in Nat
ASSUME UserAssumption  == OldUser \subseteq User

Slot == 0 .. RoleCount - 1
Role == User \X Slot

\* PostCreateRole is two kinds, for success and failure, and so is PostPlayerRename;
\* "RollBack" is DBDeleteRole with create_rollback.
Kind == {"PreCreateRole", "DBCreateRole", "PostCreateRole", "PostCreateFailed", "RollBack",
         "DBDeleteRole", "PostDeleteRole",
         "PrePlayerRename", "DBPlayerRename", "PostPlayerRename", "PostRenameFailed"}

\* Requests whose answer, or its absence, changes nothing, among them the one that
\* is no Rpc.
OneWay == {"RollBack", "PostDeleteRole", "PostPlayerRename", "PostRenameFailed"}

VARIABLES
    unamerole,  \* [Name -> entry or Free], in uniquenamed
    uidrole,    \* [User -> SUBSET Slot], in uniquenamed
    roles,      \* [Zone -> [Role -> Name or NoName]], base and user.rolelist of gamedbd
    obsolete,   \* [Zone -> SUBSET Name], the rows of rolename for names given up
    calls,      \* [Xid -> request or NoCall]
    asked, faults

database == <<roles, obsolete>>
register == <<unamerole, uidrole>>
vars     == <<register, database, calls, asked, faults>>

Entry == [role : Role, status : {"engaged", "used", "obsolete"}]

\* In phase "sent" gdeliveryd waits for the answer, in "orphan" nobody does.  found is
\* the name gamedbd found the role to have; slot RoleCount is none yet.
Call == [kind : Kind, zone : Zone, role : User \X (0 .. RoleCount), name : Name \cup {NoName},
         found : Name \cup {NoName}, phase : {"sent", "orphan", "answered"}, ok : BOOLEAN]

ASSUME DistinctValues == NoName \notin Name /\ NoCall \notin Call /\ Free \notin Entry

TypeOK ==
    /\ unamerole \in [Name -> Entry \cup {Free}]
    /\ uidrole \in [User -> SUBSET Slot]
    /\ roles \in [Zone -> [Role -> Name \cup {NoName}]]
    /\ obsolete \in [Zone -> SUBSET Name]
    /\ calls \in [Xid -> Call \cup {NoCall}]
    /\ asked \in 0 .. MaxAsked /\ faults \in 0 .. MaxFaults

Exists(z, r) == roles[z][r] # NoName

\* What rolename has a row for.
Taken(z, n) == n \in obsolete[z] \/ \E r \in Role : roles[z][r] = n

Init ==
    /\ unamerole = [n \in Name |-> Free] /\ uidrole = [u \in User |-> {}]
    /\ roles = [z \in Zone |-> [r \in Role |-> NoName]] /\ obsolete = [z \in Zone |-> {}]
    /\ calls = [x \in Xid |-> NoCall] /\ asked = 0 /\ faults = 0

-----------------------------------------------------------------------------
(***************************************************************************)
(* Requests and answers.                                                   *)
(***************************************************************************)
Request(kind, z, r, n, found) ==
    [kind |-> kind, zone |-> z, role |-> r, name |-> n, found |-> found,
     phase |-> IF kind \in OneWay THEN "orphan" ELSE "sent", ok |-> FALSE]

Asks(x, c) ==
    /\ calls[x] = NoCall /\ asked < MaxAsked
    /\ calls' = [calls EXCEPT ![x] = c]
    /\ asked' = asked + 1
    /\ UNCHANGED <<register, database>>

Reaches(x, kind) == calls[x] # NoCall /\ calls[x].kind = kind /\ calls[x].phase # "answered"
Returns(x, kind) == calls[x] # NoCall /\ calls[x].kind = kind /\ calls[x].phase = "answered"

\* The handler of x ends; an answer nobody waits for is dropped.
Answer(x, ok, r, found) ==
    /\ calls' = [calls EXCEPT ![x] =
           IF @.phase = "orphan" THEN NoCall
           ELSE [@ EXCEPT !.phase = "answered", !.ok = ok, !.role = r, !.found = found]]
    /\ UNCHANGED <<asked, faults>>

Accept(x, found) == Answer(x, TRUE, calls[x].role, found)
Refuse(x)        == Answer(x, FALSE, calls[x].role, NoName) /\ UNCHANGED <<register, database>>

\* gdeliveryd has seen the answer of x; c is what it sends then.
Sends(x, c) ==
    /\ calls' = [calls EXCEPT ![x] = c]
    /\ UNCHANGED <<register, database, asked, faults>>

-----------------------------------------------------------------------------
(***************************************************************************)
(* Creating a role.                                                        *)
(***************************************************************************)
CreateRole(z, u, n, x) ==
    Asks(x, Request("PreCreateRole", z, <<u, RoleCount>>, n, NoName)) /\ UNCHANGED faults

\* RoleList::AddRole takes the first slot that is free.
MutServePreCreateReclaims(x) ==
    /\ Reaches(x, "PreCreateRole")
    /\ LET u    == calls[x].role[1]
           n    == calls[x].name
           open == Slot \ uidrole[u]
       IN \/ /\ unamerole[n] # Free \/ open = {}
             /\ Refuse(x)
          \/ /\ unamerole[n] # Free => unamerole[n].status = "engaged"
             /\ \E s \in open :
                   /\ \A t \in open : s <= t
                   /\ unamerole' = [unamerole EXCEPT ![n] = [role |-> <<u, s>>, status |-> "engaged"]]
                   /\ uidrole' = [uidrole EXCEPT ![u] = @ \cup {s}]
                   /\ Answer(x, TRUE, <<u, s>>, NoName)
             /\ UNCHANGED database

MutServePreCreateForgetsSlot(x) ==
    /\ Reaches(x, "PreCreateRole")
    /\ LET u    == calls[x].role[1]
           n    == calls[x].name
           open == Slot \ uidrole[u]
       IN \/ /\ unamerole[n] # Free \/ open = {}
             /\ Refuse(x)
          \/ /\ unamerole[n] = Free
             /\ \E s \in open :
                   /\ \A t \in open : s <= t
                   /\ unamerole' = [unamerole EXCEPT ![n] = [role |-> <<u, s>>, status |-> "engaged"]]
                   /\ Answer(x, TRUE, <<u, s>>, NoName)
             /\ UNCHANGED <<uidrole, database>>

ServePreCreate(x) ==
    /\ Reaches(x, "PreCreateRole")
    /\ LET u    == calls[x].role[1]
           n    == calls[x].name
           open == Slot \ uidrole[u]
       IN \/ /\ unamerole[n] # Free \/ open = {}
             /\ Refuse(x)
          \/ /\ unamerole[n] = Free
             /\ \E s \in open :
                   /\ \A t \in open : s <= t
                   /\ unamerole' = [unamerole EXCEPT ![n] = [role |-> <<u, s>>, status |-> "engaged"]]
                   /\ uidrole' = [uidrole EXCEPT ![u] = @ \cup {s}]
                   /\ Answer(x, TRUE, <<u, s>>, NoName)
             /\ UNCHANGED database

OnPreCreate(x) ==
    LET c == calls[x] IN
    /\ Returns(x, "PreCreateRole")
    /\ Sends(x, IF c.ok THEN Request("DBCreateRole", c.zone, c.role, c.name, NoName) ELSE NoCall)

\* A role id that is in use is answered with the name of the role that has it; other
\* checks and the storage refuse at any time.
ServeDBCreate(x) ==
    LET c == calls[x] IN
    /\ Reaches(x, "DBCreateRole")
    /\ \/ Refuse(x)
       \/ /\ ~Taken(c.zone, c.name) /\ Exists(c.zone, c.role)
          /\ Accept(x, roles[c.zone][c.role])
          /\ UNCHANGED <<register, database>>
       \/ /\ ~Taken(c.zone, c.name) /\ ~Exists(c.zone, c.role)
          /\ roles' = [roles EXCEPT ![c.zone][c.role] = c.name]
          /\ Accept(x, NoName)
          /\ UNCHANGED <<register, obsolete>>

MutOnDBCreateKeepsQuiet(x) ==
    LET c == calls[x] IN
    /\ Returns(x, "DBCreateRole")
    /\ Sends(x, IF c.ok
                THEN Request("PostCreateRole", c.zone, c.role,
                             IF c.found # NoName THEN c.found ELSE c.name, NoName)
                ELSE NoCall)

OnDBCreate(x) ==
    LET c == calls[x] IN
    /\ Returns(x, "DBCreateRole")
    /\ Sends(x, IF c.ok
                THEN Request("PostCreateRole", c.zone, c.role,
                             IF c.found # NoName THEN c.found ELSE c.name, NoName)
                ELSE Request("PostCreateFailed", c.zone, c.role, c.name, NoName))

Uses(n, r) == unamerole' = [unamerole EXCEPT ![n] = [role |-> r, status |-> "used"]]

\* A role that base does not have is answered without a name.
Frees(n, r) ==
    /\ unamerole' = IF n = NoName THEN unamerole ELSE [unamerole EXCEPT ![n] = Free]
    /\ uidrole' = [uidrole EXCEPT ![r[1]] = @ \ {r[2]}]

ServePostCreate(x) ==
    /\ Reaches(x, "PostCreateRole")
    /\ Uses(calls[x].name, calls[x].role)
    /\ Accept(x, NoName)
    /\ UNCHANGED <<uidrole, database>>

ServePostCreateFailed(x) ==
    /\ Reaches(x, "PostCreateFailed")
    /\ Frees(calls[x].name, calls[x].role)
    /\ Accept(x, NoName)
    /\ UNCHANGED database

OnPostCreate(x) ==
    /\ Returns(x, "PostCreateRole") \/ Returns(x, "PostCreateFailed")
    /\ Sends(x, NoCall)

-----------------------------------------------------------------------------
(***************************************************************************)
(* Deleting a role.                                                        *)
(***************************************************************************)
About(z, r) == {x \in Xid : calls[x] # NoCall /\ calls[x].zone = z /\ calls[x].role = r}

\* The role was marked Role.delete_timeout ago.  The task for timed-out roles, the
\* list of roles of its user and the account service ask without knowing of each other.
DeleteRole(z, r, x) ==
    /\ Exists(z, r)
    /\ \A y \in About(z, r) : calls[y].kind = "DBDeleteRole"
    /\ Asks(x, Request("DBDeleteRole", z, r, NoName, NoName))
    /\ faults < MaxFaults \/ About(z, r) = {}
    /\ faults' = IF About(z, r) = {} THEN faults ELSE faults + 1

\* Without base the user is taken to be LOGICUID of the role.
Deletes(x, c) ==
    \/ /\ Exists(c.zone, c.role)
       /\ roles' = [roles EXCEPT ![c.zone][c.role] = NoName]
       /\ Accept(x, roles[c.zone][c.role])
       /\ UNCHANGED <<register, obsolete>>
    \/ /\ ~Exists(c.zone, c.role) /\ c.role[1] \in OldUser
       /\ Accept(x, NoName)
       /\ UNCHANGED <<register, database>>
    \/ /\ ~Exists(c.zone, c.role) /\ c.role[1] \notin OldUser
       /\ Refuse(x)

ServeDBDelete(x) == Reaches(x, "DBDeleteRole") /\ Deletes(x, calls[x])

\* Refused when the role is older than five minutes.
ServeRollBack(x) == Reaches(x, "RollBack") /\ (Refuse(x) \/ Deletes(x, calls[x]))

OnDBDelete(x) ==
    LET c == calls[x] IN
    /\ Returns(x, "DBDeleteRole")
    /\ Sends(x, IF c.ok THEN Request("PostDeleteRole", c.zone, c.role, c.found, NoName) ELSE NoCall)

ServePostDelete(x) ==
    /\ Reaches(x, "PostDeleteRole")
    /\ Frees(calls[x].name, calls[x].role)
    /\ Accept(x, NoName)
    /\ UNCHANGED database

-----------------------------------------------------------------------------
(***************************************************************************)
(* Renaming a role.                                                        *)
(***************************************************************************)
\* The role is in the game, so nobody is deleting it.
Rename(z, r, n, x) ==
    /\ Exists(z, r)
    /\ \A y \in About(z, r) : calls[y].kind # "DBDeleteRole"
    /\ Asks(x, Request("PrePlayerRename", z, r, n, NoName))
    /\ UNCHANGED faults

ServePreRename(x) ==
    LET c == calls[x] IN
    /\ Reaches(x, "PrePlayerRename")
    /\ \/ /\ unamerole[c.name] # Free
          /\ Refuse(x)
       \/ /\ unamerole[c.name] = Free
          /\ unamerole' = [unamerole EXCEPT ![c.name] = [role |-> c.role, status |-> "engaged"]]
          /\ Accept(x, NoName)
          /\ UNCHANGED <<uidrole, database>>

OnPreRename(x) ==
    LET c == calls[x] IN
    /\ Returns(x, "PrePlayerRename")
    /\ Sends(x, IF c.ok THEN Request("DBPlayerRename", c.zone, c.role, c.name, NoName) ELSE NoCall)

\* Refused for the item that pays for it, too.
ServeDBRename(x) ==
    LET c == calls[x] IN
    /\ Reaches(x, "DBPlayerRename")
    /\ \/ Refuse(x)
       \/ /\ ~Taken(c.zone, c.name) /\ Exists(c.zone, c.role)
          /\ roles' = [roles EXCEPT ![c.zone][c.role] = c.name]
          /\ obsolete' = [obsolete EXCEPT ![c.zone] = @ \cup {roles[c.zone][c.role]}]
          /\ Accept(x, roles[c.zone][c.role])
          /\ UNCHANGED register

OnDBRename(x) ==
    LET c == calls[x] IN
    /\ Returns(x, "DBPlayerRename")
    /\ Sends(x, IF c.ok THEN Request("PostPlayerRename", c.zone, c.role, c.name, c.found)
                ELSE Request("PostRenameFailed", c.zone, c.role, c.name, NoName))

MutServePostRenameFreesOld(x) ==
    LET c == calls[x] IN
    /\ Reaches(x, "PostPlayerRename")
    /\ unamerole' = [unamerole EXCEPT ![c.name] = [role |-> c.role, status |-> "used"],
                                      ![c.found] = Free]
    /\ Accept(x, NoName)
    /\ UNCHANGED <<uidrole, database>>

ServePostRename(x) ==
    LET c == calls[x] IN
    /\ Reaches(x, "PostPlayerRename")
    /\ unamerole' = [n \in Name |->
           IF n = c.name THEN [role |-> c.role, status |-> "used"]
           ELSE IF n = c.found /\ unamerole[n] # Free /\ unamerole[n].role = c.role
           THEN [role |-> c.role, status |-> "obsolete"]
           ELSE unamerole[n]]
    /\ Accept(x, NoName)
    /\ UNCHANGED <<uidrole, database>>

ServePostRenameFailed(x) ==
    /\ Reaches(x, "PostRenameFailed")
    /\ unamerole' = [unamerole EXCEPT ![calls[x].name] = Free]
    /\ Accept(x, NoName)
    /\ UNCHANGED <<uidrole, database>>

-----------------------------------------------------------------------------
(***************************************************************************)
(* Faults.                                                                 *)
(***************************************************************************)
Fault == faults < MaxFaults /\ faults' = faults + 1 /\ UNCHANGED <<register, database, asked>>

\* What is left of a request nobody waits for any more.
Left(c) == IF c = NoCall \/ c.phase = "answered" THEN NoCall ELSE [c EXCEPT !.phase = "orphan"]

\* gdeliveryd of a zone ends.
Crash(z) ==
    /\ Fault
    /\ calls' = [x \in Xid |-> IF calls[x] # NoCall /\ calls[x].zone = z THEN Left(calls[x]) ELSE calls[x]]

\* With its connection.
Lose(x) ==
    /\ Fault
    /\ calls[x] # NoCall /\ calls[x].phase = "orphan"
    /\ calls' = [calls EXCEPT ![x] = NoCall]

Overdue(x, kinds) ==
    /\ Fault
    /\ calls[x] # NoCall /\ calls[x].kind \in kinds /\ calls[x].phase # "orphan"

TimesOutSilently(x) ==
    /\ Overdue(x, {"PreCreateRole", "PrePlayerRename", "DBDeleteRole"})
    /\ calls' = [calls EXCEPT ![x] = Left(@)]

DBCreateTimesOut(x, y, y2) ==
    LET c == calls[x] IN
    /\ Overdue(x, {"DBCreateRole"})
    /\ y # y2 /\ calls[y] = NoCall /\ calls[y2] = NoCall
    /\ calls' = [calls EXCEPT ![x] = Left(@),
           ![y] = Request("RollBack", c.zone, c.role, NoName, NoName),
           ![y2] = Request("PostCreateFailed", c.zone, c.role, c.name, NoName)]

DBRenameTimesOut(x, y) ==
    LET c == calls[x] IN
    /\ Overdue(x, {"DBPlayerRename"})
    /\ calls[y] = NoCall
    /\ calls' = [calls EXCEPT ![x] = Left(@),
           ![y] = Request("PostRenameFailed", c.zone, c.role, c.name, NoName)]

\* Sent again, for ever.
PostCreateTimesOut(x, y, kind) ==
    LET c == calls[x] IN
    /\ Overdue(x, {kind})
    /\ calls[y] = NoCall
    /\ calls' = [calls EXCEPT ![x] = Left(@),
           ![y] = Request(c.kind, c.zone, c.role, c.name, NoName)]

-----------------------------------------------------------------------------
Ask == \E z \in Zone, n \in Name, x \in Xid :
          \/ \E u \in User : CreateRole(z, u, n, x)
          \/ \E r \in Role : DeleteRole(z, r, x) \/ Rename(z, r, n, x)

Serve == \E x \in Xid :
    \/ ServePreCreate(x) \/ ServeDBCreate(x) \/ ServePostCreate(x) \/ ServePostCreateFailed(x)
    \/ ServeDBDelete(x) \/ ServePostDelete(x)
    \/ ServePreRename(x) \/ ServeDBRename(x) \/ ServePostRename(x) \/ ServePostRenameFailed(x)

Receive == \E x \in Xid : \/ OnPreCreate(x) \/ OnDBCreate(x) \/ OnPostCreate(x) \/ OnDBDelete(x)
                          \/ OnPreRename(x) \/ OnDBRename(x)

Fails == \/ \E z \in Zone : Crash(z)
         \/ \E x \in Xid : Lose(x) \/ TimesOutSilently(x)
         \/ \E x, y \in Xid : PostCreateTimesOut(x, y, "PostCreateRole")

Next == Ask \/ Serve \/ Receive \/ Fails

\* What gdeliveryd does when it has waited too long for a write, and then undoes what may
\* have been done or may still be done.
GivesUp == \E x, y \in Xid :
    \/ DBRenameTimesOut(x, y) \/ PostCreateTimesOut(x, y, "PostCreateFailed")
    \/ \E y2 \in Xid : DBCreateTimesOut(x, y, y2)
    \/ ServeRollBack(x)

\* Spec is the protocol while every write is answered in time, LateSpec the protocol.
Spec == Init /\ [][Next]_vars
LateSpec == Init /\ [][Next \/ GivesUp]_vars

-----------------------------------------------------------------------------
\* No two roles have the same name, in whichever zones they live: what uniquenamed is for
\* (precreaterole.hrp, preplayerrename.hrp).
UniqueNames ==
    \A z1, z2 \in Zone, r1, r2 \in Role :
        Exists(z1, r1) /\ roles[z1][r1] = roles[z2][r2] => z1 = z2 /\ r1 = r2

\* A role id is given to one role of one zone, so that zones can be merged
\* (uidrole in precreaterole.hrp, postdeleterole.hrp).
UniqueRoleids == \A z1, z2 \in Zone, r \in Role : Exists(z1, r) /\ Exists(z2, r) => z1 = z2

\* The register knows every name a database holds, those that were given up included:
\* nothing frees a name in use, however late it comes.
NamesRegistered == \A z \in Zone, n \in Name : Taken(z, n) => unamerole[n] # Free

\* Without faults the register and the databases agree once nothing is under way: no name
\* and no id is lost by a request that was refused halfway.
AgreeAtRest ==
    faults = 0 /\ (\A x \in Xid : calls[x] = NoCall) =>
        /\ \A n \in Name : unamerole[n] # Free => \E z \in Zone : Taken(z, n)
        /\ \A u \in User, s \in Slot : s \in uidrole[u] <=> \E z \in Zone : Exists(z, <<u, s>>)

\* "Tell uniquename how gamedbd's change of the name went" (dbplayerrename.hrp:70 and 165):
\* uniquenamed hears that a rename failed, and frees the new name, only when the role did not
\* get that name.
RenameResultIsTold ==
    \A x \in Xid : calls[x] # NoCall /\ calls[x].kind = "PostRenameFailed"
                      => roles[calls[x].zone][calls[x].role] # calls[x].name
================================================================================
