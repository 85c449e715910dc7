----------------------------- MODULE RoleNamesProofs -----------------------------
(***************************************************************************)
(* Proofs about RoleNames, for any zones, users, names, requests and       *)
(* faults, while every write of a database is answered in time (Spec).     *)
(*                                                                         *)
(* A name, or an id, that is reserved has one holder at a time: a role, a  *)
(* name given up, or the one request that will give it to a role or free   *)
(* it.  Every step either keeps the holders, makes the first holder of     *)
(* something free, passes what x holds to a role or back, or frees what x  *)
(* holds.  One lemma for each of these shows that it keeps the invariant,  *)
(* and each action is shown to be one of them.                             *)
(***************************************************************************)
EXTENDS RoleNames, TLAPS

\* The request c stands for a reservation.
Holds(c) ==
    \/ c.kind \in {"PreCreateRole", "PrePlayerRename", "DBDeleteRole"} /\ c.phase = "answered" /\ c.ok
    \/ c.kind \in {"DBCreateRole", "DBPlayerRename"} /\ (c.phase # "answered" \/ ~c.ok)
    \/ c.kind \in {"PostCreateFailed", "PostRenameFailed", "PostDeleteRole"} /\ c.phase # "answered"

HoldsName(c, n) ==
    c # NoCall /\ Holds(c) /\ n = IF c.kind = "DBDeleteRole" THEN c.found ELSE c.name

HoldsId(c, r) ==
    /\ c # NoCall /\ Holds(c) /\ c.role = r
    /\ c.kind \notin {"PrePlayerRename", "DBPlayerRename", "PostRenameFailed"}

\* Only a PreCreateRole that is not granted has no role id, and only deletions have no name.
Formed(c) ==
    /\ c \in Call
    /\ c.kind # "PreCreateRole" \/ c.ok => c.role \in Role
    /\ c.kind \notin {"DBDeleteRole", "PostDeleteRole"} => c.name \in Name

Typed == TypeOK /\ \A x \in Xid : calls[x] # NoCall => Formed(calls[x]) /\ calls[x].kind # "RollBack"

NamesHeldOnce ==
    /\ \A n \in Name : \A x, y \in Xid :
           HoldsName(calls[x], n) /\ HoldsName(calls[y], n) => x = y
    /\ \A n \in Name, x \in Xid, z \in Zone : HoldsName(calls[x], n) => ~Taken(z, n)
    /\ \A z1, z2 \in Zone, r \in Role : roles[z1][r] \notin obsolete[z2]
    /\ UniqueNames

NamesKnown ==
    /\ \A n \in Name, x \in Xid : HoldsName(calls[x], n) => unamerole[n] # Free
    /\ NamesRegistered

IdsHeldOnce ==
    /\ \A r \in Role : \A x, y \in Xid : HoldsId(calls[x], r) /\ HoldsId(calls[y], r) => x = y
    /\ \A r \in Role, x \in Xid, z \in Zone : HoldsId(calls[x], r) => ~Exists(z, r)
    /\ UniqueRoleids

IdsKnown ==
    /\ \A r \in Role, x \in Xid : HoldsId(calls[x], r) => r[2] \in uidrole[r[1]]
    /\ \A r \in Role, z \in Zone : Exists(z, r) => r[2] \in uidrole[r[1]]

-----------------------------------------------------------------------------
LEMMA RolesHaveIds == Role \subseteq User \X (0 .. RoleCount)
    BY CountAssumption DEF Role, Slot

(***************************************************************************)
(* Requests and answers are what Formed says.                              *)
(***************************************************************************)
LEMMA RequestFormed ==
    ASSUME NEW k \in Kind \ {"RollBack"}, NEW z \in Zone, NEW r \in User \X (0 .. RoleCount),
           NEW n \in Name \cup {NoName}, NEW f \in Name \cup {NoName},
           k = "PreCreateRole" \/ r \in Role,
           k \in {"DBDeleteRole", "PostDeleteRole"} \/ n \in Name
    PROVE  /\ Request(k, z, r, n, f) # NoCall
           /\ Formed(Request(k, z, r, n, f)) /\ Request(k, z, r, n, f).kind # "RollBack"
<1>1. Request(k, z, r, n, f) \in Call
    BY DEF Request, Call, OneWay
<1>2. Request(k, z, r, n, f) # NoCall
    BY <1>1, DistinctValues
<1>. QED BY <1>1, <1>2 DEF Request, Formed, Kind

\* What Answer puts in the place of a request.
Refused(c) ==
    IF c.phase = "orphan" THEN NoCall
    ELSE [c EXCEPT !.phase = "answered", !.ok = FALSE, !.role = c.role, !.found = NoName]

Accepted(c, r, found) ==
    IF c.phase = "orphan" THEN NoCall
    ELSE [c EXCEPT !.phase = "answered", !.ok = TRUE, !.role = r, !.found = found]

LEMMA RefusedFormed ==
    ASSUME NEW c, Formed(c), c.kind # "RollBack"
    PROVE  Refused(c) # NoCall =>
               /\ Formed(Refused(c))
               /\ Refused(c).kind # "RollBack"
<1>. SUFFICES ASSUME c.phase # "orphan"
              PROVE  LET d == [c EXCEPT !.phase = "answered", !.ok = FALSE, !.role = c.role, !.found = NoName]
                     IN Formed(d) /\ d.kind # "RollBack"
    BY DEF Refused, Accepted
<1>. DEFINE d == [c EXCEPT !.phase = "answered", !.ok = FALSE, !.role = c.role, !.found = NoName]
<1>1. d \in Call
    BY RolesHaveIds DEF Formed, Call
<1>2. d.kind = c.kind /\ d.name = c.name /\ d.role = c.role /\ d.ok = FALSE
    BY DEF Formed, Call
<1>. QED BY <1>1, <1>2 DEF Formed

LEMMA AcceptedFormed ==
    ASSUME NEW c, Formed(c), c.kind # "RollBack",
           NEW r \in Role, NEW f \in Name \cup {NoName}
    PROVE  Accepted(c, r, f) # NoCall =>
               /\ Formed(Accepted(c, r, f))
               /\ Accepted(c, r, f).kind # "RollBack"
<1>. SUFFICES ASSUME c.phase # "orphan"
              PROVE  LET d == [c EXCEPT !.phase = "answered", !.ok = TRUE, !.role = r, !.found = f]
                     IN Formed(d) /\ d.kind # "RollBack"
    BY DEF Refused, Accepted
<1>. DEFINE d == [c EXCEPT !.phase = "answered", !.ok = TRUE, !.role = r, !.found = f]
<1>1. d \in Call
    BY RolesHaveIds DEF Formed, Call
<1>2. d.kind = c.kind /\ d.name = c.name /\ d.role = r /\ d.ok = TRUE
    BY DEF Formed, Call
<1>. QED BY <1>1, <1>2 DEF Formed

\* A step that replaces one request.
LEMMA OneCallTyped ==
    ASSUME Typed, NEW x \in Xid, NEW c, c # NoCall => Formed(c) /\ c.kind # "RollBack",
           calls' = [calls EXCEPT ![x] = c],
           unamerole' \in [Name -> Entry \cup {Free}], uidrole' \in [User -> SUBSET Slot],
           roles' \in [Zone -> [Role -> Name \cup {NoName}]], obsolete' \in [Zone -> SUBSET Name],
           asked' \in 0 .. MaxAsked, faults' \in 0 .. MaxFaults
    PROVE  Typed'
<1>1. calls' \in [Xid -> Call \cup {NoCall}]
    BY DEF Typed, TypeOK, Formed
<1>2. \A y \in Xid : calls'[y] = IF y = x THEN c ELSE calls[y]
    BY DEF Typed, TypeOK
<1>3. \A y \in Xid : calls'[y] # NoCall => Formed(calls'[y]) /\ calls'[y].kind # "RollBack"
    BY <1>2 DEF Typed
<1>. QED BY <1>1, <1>3 DEF Typed, TypeOK

-----------------------------------------------------------------------------
(***************************************************************************)
(* The kinds of step, for names.                                           *)
(***************************************************************************)
NamesStay == roles' = roles /\ obsolete' = obsolete

NamesQuiet ==
    /\ NamesStay
    /\ \A n \in Name : unamerole[n] # Free => unamerole'[n] # Free
    /\ \A y \in Xid, n \in Name : HoldsName(calls'[y], n) => HoldsName(calls[y], n)

NameReserved(x, n) ==
    /\ NamesStay
    /\ unamerole[n] = Free
    /\ \A m \in Name : m = n \/ unamerole[m] # Free => unamerole'[m] # Free
    /\ \A y \in Xid, m \in Name :
           HoldsName(calls'[y], m) => HoldsName(calls[y], m) \/ (y = x /\ m = n)

NameFreed(x, n) ==
    /\ NamesStay
    /\ n = NoName \/ HoldsName(calls[x], n)
    /\ \A m \in Name : m # n /\ unamerole[m] # Free => unamerole'[m] # Free
    /\ \A y \in Xid, m \in Name : HoldsName(calls'[y], m) => HoldsName(calls[y], m) /\ y # x

NameGiven(x, n, z, r) ==
    /\ HoldsName(calls[x], n)
    /\ roles' = [roles EXCEPT ![z][r] = n] /\ unamerole' = unamerole
    /\ \A z1 \in Zone, m \in Name : m \in obsolete'[z1] => m \in obsolete[z1] \/ m = roles[z][r]
    /\ \A y \in Xid, m \in Name : HoldsName(calls'[y], m) => HoldsName(calls[y], m) /\ y # x

NameTakenBack(x, z, r) ==
    /\ Exists(z, r)
    /\ roles' = [roles EXCEPT ![z][r] = NoName] /\ UNCHANGED <<obsolete, unamerole>>
    /\ \A y \in Xid, m \in Name :
           HoldsName(calls'[y], m) => HoldsName(calls[y], m) \/ (y = x /\ m = roles[z][r])

NamesInv == NamesHeldOnce /\ NamesKnown

LEMMA QuietKeepsNames ==
    ASSUME Typed, NamesInv, NamesQuiet PROVE NamesInv'
<1>1. \A z \in Zone, n \in Name : Taken(z, n)' <=> Taken(z, n)
    BY DEF NamesQuiet, NamesStay, Taken
<1>2. NamesHeldOnce'
    BY <1>1 DEF NamesInv, NamesHeldOnce, NamesQuiet, NamesStay, UniqueNames, Exists
<1>3. NamesKnown'
    BY <1>1 DEF NamesInv, NamesKnown, NamesQuiet, NamesRegistered
<1>. QED BY <1>2, <1>3 DEF NamesInv

LEMMA ReservedKeepsNames ==
    ASSUME Typed, NamesInv, NEW x \in Xid, NEW n \in Name, NameReserved(x, n) PROVE NamesInv'
<1>1. \A z \in Zone, m \in Name : Taken(z, m)' <=> Taken(z, m)
    BY DEF NameReserved, NamesStay, Taken
<1>2. \A z \in Zone : ~Taken(z, n)
    BY DEF NamesInv, NamesKnown, NamesRegistered, NameReserved
<1>3. \A y \in Xid : ~HoldsName(calls[y], n)
    BY DEF NamesInv, NamesKnown, NameReserved
<1>4. NamesHeldOnce'
  <2>1. \A m \in Name : \A y, w \in Xid :
            HoldsName(calls'[y], m) /\ HoldsName(calls'[w], m) => y = w
    BY <1>3 DEF NamesInv, NamesHeldOnce, NameReserved
  <2>2. \A m \in Name, y \in Xid, z \in Zone : HoldsName(calls'[y], m) => ~Taken(z, m)'
    BY <1>1, <1>2 DEF NamesInv, NamesHeldOnce, NameReserved
  <2>. QED BY <2>1, <2>2 DEF NamesInv, NamesHeldOnce, NameReserved, NamesStay, UniqueNames, Exists
<1>5. NamesKnown'
    BY <1>1 DEF NamesInv, NamesKnown, NameReserved, NamesRegistered
<1>. QED BY <1>4, <1>5 DEF NamesInv

LEMMA FreedKeepsNames ==
    ASSUME Typed, NamesInv, NEW x \in Xid, NEW n \in Name \cup {NoName}, NameFreed(x, n) PROVE NamesInv'
<1>1. \A z \in Zone, m \in Name : Taken(z, m)' <=> Taken(z, m)
    BY DEF NameFreed, NamesStay, Taken
<1>2. NamesHeldOnce'
    BY <1>1 DEF NamesInv, NamesHeldOnce, NameFreed, NamesStay, UniqueNames, Exists
<1>3. \A m \in Name, y \in Xid : HoldsName(calls'[y], m) => m # n
    BY DistinctValues DEF NamesInv, NamesHeldOnce, NameFreed
<1>4. \A m \in Name, z \in Zone : Taken(z, m) => m # n
    BY DistinctValues DEF NamesInv, NamesHeldOnce, NameFreed
<1>5. NamesKnown'
    BY <1>1, <1>3, <1>4 DEF NamesInv, NamesKnown, NameFreed, NamesRegistered
<1>. QED BY <1>2, <1>5 DEF NamesInv

LEMMA GivenKeepsNames ==
    ASSUME Typed, Typed', NamesInv, NEW x \in Xid, NEW n \in Name, NEW z \in Zone, NEW r \in Role,
           NameGiven(x, n, z, r)
    PROVE  NamesInv'
<1>. DEFINE old == roles[z][r]
<1>1. roles \in [Zone -> [Role -> Name \cup {NoName}]] /\ obsolete \in [Zone -> SUBSET Name]
      /\ obsolete' \in [Zone -> SUBSET Name]
    BY DEF Typed, TypeOK
<1>2. \A z1 \in Zone, r1 \in Role :
          roles'[z1][r1] = IF z1 = z /\ r1 = r THEN n ELSE roles[z1][r1]
    BY <1>1 DEF NameGiven
<1>3. \A z1 \in Zone : ~Taken(z1, n)
    BY DEF NamesInv, NamesHeldOnce, NameGiven
<1>4. \A z1 \in Zone, m \in Name : Taken(z1, m)' => m = n \/ Taken(z1, m) \/ Taken(z, m)
    BY <1>2 DEF Taken, NameGiven
<1>5. \A m \in Name, y \in Xid : HoldsName(calls'[y], m) => m # n
    BY DEF NamesInv, NamesHeldOnce, NameGiven
<1>6. NamesHeldOnce'
  <2>1. \A m \in Name, y \in Xid, z1 \in Zone : HoldsName(calls'[y], m) => ~Taken(z1, m)'
    BY <1>4, <1>5 DEF NamesInv, NamesHeldOnce, NameGiven
  <2>2. UniqueNames'
    BY <1>1, <1>2, <1>3, DistinctValues DEF NamesInv, NamesHeldOnce, UniqueNames, Exists, Taken
  <2>3. ASSUME NEW z1 \in Zone, NEW z2 \in Zone, NEW r1 \in Role, roles'[z1][r1] \in obsolete'[z2]
        PROVE  FALSE
    <3>. DEFINE m == roles'[z1][r1]
    <3>1. m \in Name
        BY <2>3, <1>1
    <3>2. m \in obsolete[z2] \/ m = old
        BY <2>3, <3>1 DEF NameGiven
    <3>3. CASE z1 = z /\ r1 = r
        BY <3>1, <3>2, <3>3, <1>2, <1>3 DEF Taken
    <3>4. CASE ~(z1 = z /\ r1 = r)
      <4>1. m = roles[z1][r1]
        BY <3>4, <1>2
      <4>. QED BY <4>1, <3>1, <3>2, <3>4, DistinctValues DEF NamesInv, NamesHeldOnce, UniqueNames, Exists
    <3>. QED BY <3>3, <3>4
  <2>. QED BY <2>1, <2>2, <2>3 DEF NamesInv, NamesHeldOnce, NameGiven
<1>7. NamesKnown'
    BY <1>4 DEF NamesInv, NamesKnown, NameGiven, NamesRegistered
<1>. QED BY <1>6, <1>7 DEF NamesInv

LEMMA TakenBackKeepsNames ==
    ASSUME Typed, NamesInv, NEW x \in Xid, NEW z \in Zone, NEW r \in Role, NameTakenBack(x, z, r)
    PROVE  NamesInv'
<1>1. roles \in [Zone -> [Role -> Name \cup {NoName}]] /\ obsolete \in [Zone -> SUBSET Name]
    BY DEF Typed, TypeOK
<1>2. \A z1 \in Zone, r1 \in Role :
          roles'[z1][r1] = IF z1 = z /\ r1 = r THEN NoName ELSE roles[z1][r1]
    BY <1>1 DEF NameTakenBack
<1>3. PICK n \in Name : n = roles[z][r] /\ Taken(z, n)
    BY <1>1 DEF NameTakenBack, Exists, Taken
<1>4. \A z1 \in Zone, m \in Name : Taken(z1, m)' => Taken(z1, m)
    BY <1>2, DistinctValues DEF Taken, NameTakenBack
<1>5. \A z1 \in Zone : ~Taken(z1, n)'
    BY <1>1, <1>2, <1>3, DistinctValues
       DEF Taken, NameTakenBack, NamesInv, NamesHeldOnce, UniqueNames, Exists
<1>6. \A y \in Xid : ~HoldsName(calls[y], n)
    BY <1>3 DEF NamesInv, NamesHeldOnce
<1>7. NamesHeldOnce'
  <2>1. \A m \in Name : \A y, w \in Xid :
            HoldsName(calls'[y], m) /\ HoldsName(calls'[w], m) => y = w
    BY <1>3, <1>6 DEF NamesInv, NamesHeldOnce, NameTakenBack
  <2>2. \A m \in Name, y \in Xid, z1 \in Zone : HoldsName(calls'[y], m) => ~Taken(z1, m)'
    BY <1>3, <1>4, <1>5 DEF NamesInv, NamesHeldOnce, NameTakenBack
  <2>3. UniqueNames'
    BY <1>2 DEF NamesInv, NamesHeldOnce, UniqueNames, Exists
  <2>4. \A z1, z2 \in Zone, r1 \in Role : roles'[z1][r1] \notin obsolete'[z2]
    BY <1>1, <1>2, DistinctValues DEF NamesInv, NamesHeldOnce, NameTakenBack
  <2>. QED BY <2>1, <2>2, <2>3, <2>4 DEF NamesHeldOnce
<1>8. NamesKnown'
    BY <1>3, <1>4 DEF NamesInv, NamesKnown, NameTakenBack, NamesRegistered
<1>. QED BY <1>7, <1>8 DEF NamesInv

-----------------------------------------------------------------------------
(***************************************************************************)
(* The kinds of step, for role ids.                                        *)
(***************************************************************************)
Known(r) == r[2] \in uidrole[r[1]]

IdsStay == \A z \in Zone, r \in Role : Exists(z, r)' => Exists(z, r)

IdsQuiet ==
    /\ IdsStay
    /\ \A r \in Role : Known(r) => Known(r)'
    /\ \A y \in Xid, r \in Role : HoldsId(calls'[y], r) => HoldsId(calls[y], r)

IdReserved(x, r) ==
    /\ IdsStay
    /\ ~Known(r) /\ \A q \in Role : q = r \/ Known(q) => Known(q)'
    /\ \A y \in Xid, q \in Role :
           HoldsId(calls'[y], q) => HoldsId(calls[y], q) \/ (y = x /\ q = r)

IdFreed(x, r) ==
    /\ IdsStay
    /\ HoldsId(calls[x], r)
    /\ \A q \in Role : q # r /\ Known(q) => Known(q)'
    /\ \A y \in Xid, q \in Role : HoldsId(calls'[y], q) => HoldsId(calls[y], q) /\ y # x

IdGiven(x, z, r) ==
    /\ HoldsId(calls[x], r)
    /\ \A z1 \in Zone, q \in Role : Exists(z1, q)' => Exists(z1, q) \/ (z1 = z /\ q = r)
    /\ \A q \in Role : Known(q) => Known(q)'
    /\ \A y \in Xid, q \in Role : HoldsId(calls'[y], q) => HoldsId(calls[y], q) /\ y # x

IdTakenBack(x, z, r) ==
    /\ Exists(z, r)
    /\ \A z1 \in Zone, q \in Role : Exists(z1, q)' => Exists(z1, q) /\ ~(z1 = z /\ q = r)
    /\ \A q \in Role : Known(q) => Known(q)'
    /\ \A y \in Xid, q \in Role :
           HoldsId(calls'[y], q) => HoldsId(calls[y], q) \/ (y = x /\ q = r)

IdsInv == IdsHeldOnce /\ IdsKnown

LEMMA IdStepsKeepIds ==
    ASSUME IdsInv, NEW x \in Xid, NEW z \in Zone, NEW r \in Role,
           IdsQuiet \/ IdReserved(x, r) \/ IdFreed(x, r) \/ IdGiven(x, z, r) \/ IdTakenBack(x, z, r)
    PROVE  IdsInv'
<1>. USE DEF IdsInv, IdsHeldOnce, IdsKnown, UniqueRoleids
<1>1. CASE IdsQuiet
    BY <1>1 DEF IdsQuiet, IdsStay, Known
<1>2. CASE IdReserved(x, r)
    BY <1>2 DEF IdReserved, IdsStay, Known
<1>3. CASE IdFreed(x, r)
    BY <1>3 DEF IdFreed, IdsStay, Known
<1>4. CASE IdGiven(x, z, r)
    BY <1>4 DEF IdGiven, Known
<1>5. CASE IdTakenBack(x, z, r)
    BY <1>5 DEF IdTakenBack, Known
<1>. QED BY <1>1, <1>2, <1>3, <1>4, <1>5

-----------------------------------------------------------------------------
(***************************************************************************)
(* What requests and answers hold.                                         *)
(***************************************************************************)
LEMMA RequestHolds ==
    ASSUME NEW k \in Kind, NEW z, NEW r, NEW n, NEW f
    PROVE  /\ \A m : HoldsName(Request(k, z, r, n, f), m) =>
                  /\ m = n
                  /\ k \in {"DBCreateRole", "DBPlayerRename", "PostCreateFailed", "PostRenameFailed",
                            "PostDeleteRole"}
           /\ \A q : HoldsId(Request(k, z, r, n, f), q) =>
                  q = r /\ k \in {"DBCreateRole", "PostCreateFailed", "PostDeleteRole"}
    BY DEF Request, OneWay, HoldsName, HoldsId, Holds, Kind

\* A request that is refused holds no more than it held.
LEMMA RefusedHolds ==
    ASSUME NEW c, c # NoCall, Formed(c), c.phase # "answered"
    PROVE  /\ \A n : HoldsName(Refused(c), n) => HoldsName(c, n)
           /\ \A r : HoldsId(Refused(c), r) => HoldsId(c, r)
<1>1. CASE c.phase = "orphan"
    BY <1>1 DEF Refused, Accepted, HoldsName, HoldsId
<1>2. CASE c.phase # "orphan"
  <2>. DEFINE d == [c EXCEPT !.phase = "answered", !.ok = FALSE, !.role = c.role, !.found = NoName]
  <2>1. d.kind = c.kind /\ d.name = c.name /\ d.phase = "answered" /\ ~d.ok /\ d.role = c.role
    BY DEF Formed, Call
  <2>2. Refused(c) = d
    BY <1>2 DEF Refused, Accepted
  <2>. HIDE DEF d
  <2>. QED BY <2>1, <2>2 DEF HoldsName, HoldsId, Holds
<1>. QED BY <1>1, <1>2

LEMMA AcceptedHolds ==
    ASSUME NEW c, Formed(c), NEW r, NEW f
    PROVE  /\ \A m : HoldsName(Accepted(c, r, f), m) =>
                  \/ c.kind \in {"PreCreateRole", "PrePlayerRename"} /\ m = c.name
                  \/ c.kind = "DBDeleteRole" /\ m = f
           /\ \A q : HoldsId(Accepted(c, r, f), q) =>
                  c.kind \in {"PreCreateRole", "DBDeleteRole"} /\ q = r
<1>1. CASE c.phase = "orphan"
    BY <1>1 DEF Refused, Accepted, HoldsName, HoldsId
<1>2. CASE c.phase # "orphan"
  <2>. DEFINE d == [c EXCEPT !.phase = "answered", !.ok = TRUE, !.role = r, !.found = f]
  <2>1. /\ d.kind = c.kind /\ d.name = c.name /\ d.phase = "answered"
        /\ d.ok /\ d.role = r /\ d.found = f
    BY DEF Formed, Call
  <2>2. Accepted(c, r, f) = d
    BY <1>2 DEF Refused, Accepted
  <2>. HIDE DEF d
  <2>. QED BY <2>1, <2>2 DEF HoldsName, HoldsId, Holds
<1>. QED BY <1>1, <1>2

LEMMA AnswerIs ==
    ASSUME Typed, NEW x \in Xid
    PROVE  /\ Refuse(x) => /\ calls' = [calls EXCEPT ![x] = Refused(calls[x])]
                           /\ UNCHANGED <<asked, faults>>
           /\ \A r, f : Answer(x, TRUE, r, f) =>
                  /\ calls' = [calls EXCEPT ![x] = Accepted(calls[x], r, f)]
                  /\ UNCHANGED <<asked, faults>>
    BY DEF Refuse, Answer, Refused, Accepted, Typed, TypeOK

LEMMA OneCall ==
    ASSUME Typed, NEW x \in Xid, NEW c, calls' = [calls EXCEPT ![x] = c]
    PROVE  \A y \in Xid : calls'[y] = IF y = x THEN c ELSE calls[y]
    BY DEF Typed, TypeOK

\* Most steps only replace a request by one that holds no more.
LEMMA QuietCall ==
    ASSUME Typed, NEW x \in Xid, NEW c, c # NoCall => Formed(c) /\ c.kind # "RollBack",
           calls' = [calls EXCEPT ![x] = c],
           UNCHANGED <<register, database>>, asked' \in 0 .. MaxAsked, faults' \in 0 .. MaxFaults,
           \A n \in Name : HoldsName(c, n) => HoldsName(calls[x], n),
           \A r \in Role : HoldsId(c, r) => HoldsId(calls[x], r)
    PROVE  Typed' /\ NamesQuiet /\ IdsQuiet
<1>1. Typed'
    BY OneCallTyped DEF register, database, Typed, TypeOK
<1>2. \A y \in Xid : calls'[y] = IF y = x THEN c ELSE calls[y]
    BY OneCall
<1>3. NamesQuiet
    BY <1>2 DEF NamesQuiet, NamesStay, register, database
<1>4. IdsQuiet
    BY <1>2 DEF IdsQuiet, IdsStay, Known, Exists, register, database
<1>. QED BY <1>1, <1>3, <1>4

\* A request that is refused holds what it held, or, when it was the reservation
\* that was refused, nothing.
LEMMA RefuseIsQuiet ==
    ASSUME Typed, NEW x \in Xid, calls[x] # NoCall, calls[x].phase # "answered", Refuse(x)
    PROVE  Typed' /\ NamesQuiet /\ IdsQuiet
<1>. DEFINE c == calls[x]
            d == Refused(c)
<1>1. Formed(c) /\ c.kind # "RollBack" /\ c.role \in User \X (0 .. RoleCount)
    BY DEF Typed, Formed, Call
<1>2. calls' = [calls EXCEPT ![x] = d] /\ UNCHANGED <<register, database>> /\ UNCHANGED <<asked, faults>>
    BY AnswerIs DEF Refuse
<1>3. d # NoCall => Formed(d) /\ d.kind # "RollBack"
    BY <1>1, RefusedFormed
<1>4. /\ \A n \in Name : HoldsName(d, n) => HoldsName(c, n)
      /\ \A r \in Role : HoldsId(d, r) => HoldsId(c, r)
    BY <1>1, RefusedHolds
<1>5. asked' \in 0 .. MaxAsked /\ faults' \in 0 .. MaxFaults
    BY <1>2 DEF Typed, TypeOK
<1>. HIDE DEF c, d
<1>. QED BY <1>2, <1>3, <1>4, <1>5, QuietCall DEF c

-----------------------------------------------------------------------------
(***************************************************************************)
(* The steps of players and of gdeliveryd.                                 *)
(***************************************************************************)
LEMMA AskIsQuiet ==
    ASSUME Typed, Ask
    PROVE  Typed' /\ NamesQuiet /\ IdsQuiet
<1>1. ASSUME NEW x \in Xid, NEW k \in {"PreCreateRole", "DBDeleteRole", "PrePlayerRename"},
             NEW z \in Zone, NEW r \in User \X (0 .. RoleCount), NEW n \in Name \cup {NoName},
             k = "PreCreateRole" \/ r \in Role, k = "DBDeleteRole" \/ n \in Name,
             Asks(x, Request(k, z, r, n, NoName)), faults' \in 0 .. MaxFaults
      PROVE  Typed' /\ NamesQuiet /\ IdsQuiet
  <2>. DEFINE c == Request(k, z, r, n, NoName)
  <2>1. Formed(c) /\ c.kind # "RollBack"
      BY <1>1, RequestFormed DEF Kind
  <2>2. /\ \A m \in Name : HoldsName(c, m) => HoldsName(calls[x], m)
        /\ \A q \in Role : HoldsId(c, q) => HoldsId(calls[x], q)
      BY RequestHolds DEF Kind
  <2>3. calls' = [calls EXCEPT ![x] = c] /\ UNCHANGED <<register, database>>
      BY <1>1 DEF Asks
  <2>4. asked' \in 0 .. MaxAsked
      BY <1>1, CountAssumption DEF Asks, Typed, TypeOK
  <2>. HIDE DEF c
  <2>. QED BY <1>1, <2>1, <2>2, <2>3, <2>4, QuietCall
<1>2. PICK z \in Zone, n \in Name, x \in Xid :
          \/ \E u \in User : CreateRole(z, u, n, x)
          \/ \E r \in Role : DeleteRole(z, r, x) \/ Rename(z, r, n, x)
    BY DEF Ask
<1>3. CASE \E u \in User : CreateRole(z, u, n, x)
  <2>1. PICK u \in User : CreateRole(z, u, n, x)
      BY <1>3
  <2>2. <<u, RoleCount>> \in User \X (0 .. RoleCount) /\ faults' \in 0 .. MaxFaults
      BY <2>1, CountAssumption DEF CreateRole, Typed, TypeOK
  <2>. QED BY <1>1, <2>1, <2>2 DEF CreateRole
<1>4. CASE \E r \in Role : DeleteRole(z, r, x)
  <2>1. PICK r \in Role : DeleteRole(z, r, x)
      BY <1>4
  <2>2. r \in User \X (0 .. RoleCount) /\ faults' \in 0 .. MaxFaults
      BY <2>1, RolesHaveIds, CountAssumption DEF DeleteRole, Typed, TypeOK
  <2>. QED BY <1>1, <2>1, <2>2 DEF DeleteRole
<1>5. CASE \E r \in Role : Rename(z, r, n, x)
  <2>1. PICK r \in Role : Rename(z, r, n, x)
      BY <1>5
  <2>2. r \in User \X (0 .. RoleCount) /\ faults' \in 0 .. MaxFaults
      BY <2>1, RolesHaveIds DEF Rename, Typed, TypeOK
  <2>. QED BY <1>1, <2>1, <2>2 DEF Rename
<1>. QED BY <1>2, <1>3, <1>4, <1>5

\* An answer that gdeliveryd has seen is forgotten, or becomes the next request, which
\* holds no more than the answer did.
LEMMA ReceiveIsQuiet ==
    ASSUME Typed, NEW x \in Xid,
           \/ OnPreCreate(x) \/ OnDBCreate(x) \/ OnPostCreate(x) \/ OnDBDelete(x)
           \/ OnPreRename(x) \/ OnDBRename(x)
    PROVE  Typed' /\ NamesQuiet /\ IdsQuiet
<1>. DEFINE c == calls[x]
<1>1. c # NoCall /\ c.phase = "answered" /\ Formed(c) /\ c.kind # "RollBack"
    BY DEF Typed, OnPreCreate, OnDBCreate, OnPostCreate, OnDBDelete, OnPreRename, OnDBRename, Returns
<1>2. /\ c.zone \in Zone /\ c.role \in User \X (0 .. RoleCount) /\ c.ok \in BOOLEAN
      /\ c.name \in Name \cup {NoName} /\ c.found \in Name \cup {NoName}
    BY <1>1 DEF Formed, Call
<1>3. ASSUME Sends(x, NoCall) PROVE Typed' /\ NamesQuiet /\ IdsQuiet
  <2>1. asked' \in 0 .. MaxAsked /\ faults' \in 0 .. MaxFaults
      BY <1>3 DEF Sends, Typed, TypeOK
  <2>. QED BY <1>3, <2>1, QuietCall DEF Sends, HoldsName, HoldsId
<1>4. ASSUME NEW k \in Kind \ {"RollBack"}, NEW n \in Name \cup {NoName},
             NEW f \in Name \cup {NoName}, c.role \in Role,
             k = "PostDeleteRole" \/ n \in Name,
             Sends(x, Request(k, c.zone, c.role, n, f)),
             k \in {"DBCreateRole", "DBPlayerRename", "PostCreateFailed", "PostRenameFailed",
                    "PostDeleteRole"} => HoldsName(c, n),
             k \in {"DBCreateRole", "PostCreateFailed", "PostDeleteRole"} => HoldsId(c, c.role)
      PROVE  Typed' /\ NamesQuiet /\ IdsQuiet
  <2>. DEFINE d == Request(k, c.zone, c.role, n, f)
  <2>1. Formed(d) /\ d.kind # "RollBack"
      BY <1>2, <1>4, RequestFormed
  <2>2. /\ \A m \in Name : HoldsName(d, m) => HoldsName(c, m)
        /\ \A q \in Role : HoldsId(d, q) => HoldsId(c, q)
      BY <1>4, RequestHolds
  <2>3. /\ calls' = [calls EXCEPT ![x] = d] /\ UNCHANGED <<register, database>>
        /\ asked' \in 0 .. MaxAsked /\ faults' \in 0 .. MaxFaults
      BY <1>4 DEF Sends, Typed, TypeOK
  <2>. HIDE DEF d
  <2>. QED BY <2>1, <2>2, <2>3, QuietCall
<1>5. CASE OnPreCreate(x)
    BY <1>1, <1>2, <1>3, <1>4, <1>5
       DEF OnPreCreate, Returns, Formed, HoldsName, HoldsId, Holds, Kind
<1>6. CASE OnDBCreate(x)
  <2>1. CASE c.ok /\ c.found # NoName
      BY <1>1, <1>2, <1>4, <1>6, <2>1 DEF OnDBCreate, Returns, Formed, Kind
  <2>2. CASE c.ok /\ c.found = NoName
      BY <1>1, <1>2, <1>4, <1>6, <2>2 DEF OnDBCreate, Returns, Formed, Kind
  <2>3. CASE ~c.ok
      BY <1>1, <1>2, <1>4, <1>6, <2>3
         DEF OnDBCreate, Returns, Formed, HoldsName, HoldsId, Holds, Kind
  <2>. QED BY <1>2, <2>1, <2>2, <2>3
<1>7. CASE OnPostCreate(x)
    BY <1>3, <1>7 DEF OnPostCreate
<1>8. CASE OnDBDelete(x)
    BY <1>1, <1>2, <1>3, <1>4, <1>8
       DEF OnDBDelete, Returns, Formed, HoldsName, HoldsId, Holds, Kind
<1>9. CASE OnPreRename(x)
    BY <1>1, <1>2, <1>3, <1>4, <1>9
       DEF OnPreRename, Returns, Formed, HoldsName, HoldsId, Holds, Kind
<1>10. CASE OnDBRename(x)
  <2>1. CASE c.ok
      BY <1>1, <1>2, <1>4, <1>10, <2>1 DEF OnDBRename, Returns, Formed, Kind
  <2>2. CASE ~c.ok
      BY <1>1, <1>2, <1>4, <1>10, <2>2
         DEF OnDBRename, Returns, Formed, HoldsName, HoldsId, Holds, Kind
  <2>. QED BY <1>2, <2>1, <2>2
<1>. QED BY <1>5, <1>6, <1>7, <1>8, <1>9, <1>10

-----------------------------------------------------------------------------
(***************************************************************************)
(* The steps of uniquenamed.                                               *)
(***************************************************************************)
\* What an accepted request leaves behind.
LEMMA AcceptTyped ==
    ASSUME Typed, NEW x \in Xid, calls[x] # NoCall, NEW r \in Role, NEW f \in Name \cup {NoName},
           Answer(x, TRUE, r, f),
           unamerole' \in [Name -> Entry \cup {Free}], uidrole' \in [User -> SUBSET Slot],
           roles' \in [Zone -> [Role -> Name \cup {NoName}]], obsolete' \in [Zone -> SUBSET Name]
    PROVE  /\ Typed'
           /\ \A y \in Xid : calls'[y] = IF y = x THEN Accepted(calls[x], r, f) ELSE calls[y]
<1>1. /\ calls' = [calls EXCEPT ![x] = Accepted(calls[x], r, f)]
      /\ asked' \in 0 .. MaxAsked /\ faults' \in 0 .. MaxFaults
    BY AnswerIs DEF Typed, TypeOK
<1>2. Accepted(calls[x], r, f) # NoCall =>
          /\ Formed(Accepted(calls[x], r, f))
          /\ Accepted(calls[x], r, f).kind # "RollBack"
    BY AcceptedFormed DEF Typed
<1>3. Typed'
    BY <1>1, <1>2, OneCallTyped
<1>. QED BY <1>1, <1>3, OneCall

LEMMA Served ==
    ASSUME Typed, NEW x \in Xid, NEW k \in Kind \ {"PreCreateRole", "RollBack"}, Reaches(x, k)
    PROVE  /\ calls[x] # NoCall /\ Formed(calls[x]) /\ calls[x].kind = k
           /\ calls[x].phase # "answered" /\ calls[x].role \in Role /\ calls[x].zone \in Zone
           /\ calls[x].name \in Name \cup {NoName}
           /\ k \notin {"DBDeleteRole", "PostDeleteRole"} => calls[x].name \in Name
    BY DEF Reaches, Typed, Formed, Call

LEMMA ServePreCreateStep ==
    ASSUME Typed, NEW x \in Xid, ServePreCreate(x)
    PROVE  /\ Typed'
           /\ NamesQuiet \/ \E n \in Name : NameReserved(x, n)
           /\ IdsQuiet \/ \E r \in Role : IdReserved(x, r)
<1>1. /\ calls[x] # NoCall /\ Formed(calls[x]) /\ calls[x].kind = "PreCreateRole"
      /\ calls[x].phase # "answered" /\ calls[x].role[1] \in User /\ calls[x].name \in Name
    BY DEF ServePreCreate, Reaches, Typed, Formed, Call
<1>2. PICK u \in User, n \in Name : u = calls[x].role[1] /\ n = calls[x].name
    BY <1>1
<1>3. CASE Refuse(x)
    BY <1>1, <1>3, RefuseIsQuiet
<1>4. CASE ~Refuse(x)
  <2>1. PICK s \in Slot \ uidrole[u] :
            /\ unamerole' = [unamerole EXCEPT ![n] = [role |-> <<u, s>>, status |-> "engaged"]]
            /\ uidrole' = [uidrole EXCEPT ![u] = @ \cup {s}]
            /\ Answer(x, TRUE, <<u, s>>, NoName)
      BY <1>2, <1>4 DEF ServePreCreate
  <2>2. unamerole[n] = Free /\ UNCHANGED database
      BY <1>2, <1>4 DEF ServePreCreate
  <2>3. PICK r \in Role : r = <<u, s>>
      BY <1>2, <2>1 DEF Role
  <2>4. [role |-> <<u, s>>, status |-> "engaged"] \in Entry
      BY <2>3 DEF Entry
  <2>5. /\ unamerole' \in [Name -> Entry \cup {Free}] /\ unamerole'[n] # Free
        /\ \A m \in Name : m # n => unamerole'[m] = unamerole[m]
      BY <1>2, <2>1, <2>4, DistinctValues DEF Typed, TypeOK
  <2>6. /\ uidrole' \in [User -> SUBSET Slot] /\ uidrole'[u] = uidrole[u] \cup {s}
        /\ \A v \in User : v # u => uidrole'[v] = uidrole[v]
      BY <1>2, <2>1 DEF Typed, TypeOK
  <2>7. roles' \in [Zone -> [Role -> Name \cup {NoName}]] /\ obsolete' \in [Zone -> SUBSET Name]
      BY <2>2 DEF database, Typed, TypeOK
  <2>8. Answer(x, TRUE, r, NoName)
      BY <2>1, <2>3
  <2>9. /\ Typed'
        /\ \A y \in Xid : calls'[y] = IF y = x THEN Accepted(calls[x], r, NoName) ELSE calls[y]
      BY <1>1, <2>5, <2>6, <2>7, <2>8, AcceptTyped
  <2>10. NameReserved(x, n)
    <3>1. \A m : HoldsName(Accepted(calls[x], r, NoName), m) => m = n
        BY <1>1, <1>2, AcceptedHolds
    <3>. QED BY <1>2, <2>2, <2>5, <2>9, <3>1 DEF NameReserved, NamesStay, database
  <2>11. IdReserved(x, r)
    <3>1. IdsStay
        BY <2>2 DEF IdsStay, Exists, database
    <3>2. ~Known(r) /\ Known(r)'
        BY <2>3, <2>1, <2>6 DEF Known
    <3>3. \A q \in Role : Known(q) => Known(q)'
        BY <2>6 DEF Known, Role
    <3>4. \A q : HoldsId(Accepted(calls[x], r, NoName), q) => q = r
        BY <1>1, <1>2, AcceptedHolds
    <3>5. \A y \in Xid, q \in Role :
              HoldsId(calls'[y], q) => HoldsId(calls[y], q) \/ (y = x /\ q = r)
        BY <1>2, <2>9, <3>4
    <3>. QED BY <3>1, <3>2, <3>3, <3>5 DEF IdReserved
  <2>. QED BY <1>2, <2>3, <2>9, <2>10, <2>11
<1>. QED BY <1>3, <1>4

LEMMA ServePreRenameStep ==
    ASSUME Typed, NEW x \in Xid, ServePreRename(x)
    PROVE  /\ Typed'
           /\ NamesQuiet \/ \E n \in Name : NameReserved(x, n)
           /\ IdsQuiet
<1>1. /\ calls[x] # NoCall /\ Formed(calls[x]) /\ calls[x].kind = "PrePlayerRename"
      /\ calls[x].phase # "answered" /\ calls[x].role \in Role /\ calls[x].name \in Name
    BY Served DEF ServePreRename, Kind
<1>2. PICK r \in Role, n \in Name : r = calls[x].role /\ n = calls[x].name
    BY <1>1
<1>3. CASE Refuse(x)
    BY <1>1, <1>3, RefuseIsQuiet
<1>4. CASE ~Refuse(x)
  <2>1. /\ unamerole[n] = Free
        /\ unamerole' = [unamerole EXCEPT ![n] = [role |-> r, status |-> "engaged"]]
        /\ Answer(x, TRUE, r, NoName) /\ UNCHANGED <<uidrole, database>>
      BY <1>2, <1>4 DEF ServePreRename, Accept
  <2>2. [role |-> r, status |-> "engaged"] \in Entry
      BY <1>2 DEF Entry
  <2>3. /\ unamerole' \in [Name -> Entry \cup {Free}] /\ unamerole'[n] # Free
        /\ \A m \in Name : m # n => unamerole'[m] = unamerole[m]
      BY <1>2, <2>1, <2>2, DistinctValues DEF Typed, TypeOK
  <2>4. /\ roles' \in [Zone -> [Role -> Name \cup {NoName}]] /\ obsolete' \in [Zone -> SUBSET Name]
        /\ uidrole' \in [User -> SUBSET Slot]
      BY <2>1 DEF database, Typed, TypeOK
  <2>5. /\ Typed'
        /\ \A y \in Xid : calls'[y] = IF y = x THEN Accepted(calls[x], r, NoName) ELSE calls[y]
      BY <1>1, <2>1, <2>3, <2>4, AcceptTyped
  <2>6. NameReserved(x, n)
    <3>1. \A m : HoldsName(Accepted(calls[x], r, NoName), m) => m = n
        BY <1>1, <1>2, AcceptedHolds
    <3>. QED BY <1>2, <2>1, <2>3, <2>5, <3>1 DEF NameReserved, NamesStay, database
  <2>7. \A q : ~HoldsId(Accepted(calls[x], r, NoName), q)
      BY <1>1, <1>2, AcceptedHolds
  <2>8. IdsQuiet
      BY <1>2, <2>1, <2>5, <2>7 DEF IdsQuiet, IdsStay, Exists, Known, database
  <2>. QED BY <1>2, <2>5, <2>6, <2>8
<1>. QED BY <1>3, <1>4

\* Confirming a name never frees one.
LEMMA ServeUsedStep ==
    ASSUME Typed, NEW x \in Xid, ServePostCreate(x) \/ ServePostRename(x)
    PROVE  Typed' /\ NamesQuiet /\ IdsQuiet
<1>1. /\ calls[x] # NoCall /\ Formed(calls[x]) /\ calls[x].role \in Role
      /\ calls[x].kind \in {"PostCreateRole", "PostPlayerRename"}
    BY Served DEF ServePostCreate, ServePostRename, Kind
<1>2. PICK r \in Role : r = calls[x].role
    BY <1>1
<1>3. Answer(x, TRUE, r, NoName) /\ UNCHANGED <<uidrole, database>>
    BY <1>2 DEF ServePostCreate, ServePostRename, Accept
<1>4. \A st \in {"used", "obsolete"} : [role |-> r, status |-> st] \in Entry
    BY <1>2 DEF Entry
<1>5. /\ unamerole' \in [Name -> Entry \cup {Free}]
      /\ \A n \in Name : unamerole[n] # Free => unamerole'[n] # Free
  <2>1. CASE ServePostCreate(x)
      BY <1>2, <1>4, <2>1, DistinctValues DEF ServePostCreate, Uses, Typed, TypeOK
  <2>2. CASE ServePostRename(x)
      BY <1>2, <1>4, <2>2, DistinctValues DEF ServePostRename, Typed, TypeOK
  <2>. QED BY <2>1, <2>2
<1>6. /\ roles' \in [Zone -> [Role -> Name \cup {NoName}]] /\ obsolete' \in [Zone -> SUBSET Name]
      /\ uidrole' \in [User -> SUBSET Slot]
    BY <1>3 DEF database, Typed, TypeOK
<1>7. /\ Typed'
      /\ \A y \in Xid : calls'[y] = IF y = x THEN Accepted(calls[x], r, NoName) ELSE calls[y]
    BY <1>1, <1>3, <1>5, <1>6, AcceptTyped
<1>8. \A q : ~HoldsId(Accepted(calls[x], r, NoName), q) /\ ~HoldsName(Accepted(calls[x], r, NoName), q)
    BY <1>1, AcceptedHolds
<1>9. NamesQuiet
    BY <1>3, <1>5, <1>7, <1>8 DEF NamesQuiet, NamesStay, database
<1>10. IdsQuiet
    BY <1>3, <1>7, <1>8 DEF IdsQuiet, IdsStay, Exists, Known, database
<1>. QED BY <1>7, <1>9, <1>10

\* What is freed is what the request holds.
LEMMA ServeFreedStep ==
    ASSUME Typed, NEW x \in Xid,
           ServePostCreateFailed(x) \/ ServePostDelete(x) \/ ServePostRenameFailed(x)
    PROVE  /\ Typed'
           /\ \E n \in Name \cup {NoName} : NameFreed(x, n)
           /\ IdsQuiet \/ \E r \in Role : IdFreed(x, r)
<1>1. /\ calls[x] # NoCall /\ Formed(calls[x]) /\ calls[x].phase # "answered"
      /\ calls[x].role \in Role /\ calls[x].name \in Name \cup {NoName}
      /\ calls[x].kind \in {"PostCreateFailed", "PostDeleteRole", "PostRenameFailed"}
    BY Served DEF ServePostCreateFailed, ServePostDelete, ServePostRenameFailed, Kind
<1>2. PICK r \in Role, n \in Name \cup {NoName} : r = calls[x].role /\ n = calls[x].name
    BY <1>1
<1>3. Answer(x, TRUE, r, NoName) /\ UNCHANGED database
    BY <1>2 DEF ServePostCreateFailed, ServePostDelete, ServePostRenameFailed, Accept
<1>4. /\ unamerole' \in [Name -> Entry \cup {Free}]
      /\ \A m \in Name : m # n => unamerole'[m] = unamerole[m]
    BY <1>2 DEF ServePostCreateFailed, ServePostDelete, ServePostRenameFailed, Frees, Typed, TypeOK
<1>5. r[1] \in User
    BY DEF Role
<1>6. uidrole' \in [User -> SUBSET Slot]
    BY <1>2, <1>5 DEF ServePostCreateFailed, ServePostDelete, ServePostRenameFailed, Frees, Typed, TypeOK
<1>7. roles' \in [Zone -> [Role -> Name \cup {NoName}]] /\ obsolete' \in [Zone -> SUBSET Name]
    BY <1>3 DEF database, Typed, TypeOK
<1>8. /\ Typed'
      /\ \A y \in Xid : calls'[y] = IF y = x THEN Accepted(calls[x], r, NoName) ELSE calls[y]
    BY <1>1, <1>3, <1>4, <1>6, <1>7, AcceptTyped
<1>9. \A q : ~HoldsId(Accepted(calls[x], r, NoName), q) /\ ~HoldsName(Accepted(calls[x], r, NoName), q)
    BY <1>1, AcceptedHolds
<1>10. NameFreed(x, n)
  <2>1. HoldsName(calls[x], n)
      BY <1>1, <1>2 DEF HoldsName, Holds
  <2>. QED BY <1>3, <1>4, <1>8, <1>9, <2>1 DEF NameFreed, NamesStay, database
<1>11. IdsStay
    BY <1>3 DEF IdsStay, Exists, database
<1>12. CASE ServePostRenameFailed(x)
  <2>1. IdsQuiet
      BY <1>8, <1>9, <1>11, <1>12 DEF IdsQuiet, Known, ServePostRenameFailed
  <2>. QED BY <1>8, <1>10, <2>1
<1>13. CASE ServePostCreateFailed(x) \/ ServePostDelete(x)
  <2>1. HoldsId(calls[x], r)
      BY <1>1, <1>2, <1>13 DEF HoldsId, Holds, ServePostCreateFailed, ServePostDelete, Reaches
  <2>2. uidrole' = [uidrole EXCEPT ![r[1]] = @ \ {r[2]}]
      BY <1>2, <1>13 DEF ServePostCreateFailed, ServePostDelete, Frees
  <2>3. \A q \in Role : q # r /\ Known(q) => Known(q)'
    <3>. SUFFICES ASSUME NEW q \in Role, q # r, Known(q) PROVE Known(q)'
        OBVIOUS
    <3>1. q[1] \in User /\ (q[1] # r[1] \/ q[2] # r[2])
        BY DEF Role
    <3>. QED BY <2>2, <3>1 DEF Known, Typed, TypeOK
  <2>4. IdFreed(x, r)
      BY <1>8, <1>9, <1>11, <2>1, <2>3 DEF IdFreed
  <2>. QED BY <1>8, <1>10, <2>4
<1>. QED BY <1>12, <1>13

-----------------------------------------------------------------------------
(***************************************************************************)
(* The steps of gamedbd.                                                   *)
(***************************************************************************)
LEMMA ServeDBCreateStep ==
    ASSUME Typed, NEW x \in Xid, ServeDBCreate(x)
    PROVE  /\ Typed'
           /\ \/ NamesQuiet /\ IdsQuiet
              \/ \E n \in Name, z \in Zone, r \in Role : NameGiven(x, n, z, r) /\ IdGiven(x, z, r)
<1>1. /\ calls[x] # NoCall /\ Formed(calls[x]) /\ calls[x].kind = "DBCreateRole"
      /\ calls[x].phase # "answered" /\ calls[x].role \in Role /\ calls[x].name \in Name
      /\ calls[x].zone \in Zone
    BY Served DEF ServeDBCreate, Kind
<1>2. PICK r \in Role, n \in Name, z \in Zone :
          r = calls[x].role /\ n = calls[x].name /\ z = calls[x].zone
    BY <1>1
<1>3. \A q, f : ~HoldsId(Accepted(calls[x], r, f), q) /\ ~HoldsName(Accepted(calls[x], r, f), q)
    BY <1>1, AcceptedHolds
<1>4. roles[z][r] \in Name \cup {NoName}
    BY DEF Typed, TypeOK
<1>5. CASE Refuse(x)
    BY <1>1, <1>5, RefuseIsQuiet
<1>6. CASE Answer(x, TRUE, r, roles[z][r]) /\ UNCHANGED <<register, database>>
  <2>1. /\ unamerole' \in [Name -> Entry \cup {Free}] /\ uidrole' \in [User -> SUBSET Slot]
        /\ roles' \in [Zone -> [Role -> Name \cup {NoName}]] /\ obsolete' \in [Zone -> SUBSET Name]
      BY <1>6 DEF register, database, Typed, TypeOK
  <2>2. /\ Typed'
        /\ \A y \in Xid :
               calls'[y] = IF y = x THEN Accepted(calls[x], r, roles[z][r]) ELSE calls[y]
      BY <1>1, <1>4, <1>6, <2>1, AcceptTyped
  <2>3. NamesQuiet
      BY <1>3, <1>6, <2>2 DEF NamesQuiet, NamesStay, register, database
  <2>4. IdsQuiet
      BY <1>3, <1>6, <2>2 DEF IdsQuiet, IdsStay, Exists, Known, register, database
  <2>. QED BY <2>2, <2>3, <2>4
<1>7. CASE /\ ~Taken(z, n) /\ ~Exists(z, r)
           /\ roles' = [roles EXCEPT ![z][r] = n]
           /\ Answer(x, TRUE, r, NoName) /\ UNCHANGED <<register, obsolete>>
  <2>1. /\ unamerole' \in [Name -> Entry \cup {Free}] /\ uidrole' \in [User -> SUBSET Slot]
        /\ roles' \in [Zone -> [Role -> Name \cup {NoName}]] /\ obsolete' \in [Zone -> SUBSET Name]
      BY <1>7 DEF register, Typed, TypeOK
  <2>2. /\ Typed'
        /\ \A y \in Xid : calls'[y] = IF y = x THEN Accepted(calls[x], r, NoName) ELSE calls[y]
      BY <1>1, <1>7, <2>1, AcceptTyped
  <2>3. HoldsName(calls[x], n) /\ HoldsId(calls[x], r)
      BY <1>1, <1>2 DEF HoldsName, HoldsId, Holds
  <2>4. NameGiven(x, n, z, r)
      BY <1>3, <1>7, <2>2, <2>3 DEF NameGiven, register
  <2>5. \A z1 \in Zone, q \in Role : Exists(z1, q)' => Exists(z1, q) \/ (z1 = z /\ q = r)
      BY <1>7 DEF Exists, Typed, TypeOK
  <2>6. IdGiven(x, z, r)
      BY <1>3, <1>7, <2>2, <2>3, <2>5 DEF IdGiven, Known, register
  <2>. QED BY <2>2, <2>4, <2>6
<1>. QED BY <1>2, <1>5, <1>6, <1>7 DEF ServeDBCreate, Accept

\* A role id is freed once only where the base of a deleted role is asked for.
LEMMA ServeDBDeleteStep ==
    ASSUME Typed, NEW x \in Xid, ServeDBDelete(x)
    PROVE  /\ Typed'
           /\ NamesQuiet \/ \E z \in Zone, r \in Role : NameTakenBack(x, z, r)
           /\ OldUser = {} => IdsQuiet \/ \E z \in Zone, r \in Role : IdTakenBack(x, z, r)
<1>1. /\ calls[x] # NoCall /\ Formed(calls[x]) /\ calls[x].kind = "DBDeleteRole"
      /\ calls[x].phase # "answered" /\ calls[x].role \in Role /\ calls[x].zone \in Zone
    BY Served DEF ServeDBDelete, Kind
<1>2. PICK r \in Role, z \in Zone : r = calls[x].role /\ z = calls[x].zone
    BY <1>1
<1>3. \A f : /\ \A m : HoldsName(Accepted(calls[x], r, f), m) => m = f
             /\ \A q : HoldsId(Accepted(calls[x], r, f), q) => q = r
    BY <1>1, AcceptedHolds
<1>4. roles[z][r] \in Name \cup {NoName}
    BY DEF Typed, TypeOK
<1>5. CASE Refuse(x)
    BY <1>1, <1>5, RefuseIsQuiet
<1>6. CASE OldUser # {} /\ Answer(x, TRUE, r, NoName) /\ UNCHANGED <<register, database>>
  <2>1. /\ unamerole' \in [Name -> Entry \cup {Free}] /\ uidrole' \in [User -> SUBSET Slot]
        /\ roles' \in [Zone -> [Role -> Name \cup {NoName}]] /\ obsolete' \in [Zone -> SUBSET Name]
      BY <1>6 DEF register, database, Typed, TypeOK
  <2>2. /\ Typed'
        /\ \A y \in Xid : calls'[y] = IF y = x THEN Accepted(calls[x], r, NoName) ELSE calls[y]
      BY <1>1, <1>6, <2>1, AcceptTyped
  <2>3. NamesQuiet
      BY <1>3, <1>6, <2>2, DistinctValues DEF NamesQuiet, NamesStay, register, database
  <2>. QED BY <1>6, <2>2, <2>3
<1>7. CASE /\ Exists(z, r)
           /\ roles' = [roles EXCEPT ![z][r] = NoName]
           /\ Answer(x, TRUE, r, roles[z][r]) /\ UNCHANGED <<register, obsolete>>
  <2>1. /\ unamerole' \in [Name -> Entry \cup {Free}] /\ uidrole' \in [User -> SUBSET Slot]
        /\ roles' \in [Zone -> [Role -> Name \cup {NoName}]] /\ obsolete' \in [Zone -> SUBSET Name]
      BY <1>7 DEF register, Typed, TypeOK
  <2>2. /\ Typed'
        /\ \A y \in Xid :
               calls'[y] = IF y = x THEN Accepted(calls[x], r, roles[z][r]) ELSE calls[y]
      BY <1>1, <1>4, <1>7, <2>1, AcceptTyped
  <2>3. NameTakenBack(x, z, r)
      BY <1>3, <1>7, <2>2 DEF NameTakenBack, register
  <2>4. \A z1 \in Zone, q \in Role : Exists(z1, q)' => Exists(z1, q) /\ ~(z1 = z /\ q = r)
      BY <1>7 DEF Exists, Typed, TypeOK
  <2>5. IdTakenBack(x, z, r)
      BY <1>3, <1>7, <2>2, <2>4 DEF IdTakenBack, Known, register
  <2>. QED BY <2>2, <2>3, <2>5
<1>. QED BY <1>2, <1>5, <1>6, <1>7 DEF ServeDBDelete, Deletes, Accept

LEMMA ServeDBRenameStep ==
    ASSUME Typed, NEW x \in Xid, ServeDBRename(x)
    PROVE  /\ Typed'
           /\ NamesQuiet \/ \E n \in Name, z \in Zone, r \in Role : NameGiven(x, n, z, r)
           /\ IdsQuiet
<1>1. /\ calls[x] # NoCall /\ Formed(calls[x]) /\ calls[x].kind = "DBPlayerRename"
      /\ calls[x].phase # "answered" /\ calls[x].role \in Role /\ calls[x].name \in Name
      /\ calls[x].zone \in Zone
    BY Served DEF ServeDBRename, Kind
<1>2. PICK r \in Role, n \in Name, z \in Zone :
          r = calls[x].role /\ n = calls[x].name /\ z = calls[x].zone
    BY <1>1
<1>3. \A q, f : ~HoldsId(Accepted(calls[x], r, f), q) /\ ~HoldsName(Accepted(calls[x], r, f), q)
    BY <1>1, AcceptedHolds
<1>4. CASE Refuse(x)
    BY <1>1, <1>4, RefuseIsQuiet
<1>5. CASE /\ Exists(z, r)
           /\ roles' = [roles EXCEPT ![z][r] = n]
           /\ obsolete' = [obsolete EXCEPT ![z] = @ \cup {roles[z][r]}]
           /\ Answer(x, TRUE, r, roles[z][r]) /\ UNCHANGED register
  <2>1. roles[z][r] \in Name
      BY <1>5 DEF Exists, Typed, TypeOK
  <2>2. /\ unamerole' \in [Name -> Entry \cup {Free}] /\ uidrole' \in [User -> SUBSET Slot]
        /\ roles' \in [Zone -> [Role -> Name \cup {NoName}]] /\ obsolete' \in [Zone -> SUBSET Name]
      BY <1>5, <2>1 DEF register, Typed, TypeOK
  <2>3. /\ Typed'
        /\ \A y \in Xid :
               calls'[y] = IF y = x THEN Accepted(calls[x], r, roles[z][r]) ELSE calls[y]
      BY <1>1, <1>5, <2>1, <2>2, AcceptTyped
  <2>4. HoldsName(calls[x], n)
      BY <1>1, <1>2 DEF HoldsName, Holds
  <2>5. \A z1 \in Zone, m \in Name : m \in obsolete'[z1] => m \in obsolete[z1] \/ m = roles[z][r]
      BY <1>5 DEF Typed, TypeOK
  <2>6. NameGiven(x, n, z, r)
      BY <1>3, <1>5, <2>3, <2>4, <2>5 DEF NameGiven, register
  <2>7. IdsStay
      BY <1>5 DEF IdsStay, Exists, Typed, TypeOK
  <2>8. IdsQuiet
      BY <1>3, <1>5, <2>3, <2>7 DEF IdsQuiet, Known, register
  <2>. QED BY <2>3, <2>6, <2>8
<1>. QED BY <1>2, <1>4, <1>5 DEF ServeDBRename, Accept

-----------------------------------------------------------------------------
(***************************************************************************)
(* Crashes, lost requests and timeouts.                                    *)
(***************************************************************************)
HoldsLess(d, c) ==
    /\ d # NoCall => Formed(d) /\ d.kind # "RollBack"
    /\ \A n : HoldsName(d, n) => HoldsName(c, n)
    /\ \A r : HoldsId(d, r) => HoldsId(c, r)

LEMMA LeftHoldsLess ==
    ASSUME NEW c, c # NoCall => Formed(c) /\ c.kind # "RollBack"
    PROVE  HoldsLess(Left(c), c)
<1>1. CASE c = NoCall \/ c.phase = "answered"
    BY <1>1 DEF Left, HoldsLess, HoldsName, HoldsId
<1>2. CASE c # NoCall /\ c.phase # "answered"
  <2>. DEFINE d == [c EXCEPT !.phase = "orphan"]
  <2>1. d \in Call
      BY <1>2 DEF Formed, Call
  <2>2. /\ d.kind = c.kind /\ d.name = c.name /\ d.phase = "orphan"
        /\ d.ok = c.ok /\ d.role = c.role /\ d.found = c.found
      BY <1>2 DEF Formed, Call
  <2>3. Left(c) = d
      BY <1>2 DEF Left
  <2>. HIDE DEF d
  <2>. QED BY <1>2, <2>1, <2>2, <2>3 DEF HoldsLess, HoldsName, HoldsId, Holds, Formed
<1>. QED BY <1>1, <1>2

LEMMA FailsIsQuiet ==
    ASSUME Typed, Fails
    PROVE  Typed' /\ NamesQuiet /\ IdsQuiet
<1>1. /\ UNCHANGED <<register, database>>
      /\ asked' \in 0 .. MaxAsked /\ faults' \in 0 .. MaxFaults
    BY CountAssumption
       DEF Fails, Crash, Lose, TimesOutSilently, PostCreateTimesOut, Overdue, Fault, Typed, TypeOK
<1>2. \A y \in Xid : HoldsLess(calls[y], calls[y]) /\ HoldsLess(Left(calls[y]), calls[y])
                     /\ HoldsLess(NoCall, calls[y])
    BY LeftHoldsLess DEF HoldsLess, HoldsName, HoldsId, Typed
<1>3. calls \in [Xid -> Call \cup {NoCall}]
    BY DEF Typed, TypeOK
<1>4. DOMAIN calls' = Xid /\ calls' = [y \in Xid |-> calls'[y]]
    BY <1>3 DEF Fails, Crash, Lose, TimesOutSilently, PostCreateTimesOut
<1>5. \A y \in Xid : HoldsLess(calls'[y], calls[y])
  <2>1. CASE \E z \in Zone : Crash(z)
      BY <1>2, <1>3, <2>1 DEF Crash
  <2>2. CASE \E x \in Xid : Lose(x) \/ TimesOutSilently(x)
      BY <1>2, <1>3, <2>2 DEF Lose, TimesOutSilently
  <2>3. CASE \E x, y \in Xid : PostCreateTimesOut(x, y, "PostCreateRole")
    <3>1. PICK x \in Xid, y \in Xid : PostCreateTimesOut(x, y, "PostCreateRole")
        BY <2>3
    <3>. DEFINE c == calls[x]
                d == Request(c.kind, c.zone, c.role, c.name, NoName)
    <3>2. c # NoCall /\ Formed(c) /\ c.kind = "PostCreateRole" /\ calls[y] = NoCall
        BY <3>1 DEF PostCreateTimesOut, Overdue, Typed
    <3>3. c.zone \in Zone /\ c.role \in Role /\ c.name \in Name
        BY <3>2 DEF Formed, Call
    <3>4. Formed(d) /\ d.kind # "RollBack"
        BY <3>2, <3>3, RolesHaveIds, RequestFormed DEF Kind
    <3>5. \A n : ~HoldsName(d, n) /\ ~HoldsId(d, n)
        BY <3>2, RequestHolds DEF Kind
    <3>6. \A w \in Xid : calls'[w] = IF w = y THEN d ELSE IF w = x THEN Left(c) ELSE calls[w]
        BY <1>3, <3>1 DEF PostCreateTimesOut
    <3>7. HoldsLess(d, calls[y])
        BY <3>4, <3>5 DEF HoldsLess
    <3>. HIDE DEF c, d
    <3>. QED BY <1>2, <3>6, <3>7 DEF c
  <2>. QED BY <2>1, <2>2, <2>3 DEF Fails
<1>6. Typed'
  <2>1. \A y \in Xid : calls'[y] \in Call \cup {NoCall}
      BY <1>5 DEF HoldsLess, Formed
  <2>2. calls' \in [Xid -> Call \cup {NoCall}]
      BY <1>4, <2>1
  <2>. QED BY <1>1, <1>5, <2>2 DEF register, database, HoldsLess, Typed, TypeOK
<1>7. NamesQuiet
    BY <1>1, <1>5 DEF register, database, HoldsLess, NamesQuiet, NamesStay
<1>8. IdsQuiet
    BY <1>1, <1>5 DEF register, database, HoldsLess, IdsQuiet, IdsStay, Exists, Known
<1>. QED BY <1>6, <1>7, <1>8

-----------------------------------------------------------------------------
(***************************************************************************)
(* Every step is of one kind.                                              *)
(***************************************************************************)
LEMMA NextStep ==
    ASSUME Typed, Next
    PROVE  /\ Typed'
           /\ \/ NamesQuiet
              \/ \E x \in Xid, n \in Name : NameReserved(x, n)
              \/ \E x \in Xid, n \in Name \cup {NoName} : NameFreed(x, n)
              \/ \E x \in Xid, n \in Name, z \in Zone, r \in Role : NameGiven(x, n, z, r)
              \/ \E x \in Xid, z \in Zone, r \in Role : NameTakenBack(x, z, r)
           /\ OldUser = {} =>
              \/ IdsQuiet
              \/ \E x \in Xid, z \in Zone, r \in Role :
                     IdReserved(x, r) \/ IdFreed(x, r) \/ IdGiven(x, z, r) \/ IdTakenBack(x, z, r)
<1>1. CASE Ask
    BY <1>1, AskIsQuiet
<1>2. CASE Receive
    BY <1>2, ReceiveIsQuiet DEF Receive
<1>3. CASE Fails
    BY <1>3, FailsIsQuiet
<1>4. CASE Serve
  <2>1. PICK x \in Xid :
            \/ ServePreCreate(x) \/ ServeDBCreate(x) \/ ServePostCreate(x) \/ ServePostCreateFailed(x)
            \/ ServeDBDelete(x) \/ ServePostDelete(x)
            \/ ServePreRename(x) \/ ServeDBRename(x) \/ ServePostRename(x) \/ ServePostRenameFailed(x)
      BY <1>4 DEF Serve
  <2>2. \E z \in Zone : TRUE
      BY <2>1, Served
         DEF ServePreCreate, ServeDBCreate, ServePostCreate, ServePostCreateFailed, ServeDBDelete,
             ServePostDelete, ServePreRename, ServeDBRename, ServePostRename, ServePostRenameFailed,
             Reaches, Typed, Formed, Call
  <2>3. CASE ServePreCreate(x)
      BY <2>2, <2>3, ServePreCreateStep
  <2>4. CASE ServeDBCreate(x)
      BY <2>4, ServeDBCreateStep
  <2>5. CASE ServePostCreate(x) \/ ServePostRename(x)
      BY <2>5, ServeUsedStep
  <2>6. CASE ServePostCreateFailed(x) \/ ServePostDelete(x) \/ ServePostRenameFailed(x)
      BY <2>2, <2>6, ServeFreedStep
  <2>7. CASE ServeDBDelete(x)
      BY <2>7, ServeDBDeleteStep
  <2>8. CASE ServePreRename(x)
      BY <2>8, ServePreRenameStep
  <2>9. CASE ServeDBRename(x)
      BY <2>9, ServeDBRenameStep
  <2>. QED BY <2>1, <2>3, <2>4, <2>5, <2>6, <2>7, <2>8, <2>9
<1>. QED BY <1>1, <1>2, <1>3, <1>4 DEF Next

LEMMA InitHolds ==
    ASSUME Init PROVE Typed /\ NamesInv /\ IdsInv
<1>1. Typed
    BY CountAssumption DEF Init, Typed, TypeOK
<1>2. \A x \in Xid : calls[x] = NoCall
    BY DEF Init
<1>3. \A z \in Zone : /\ obsolete[z] = {}
                      /\ \A r \in Role : ~Exists(z, r)
                      /\ \A n \in Name : ~Taken(z, n)
    BY DistinctValues DEF Init, Exists, Taken
<1>4. NamesInv
    BY <1>2, <1>3
       DEF NamesInv, NamesHeldOnce, NamesKnown, UniqueNames, NamesRegistered, HoldsName
<1>5. IdsInv
    BY <1>2, <1>3 DEF IdsInv, IdsHeldOnce, IdsKnown, UniqueRoleids, HoldsId
<1>. QED BY <1>1, <1>4, <1>5

LEMMA StutterKeeps ==
    ASSUME UNCHANGED vars
    PROVE  (Typed => Typed') /\ (NamesInv => NamesInv') /\ (IdsInv => IdsInv')
    BY DEF vars, register, database, Typed, TypeOK, NamesInv, NamesHeldOnce, NamesKnown, UniqueNames,
           NamesRegistered, Taken, Exists, IdsInv, IdsHeldOnce, IdsKnown, UniqueRoleids

-----------------------------------------------------------------------------
\* The variables of the register, the databases and the network keep their types.
THEOREM TypeCorrect == Spec => []Typed
<1>1. Init => Typed
    BY InitHolds
<1>2. Typed /\ [Next]_vars => Typed'
    BY NextStep, StutterKeeps
<1>. QED BY <1>1, <1>2, PTL DEF Spec

\* Whatever is crashed, lost, repeated or late but a write of a database, the invariant about names
\* holds.
LEMMA NamesInvariant == Spec => []NamesInv
<1>1. Init => NamesInv
    BY InitHolds
<1>2. Typed /\ Typed' /\ NamesInv /\ [Next]_vars => NamesInv'
  <2>. SUFFICES ASSUME Typed, Typed', NamesInv, Next PROVE NamesInv'
      BY StutterKeeps
  <2>. QED BY NextStep, QuietKeepsNames, ReservedKeepsNames, FreedKeepsNames, GivenKeepsNames,
              TakenBackKeepsNames
<1>. QED BY <1>1, <1>2, TypeCorrect, PTL DEF Spec

\* No two roles of all zones ever have the same name.
THEOREM NamesAreUnique == Spec => []UniqueNames
<1>1. NamesInv => UniqueNames
    BY DEF NamesInv, NamesHeldOnce
<1>. QED BY <1>1, NamesInvariant, PTL

\* No name of a role, and none that a role gave up, is ever freed.
THEOREM NamesAreRegistered == Spec => []NamesRegistered
<1>1. NamesInv => NamesRegistered
    BY DEF NamesInv, NamesKnown
<1>. QED BY <1>1, NamesInvariant, PTL

\* A deletion that comes twice is refused the second time when no user has its userid for a logicuid.
LEMMA IdsInvariant == OldUser = {} => (Spec => []IdsInv)
<1>. SUFFICES ASSUME OldUser = {} PROVE Spec => []IdsInv
    OBVIOUS
<1>1. Init => IdsInv
    BY InitHolds
<1>2. Typed /\ IdsInv /\ [Next]_vars => IdsInv'
  <2>. SUFFICES ASSUME Typed, IdsInv, Next PROVE IdsInv'
      BY StutterKeeps
  <2>1. CASE IdsQuiet
      BY <2>1 DEF IdsQuiet, IdsStay, Known, IdsInv, IdsHeldOnce, IdsKnown, UniqueRoleids
  <2>. QED BY <2>1, NextStep, IdStepsKeepIds
<1>. QED BY <1>1, <1>2, TypeCorrect, PTL DEF Spec

\* No two zones have a role of the same id, provided a deletion that comes twice is
\* refused the second time: that no user has its userid for a logicuid.
THEOREM RoleidsAreUnique == OldUser = {} => (Spec => []UniqueRoleids)
<1>. SUFFICES ASSUME OldUser = {} PROVE Spec => []UniqueRoleids
    OBVIOUS
<1>1. IdsInv => UniqueRoleids
    BY DEF IdsInv, IdsHeldOnce
<1>2. Spec => []IdsInv
    BY IdsInvariant
<1>. QED BY <1>1, <1>2, PTL

-----------------------------------------------------------------------------
(***************************************************************************)
(* Without faults nothing is lost: what the register has taken has a       *)
(* holder.  A name would stay taken for nobody if it were confirmed after  *)
(* its role was deleted and the name freed; so the invariant says that     *)
(* what is confirmed is in the database, and that nothing else is under    *)
(* way about a role that is being deleted.                                 *)
(***************************************************************************)
\* gdeliveryd waits for every answer it can use.
Waited(c) == c # NoCall /\ c.phase = "orphan" => c.kind \in OneWay

\* The request or the answer c says that the database has its name.
Confirms(c) ==
    /\ c # NoCall
    /\ \/ c.kind \in {"DBCreateRole", "DBPlayerRename"} /\ c.phase = "answered" /\ c.ok
       \/ c.kind \in {"PostCreateRole", "PostPlayerRename"} /\ c.phase # "answered"

Written(c) ==
    /\ c.name \in obsolete[c.zone] \/ roles[c.zone][c.role] = c.name
    /\ c.kind = "DBCreateRole" => c.found = NoName

AsksToDelete(c) == c # NoCall /\ c.kind = "DBDeleteRole" /\ c.phase # "answered"

NameKept(n) == (\E z \in Zone : Taken(z, n)) \/ \E x \in Xid : HoldsName(calls[x], n)
IdKept(r)   == (\E z \in Zone : Exists(z, r)) \/ \E x \in Xid : HoldsId(calls[x], r)

RequestsSound ==
    /\ \A x \in Xid : Waited(calls[x])
    /\ \A x \in Xid : Confirms(calls[x]) => Written(calls[x])
    /\ \A x \in Xid : AsksToDelete(calls[x]) =>
           /\ Exists(calls[x].zone, calls[x].role)
           /\ About(calls[x].zone, calls[x].role) = {x}

AllKept ==
    /\ \A n \in Name : unamerole[n] # Free => NameKept(n)
    /\ \A r \in Role : Known(r) => IdKept(r)

Kept == RequestsSound /\ AllKept

\* The request of x becomes d, and what x held is held by d, by the database, or free.
PassesNames(x, d) ==
    /\ \A n \in Name : unamerole'[n] # Free =>
           unamerole[n] # Free \/ HoldsName(d, n) \/ \E z \in Zone : Taken(z, n)'
    /\ \A z \in Zone, n \in Name : Taken(z, n) => Taken(z, n)' \/ HoldsName(d, n)
    /\ \A n \in Name : HoldsName(calls[x], n) =>
           HoldsName(d, n) \/ unamerole'[n] = Free \/ \E z \in Zone : Taken(z, n)'

PassesIds(x, d) ==
    /\ \A r \in Role : Known(r)' => Known(r) \/ HoldsId(d, r)
    /\ \A z \in Zone, r \in Role : Exists(z, r) => Exists(z, r)' \/ HoldsId(d, r)
    /\ \A r \in Role : HoldsId(calls[x], r) =>
           HoldsId(d, r) \/ ~Known(r)' \/ \E z \in Zone : Exists(z, r)'

\* x touches no role that another request is about, but to rename it.
TouchesOwn(x) ==
    /\ \A z \in Zone, n \in Name : n \in obsolete[z] => n \in obsolete'[z]
    /\ \A z \in Zone, r \in Role :
           \/ About(z, r) \subseteq {x}
           \/ Exists(z, r) =>
                  Exists(z, r)' /\ (roles'[z][r] = roles[z][r] \/ roles[z][r] \in obsolete'[z])

\* d is about the same role, or about one that nobody deletes.
MeetsNoDeletion(x, d) ==
    d # NoCall =>
        \/ calls[x] # NoCall /\ d.zone = calls[x].zone /\ d.role = calls[x].role
        \/ \A y \in Xid \ {x} :
               AsksToDelete(calls[y]) => ~(calls[y].zone = d.zone /\ calls[y].role = d.role)

LEMMA StepKeeps ==
    ASSUME Typed, Kept, NEW x \in Xid, NEW d,
           \A y \in Xid : calls'[y] = IF y = x THEN d ELSE calls[y],
           PassesNames(x, d), PassesIds(x, d), TouchesOwn(x), MeetsNoDeletion(x, d),
           Waited(d), Confirms(d) => Written(d)',
           AsksToDelete(d) => /\ d.zone \in Zone /\ d.role \in Role
                              /\ Exists(d.zone, d.role)' /\ About(d.zone, d.role) \subseteq {x}
    PROVE  Kept'
<1>1. \A n \in Name : unamerole'[n] # Free => NameKept(n)'
  <2>. SUFFICES ASSUME NEW n \in Name, unamerole'[n] # Free, ~HoldsName(d, n),
                       \A z \in Zone : ~Taken(z, n)'
                PROVE  \E y \in Xid : HoldsName(calls'[y], n)
      BY DEF NameKept
  <2>1. unamerole[n] # Free /\ (\A z \in Zone : ~Taken(z, n)) /\ ~HoldsName(calls[x], n)
      BY DEF PassesNames
  <2>2. PICK y \in Xid : HoldsName(calls[y], n)
      BY <2>1 DEF Kept, AllKept, NameKept
  <2>. QED BY <2>1, <2>2
<1>2. \A r \in Role : Known(r)' => IdKept(r)'
  <2>. SUFFICES ASSUME NEW r \in Role, Known(r)', ~HoldsId(d, r), \A z \in Zone : ~Exists(z, r)'
                PROVE  \E y \in Xid : HoldsId(calls'[y], r)
      BY DEF IdKept
  <2>1. Known(r) /\ (\A z \in Zone : ~Exists(z, r)) /\ ~HoldsId(calls[x], r)
      BY DEF PassesIds
  <2>2. PICK y \in Xid : HoldsId(calls[y], r)
      BY <2>1 DEF Kept, AllKept, IdKept
  <2>. QED BY <2>1, <2>2
<1>3. \A y \in Xid : Waited(calls'[y])
    BY DEF Kept, RequestsSound
<1>4. ASSUME NEW y \in Xid, Confirms(calls'[y]) PROVE Written(calls[y])'
  <2>1. CASE y = x
      BY <1>4, <2>1 DEF Written
  <2>2. CASE y # x
    <3>1. calls'[y] = calls[y] /\ Confirms(calls[y]) /\ Written(calls[y])
        BY <1>4, <2>2 DEF Kept, RequestsSound
    <3>2. PICK z \in Zone, r \in Role : z = calls[y].zone /\ r = calls[y].role
        BY <3>1 DEF Confirms, Typed, Formed, Call
    <3>3. y \in About(z, r)
        BY <3>1, <3>2 DEF About, Confirms
    <3>4. calls[y].name \in Name
        BY <3>1 DEF Confirms, Typed, Formed
    <3>5. roles[z][r] = calls[y].name => Exists(z, r)
        BY <3>4, DistinctValues DEF Exists
    <3>. QED BY <2>2, <3>1, <3>2, <3>3, <3>4, <3>5 DEF TouchesOwn, Written
  <2>. QED BY <2>1, <2>2
<1>5. ASSUME NEW y \in Xid, AsksToDelete(calls'[y])
      PROVE  /\ Exists(calls[y].zone, calls[y].role)'
             /\ About(calls[y].zone, calls[y].role)' = {y}
  <2>1. CASE y = x
    <3>1. calls'[y] = d /\ AsksToDelete(d)
        BY <1>5, <2>1
    <3>2. PICK z \in Zone, r \in Role : z = d.zone /\ r = d.role
        BY <3>1
    <3>3. Exists(z, r)' /\ About(z, r) \subseteq {x}
        BY <3>1, <3>2
    <3>4. \A w \in Xid : w \in About(z, r)' <=> w = y
        BY <2>1, <3>1, <3>2, <3>3 DEF About, AsksToDelete
    <3>5. About(z, r)' = {y}
        BY <3>4 DEF About
    <3>. QED BY <3>1, <3>2, <3>3, <3>5 DEF Exists, About
  <2>2. CASE y # x
    <3>1. calls'[y] = calls[y] /\ AsksToDelete(calls[y])
        BY <1>5, <2>2
    <3>2. PICK z \in Zone, r \in Role : z = calls[y].zone /\ r = calls[y].role
        BY <3>1 DEF AsksToDelete, Typed, Formed, Call
    <3>3. Exists(z, r) /\ About(z, r) = {y}
        BY <3>1, <3>2 DEF Kept, RequestsSound
    <3>4. Exists(z, r)'
        BY <2>2, <3>3 DEF TouchesOwn
    <3>5. ~(d # NoCall /\ d.zone = z /\ d.role = r)
        BY <2>2, <3>1, <3>2, <3>3 DEF MeetsNoDeletion, About
    <3>6. \A w \in Xid : w \in About(z, r)' <=> w = y
        BY <2>2, <3>1, <3>2, <3>3, <3>5 DEF About
    <3>7. About(z, r)' = {y}
        BY <3>6 DEF About
    <3>. QED BY <3>1, <3>2, <3>4, <3>7 DEF Exists, About
  <2>. QED BY <2>1, <2>2
<1>6. RequestsSound'
    BY <1>3, <1>4, <1>5 DEF RequestsSound
<1>. QED BY <1>1, <1>2, <1>6 DEF Kept, AllKept

-----------------------------------------------------------------------------
LEMMA RequestIs ==
    ASSUME NEW k \in Kind, NEW z, NEW r, NEW n, NEW f, NEW d, d = Request(k, z, r, n, f)
    PROVE  /\ d.kind = k /\ d.zone = z /\ d.role = r /\ d.name = n /\ d.found = f /\ ~d.ok
           /\ d.phase = IF k \in OneWay THEN "orphan" ELSE "sent"
    BY DEF Request

LEMMA AnswerPuts ==
    ASSUME Typed, NEW x \in Xid, NEW r, NEW f, Answer(x, TRUE, r, f)
    PROVE  \A y \in Xid : calls'[y] = IF y = x THEN Accepted(calls[x], r, f) ELSE calls[y]
<1>1. calls' = [calls EXCEPT ![x] = Accepted(calls[x], r, f)]
    BY AnswerIs
<1>. QED BY <1>1, OneCall

LEMMA AcceptPuts ==
    ASSUME Typed, NEW x \in Xid, NEW f, Accept(x, f)
    PROVE  \A y \in Xid :
               calls'[y] = IF y = x THEN Accepted(calls[x], calls[x].role, f) ELSE calls[y]
<1>1. PICK r : r = calls[x].role
    OBVIOUS
<1>2. Answer(x, TRUE, r, f)
    BY <1>1 DEF Accept
<1>. QED BY <1>1, <1>2, AnswerPuts

\* The answer to a request that gdeliveryd waits for.
LEMMA RefusalIs ==
    ASSUME NEW c, Formed(c), c.phase # "orphan", NEW d, d = Refused(c)
    PROVE  /\ d # NoCall
           /\ d.kind = c.kind /\ d.zone = c.zone /\ d.name = c.name /\ d.phase = "answered"
           /\ ~d.ok /\ d.role = c.role
<1>1. d = [c EXCEPT !.phase = "answered", !.ok = FALSE, !.role = c.role, !.found = NoName]
    BY DEF Refused
<1>2. d \in Call
    BY <1>1 DEF Formed, Call
<1>. QED BY <1>1, <1>2, DistinctValues DEF Formed, Call

LEMMA AcceptanceIs ==
    ASSUME NEW c, Formed(c), c.phase # "orphan", NEW r \in Role, NEW f \in Name \cup {NoName},
           NEW d, d = Accepted(c, r, f)
    PROVE  /\ d # NoCall
           /\ d.kind = c.kind /\ d.zone = c.zone /\ d.name = c.name /\ d.phase = "answered"
           /\ d.ok /\ d.role = r /\ d.found = f
<1>1. d = [c EXCEPT !.phase = "answered", !.ok = TRUE, !.role = r, !.found = f]
    BY DEF Accepted
<1>2. d \in Call
    BY <1>1, RolesHaveIds DEF Formed, Call
<1>. QED BY <1>1, <1>2, DistinctValues DEF Formed, Call

LEMMA QuietKeeps ==
    ASSUME Typed, Kept, NEW x \in Xid, NEW d, calls' = [calls EXCEPT ![x] = d],
           UNCHANGED <<register, database>>, MeetsNoDeletion(x, d),
           \A n \in Name : HoldsName(calls[x], n) => HoldsName(d, n),
           \A r \in Role : HoldsId(calls[x], r) => HoldsId(d, r),
           Waited(d), Confirms(d) => Written(d),
           AsksToDelete(d) => /\ d.zone \in Zone /\ d.role \in Role
                              /\ Exists(d.zone, d.role) /\ About(d.zone, d.role) \subseteq {x}
    PROVE  Kept'
<1>1. \A y \in Xid : calls'[y] = IF y = x THEN d ELSE calls[y]
    BY OneCall
<1>2. UNCHANGED <<unamerole, uidrole, roles, obsolete>>
    BY DEF register, database
<1>3. PassesNames(x, d)
    BY <1>2 DEF PassesNames, Taken
<1>4. PassesIds(x, d)
    BY <1>2 DEF PassesIds, Known, Exists
<1>5. TouchesOwn(x)
    BY <1>2 DEF TouchesOwn, Exists
<1>6. /\ Confirms(d) => Written(d)'
      /\ AsksToDelete(d) => /\ d.zone \in Zone /\ d.role \in Role
                            /\ Exists(d.zone, d.role)' /\ About(d.zone, d.role) \subseteq {x}
    BY <1>2 DEF Written, Exists
<1>. QED BY <1>1, <1>3, <1>4, <1>5, <1>6, StepKeeps

LEMMA AskKeeps ==
    ASSUME Typed, Kept, Ask, faults = 0, faults' = 0
    PROVE  Kept'
<1>1. ASSUME NEW x \in Xid, NEW k \in {"PreCreateRole", "DBDeleteRole", "PrePlayerRename"},
             NEW z \in Zone, NEW r \in User \X (0 .. RoleCount), NEW n,
             Asks(x, Request(k, z, r, n, NoName)),
             \A y \in Xid : AsksToDelete(calls[y]) => ~(calls[y].zone = z /\ calls[y].role = r),
             k = "DBDeleteRole" => r \in Role /\ Exists(z, r) /\ About(z, r) = {}
      PROVE  Kept'
  <2>1. PICK d : d = Request(k, z, r, n, NoName)
      OBVIOUS
  <2>2. d.kind = k /\ d.zone = z /\ d.role = r /\ d.phase = "sent"
      BY <2>1, RequestIs DEF Kind, OneWay
  <2>3. calls[x] = NoCall /\ calls' = [calls EXCEPT ![x] = d] /\ UNCHANGED <<register, database>>
      BY <1>1, <2>1 DEF Asks
  <2>4. MeetsNoDeletion(x, d)
      BY <1>1, <2>2 DEF MeetsNoDeletion
  <2>. QED BY <1>1, <2>2, <2>3, <2>4, QuietKeeps
           DEF HoldsName, HoldsId, Waited, Confirms, AsksToDelete
<1>2. PICK z \in Zone, n \in Name, x \in Xid :
          \/ \E u \in User : CreateRole(z, u, n, x)
          \/ \E r \in Role : DeleteRole(z, r, x) \/ Rename(z, r, n, x)
    BY DEF Ask
<1>3. ASSUME NEW u \in User, CreateRole(z, u, n, x) PROVE Kept'
  <2>1. \A y \in Xid : AsksToDelete(calls[y]) => calls[y].role # <<u, RoleCount>>
      BY CountAssumption DEF AsksToDelete, Typed, Formed, Role, Slot
  <2>2. <<u, RoleCount>> \in User \X (0 .. RoleCount)
      BY CountAssumption
  <2>. QED BY <1>1, <1>3, <2>1, <2>2 DEF CreateRole
<1>4. ASSUME NEW r \in Role, DeleteRole(z, r, x) PROVE Kept'
  <2>1. About(z, r) = {}
      BY <1>4 DEF DeleteRole
  <2>2. \A y \in Xid : AsksToDelete(calls[y]) => ~(calls[y].zone = z /\ calls[y].role = r)
      BY <2>1 DEF About, AsksToDelete
  <2>. QED BY <1>1, <1>4, <2>1, <2>2, RolesHaveIds DEF DeleteRole
<1>5. ASSUME NEW r \in Role, Rename(z, r, n, x) PROVE Kept'
  <2>1. \A y \in Xid : AsksToDelete(calls[y]) => ~(calls[y].zone = z /\ calls[y].role = r)
      BY <1>5 DEF Rename, About, AsksToDelete
  <2>. QED BY <1>1, <1>5, <2>1, RolesHaveIds DEF Rename
<1>. QED BY <1>2, <1>3, <1>4, <1>5

LEMMA RefuseKeeps ==
    ASSUME Typed, Kept, NEW x \in Xid, calls[x] # NoCall, calls[x].phase # "answered", Refuse(x),
           calls[x].kind \in {"PreCreateRole", "DBCreateRole", "DBDeleteRole", "PrePlayerRename",
                              "DBPlayerRename"}
    PROVE  Kept'
<1>1. PICK d : d = Refused(calls[x])
    OBVIOUS
<1>2. Formed(calls[x]) /\ calls[x].phase # "orphan"
    BY DEF Typed, Kept, RequestsSound, Waited, OneWay
<1>3. /\ d # NoCall /\ d.phase = "answered" /\ ~d.ok
      /\ d.kind = calls[x].kind /\ d.zone = calls[x].zone /\ d.name = calls[x].name
      /\ d.role = calls[x].role
    BY <1>1, <1>2, RefusalIs
<1>4. calls' = [calls EXCEPT ![x] = d] /\ UNCHANGED <<register, database>>
    BY <1>1, AnswerIs DEF Refuse
<1>5. MeetsNoDeletion(x, d)
    BY <1>3 DEF MeetsNoDeletion
<1>6. /\ \A n : HoldsName(calls[x], n) => HoldsName(d, n)
      /\ \A r : HoldsId(calls[x], r) => HoldsId(d, r)
    BY <1>2, <1>3 DEF HoldsName, HoldsId, Holds
<1>. QED BY <1>3, <1>4, <1>5, <1>6, QuietKeeps DEF Waited, Confirms, AsksToDelete

LEMMA ReceiveKeeps ==
    ASSUME Typed, Kept, NEW x \in Xid,
           \/ OnPreCreate(x) \/ OnDBCreate(x) \/ OnPostCreate(x) \/ OnDBDelete(x)
           \/ OnPreRename(x) \/ OnDBRename(x)
    PROVE  Kept'
<1>. DEFINE c == calls[x]
<1>1. c # NoCall /\ c.phase = "answered" /\ Formed(c) /\ c.ok \in BOOLEAN
    BY DEF Typed, OnPreCreate, OnDBCreate, OnPostCreate, OnDBDelete, OnPreRename, OnDBRename,
           Returns, Formed, Call
<1>2. ASSUME Sends(x, NoCall), ~Holds(c) PROVE Kept'
  <2>1. (\A n : ~HoldsName(c, n)) /\ (\A r : ~HoldsId(c, r))
      BY <1>2 DEF HoldsName, HoldsId
  <2>2. MeetsNoDeletion(x, NoCall) /\ Waited(NoCall) /\ ~Confirms(NoCall) /\ ~AsksToDelete(NoCall)
      BY DEF MeetsNoDeletion, Waited, Confirms, AsksToDelete
  <2>3. calls' = [calls EXCEPT ![x] = NoCall] /\ UNCHANGED <<register, database>>
      BY <1>2 DEF Sends
  <2>. QED BY <2>1, <2>2, <2>3, QuietKeeps
<1>3. ASSUME NEW k \in {"DBCreateRole", "PostCreateRole", "PostCreateFailed", "PostDeleteRole",
                       "DBPlayerRename", "PostPlayerRename", "PostRenameFailed"},
             NEW n \in Name \cup {NoName}, NEW f \in Name \cup {NoName},
             c.role \in Role, k = "PostDeleteRole" \/ n \in Name,
             Sends(x, Request(k, c.zone, c.role, n, f)),
             Holds(c) => /\ k \notin {"PostCreateRole", "PostPlayerRename"}
                         /\ n = IF c.kind = "DBDeleteRole" THEN c.found ELSE c.name
                         /\ \/ c.kind \in {"PrePlayerRename", "DBPlayerRename"}
                            \/ k \in {"DBCreateRole", "PostCreateFailed", "PostDeleteRole"},
             k \in {"PostCreateRole", "PostPlayerRename"} => n = c.name /\ Confirms(c)
      PROVE  Kept'
  <2>1. PICK d : d = Request(k, c.zone, c.role, n, f)
      OBVIOUS
  <2>2. d.kind = k /\ d.zone = c.zone /\ d.role = c.role /\ d.name = n
        /\ d.phase = IF k \in OneWay THEN "orphan" ELSE "sent"
      BY <1>3, <2>1, RequestIs DEF Kind
  <2>3. d # NoCall
    <3>1. k \in Kind \ {"RollBack"} /\ k # "PreCreateRole" /\ k # "DBDeleteRole"
        BY <1>3 DEF Kind
    <3>2. c.zone \in Zone /\ c.role \in User \X (0 .. RoleCount)
        BY <1>1 DEF Formed, Call
    <3>. HIDE DEF c
    <3>. QED BY <1>3, <2>1, <3>1, <3>2, RequestFormed
  <2>4. MeetsNoDeletion(x, d) /\ Waited(d) /\ ~AsksToDelete(d)
      BY <1>1, <1>3, <2>2 DEF MeetsNoDeletion, Waited, AsksToDelete, OneWay
  <2>5. Holds(c) => Holds(d)
      BY <1>3, <2>2 DEF Holds, OneWay
  <2>6. \A m \in Name : HoldsName(c, m) => HoldsName(d, m)
      BY <1>3, <2>2, <2>3, <2>5 DEF HoldsName
  <2>7. \A r \in Role : HoldsId(c, r) => HoldsId(d, r)
      BY <1>3, <2>2, <2>3, <2>5 DEF HoldsId
  <2>8. Confirms(d) => Written(d)
      BY <1>3, <2>2 DEF Confirms, Written, Kept, RequestsSound, OneWay
  <2>9. calls' = [calls EXCEPT ![x] = d] /\ UNCHANGED <<register, database>>
      BY <1>3, <2>1 DEF Sends
  <2>. QED BY <2>4, <2>6, <2>7, <2>8, <2>9, QuietKeeps
<1>4. c.name \in Name \cup {NoName} /\ c.found \in Name \cup {NoName}
    BY <1>1 DEF Formed, Call
<1>5. CASE OnPreCreate(x)
    BY <1>1, <1>2, <1>3, <1>4, <1>5 DEF OnPreCreate, Returns, Formed, Holds
<1>6. CASE OnDBCreate(x)
  <2>1. CASE c.ok
    <3>1. Confirms(c) /\ ~Holds(c)
        BY <1>1, <1>6, <2>1 DEF OnDBCreate, Returns, Confirms, Holds
    <3>2. c.found = NoName
        BY <1>6, <3>1 DEF OnDBCreate, Returns, Kept, RequestsSound, Written
    <3>. QED BY <1>1, <1>3, <1>4, <1>6, <2>1, <3>1, <3>2 DEF OnDBCreate, Returns, Formed
  <2>2. CASE ~c.ok
      BY <1>1, <1>3, <1>4, <1>6, <2>2 DEF OnDBCreate, Returns, Formed, Holds
  <2>. QED BY <2>1, <2>2
<1>7. CASE OnPostCreate(x)
    BY <1>1, <1>2, <1>7 DEF OnPostCreate, Returns, Holds
<1>8. CASE OnDBDelete(x)
    BY <1>1, <1>2, <1>3, <1>4, <1>8 DEF OnDBDelete, Returns, Formed, Holds
<1>9. CASE OnPreRename(x)
    BY <1>1, <1>2, <1>3, <1>4, <1>9 DEF OnPreRename, Returns, Formed, Holds
<1>10. CASE OnDBRename(x)
  <2>1. CASE c.ok
      BY <1>1, <1>3, <1>4, <1>10, <2>1 DEF OnDBRename, Returns, Formed, Holds, Confirms
  <2>2. CASE ~c.ok
      BY <1>1, <1>3, <1>4, <1>10, <2>2 DEF OnDBRename, Returns, Formed, Holds
  <2>. QED BY <2>1, <2>2
<1>. QED BY <1>5, <1>6, <1>7, <1>8, <1>9, <1>10

-----------------------------------------------------------------------------
\* A request that has been answered asks for nothing more.
LEMMA AcceptanceAsks ==
    ASSUME Typed, NEW x \in Xid, calls[x] # NoCall, calls[x].kind # "PreCreateRole",
           NEW f \in Name \cup {NoName}, NEW d, d = Accepted(calls[x], calls[x].role, f)
    PROVE  /\ Waited(d) /\ ~AsksToDelete(d) /\ MeetsNoDeletion(x, d)
           /\ Confirms(d) => /\ d.kind \in {"DBCreateRole", "DBPlayerRename"}
                             /\ d.kind = calls[x].kind /\ d.name = calls[x].name
                             /\ d.zone = calls[x].zone /\ d.role = calls[x].role /\ d.found = f
<1>1. CASE calls[x].phase = "orphan"
  <2>1. d = NoCall
      BY <1>1 DEF Accepted
  <2>. QED BY <2>1 DEF Waited, AsksToDelete, MeetsNoDeletion, Confirms
<1>2. CASE calls[x].phase # "orphan"
  <2>1. Formed(calls[x]) /\ calls[x].role \in Role
      BY DEF Typed, Formed
  <2>2. /\ d # NoCall /\ d.kind = calls[x].kind /\ d.zone = calls[x].zone /\ d.name = calls[x].name
        /\ d.phase = "answered" /\ d.role = calls[x].role /\ d.found = f
      BY <1>2, <2>1, AcceptanceIs
  <2>. QED BY <2>2 DEF Waited, AsksToDelete, MeetsNoDeletion, Confirms
<1>. QED BY <1>1, <1>2

LEMMA ServePostKeeps ==
    ASSUME Typed, Kept, NEW x \in Xid,
           \/ ServePostCreate(x) \/ ServePostCreateFailed(x)
           \/ ServePostDelete(x) \/ ServePostRename(x) \/ ServePostRenameFailed(x)
    PROVE  Kept'
<1>. DEFINE c == calls[x]
<1>1. /\ c # NoCall /\ Formed(c) /\ c.phase # "answered" /\ c.role \in Role /\ c.zone \in Zone
      /\ c.kind \in {"PostCreateRole", "PostCreateFailed", "PostDeleteRole", "PostPlayerRename",
                     "PostRenameFailed"}
      /\ c.kind # "PostDeleteRole" => c.name \in Name
    BY Served DEF ServePostCreate, ServePostCreateFailed, ServePostDelete, ServePostRename,
                  ServePostRenameFailed, Kind
<1>2. Accept(x, NoName) /\ UNCHANGED <<roles, obsolete>>
    BY DEF ServePostCreate, ServePostCreateFailed, ServePostDelete, ServePostRename,
           ServePostRenameFailed, database
<1>3. PICK d : d = Accepted(c, c.role, NoName)
    OBVIOUS
<1>4. \A y \in Xid : calls'[y] = IF y = x THEN d ELSE calls[y]
    BY <1>2, <1>3, AcceptPuts
<1>5. Waited(d) /\ ~AsksToDelete(d) /\ MeetsNoDeletion(x, d) /\ ~Confirms(d)
    BY <1>1, <1>3, AcceptanceAsks
<1>6. TouchesOwn(x)
    BY <1>2 DEF TouchesOwn, Exists
<1>7. \A z \in Zone, n \in Name : Taken(z, n)' <=> Taken(z, n)
    BY <1>2 DEF Taken
<1>8. \A z \in Zone, r \in Role : Exists(z, r)' <=> Exists(z, r)
    BY <1>2 DEF Exists
<1>9. c.kind \in {"PostCreateRole", "PostPlayerRename"} => ~Holds(c) /\ Taken(c.zone, c.name)
  <2>. SUFFICES ASSUME c.kind \in {"PostCreateRole", "PostPlayerRename"}
                PROVE  ~Holds(c) /\ Taken(c.zone, c.name)
      OBVIOUS
  <2>1. Written(c)
      BY <1>1 DEF Kept, RequestsSound, Confirms
  <2>. QED BY <1>1, <2>1 DEF Holds, Taken, Written
<1>10. PassesNames(x, d)
  <2>1. \A n \in Name : unamerole'[n] # Free =>
            unamerole[n] # Free \/ (n = c.name /\ c.kind \in {"PostCreateRole", "PostPlayerRename"})
      BY <1>1 DEF ServePostCreate, ServePostCreateFailed, ServePostDelete, ServePostRename,
                  ServePostRenameFailed, Frees, Uses, Typed, TypeOK, Reaches
  <2>2. \A n \in Name : HoldsName(c, n) => unamerole'[n] = Free
    <3>1. CASE c.kind \in {"PostCreateRole", "PostPlayerRename"}
        BY <1>9, <3>1 DEF HoldsName
    <3>2. CASE c.kind \in {"PostCreateFailed", "PostDeleteRole", "PostRenameFailed"}
      <4>1. \A n \in Name : n = c.name => unamerole'[n] = Free
          BY <3>2, DistinctValues
             DEF ServePostCreate, ServePostCreateFailed, ServePostDelete, ServePostRename,
                 ServePostRenameFailed, Frees, Typed, TypeOK, Reaches
      <4>. QED BY <3>2, <4>1 DEF HoldsName
    <3>. QED BY <1>1, <3>1, <3>2
  <2>. QED BY <1>1, <1>7, <1>9, <2>1, <2>2 DEF PassesNames
<1>11. PassesIds(x, d)
  <2>1. \A r \in Role : r[1] \in User
      BY DEF Role
  <2>2. \A r \in Role : Known(r)' => Known(r)
      BY <1>1, <2>1 DEF Known, ServePostCreate, ServePostCreateFailed, ServePostDelete,
            ServePostRename, ServePostRenameFailed, Frees, Typed, TypeOK
  <2>3. \A r \in Role : HoldsId(c, r) => ~Known(r)'
      BY <1>1, <1>9, <2>1 DEF HoldsId, Known, ServePostCreate, ServePostCreateFailed, ServePostDelete,
            ServePostRename, ServePostRenameFailed, Frees, Typed, TypeOK, Reaches
  <2>. QED BY <1>8, <2>2, <2>3 DEF PassesIds
<1>. QED BY <1>4, <1>5, <1>6, <1>10, <1>11, StepKeeps

LEMMA ServePreCreateKeeps ==
    ASSUME Typed, IdsInv, Kept, NEW x \in Xid, ServePreCreate(x)
    PROVE  Kept'
<1>1. /\ calls[x] # NoCall /\ Formed(calls[x]) /\ calls[x].kind = "PreCreateRole"
      /\ calls[x].phase = "sent" /\ calls[x].role[1] \in User /\ calls[x].name \in Name
    BY DEF ServePreCreate, Reaches, Typed, Formed, Call, Kept, RequestsSound, Waited, OneWay
<1>2. PICK u \in User, n \in Name : u = calls[x].role[1] /\ n = calls[x].name
    BY <1>1
<1>3. CASE Refuse(x)
    BY <1>1, <1>3, RefuseKeeps
<1>4. CASE ~Refuse(x)
  <2>1. PICK s \in Slot \ uidrole[u] :
            /\ unamerole' = [unamerole EXCEPT ![n] = [role |-> <<u, s>>, status |-> "engaged"]]
            /\ uidrole' = [uidrole EXCEPT ![u] = @ \cup {s}]
            /\ Answer(x, TRUE, <<u, s>>, NoName)
      BY <1>2, <1>4 DEF ServePreCreate
  <2>2. UNCHANGED <<roles, obsolete>>
      BY <1>2, <1>4 DEF ServePreCreate, database
  <2>3. PICK r \in Role : r = <<u, s>>
      BY <1>2, <2>1 DEF Role
  <2>4. PICK d : d = Accepted(calls[x], r, NoName)
      OBVIOUS
  <2>5. /\ d # NoCall /\ d.kind = "PreCreateRole" /\ d.name = n
        /\ d.phase = "answered" /\ d.ok /\ d.role = r
      BY <1>1, <1>2, <2>4, AcceptanceIs
  <2>6. \A y \in Xid : calls'[y] = IF y = x THEN d ELSE calls[y]
    <3>1. Answer(x, TRUE, r, NoName)
        BY <2>1, <2>3
    <3>. QED BY <2>4, <3>1, AnswerPuts
  <2>7. HoldsName(d, n) /\ HoldsId(d, r) /\ ~Holds(calls[x])
      BY <1>1, <2>5 DEF HoldsName, HoldsId, Holds
  <2>8. PassesNames(x, d)
    <3>1. \A m \in Name : m # n => unamerole'[m] = unamerole[m]
        BY <2>1 DEF Typed, TypeOK
    <3>. QED BY <2>2, <2>7, <3>1 DEF PassesNames, Taken, HoldsName
  <2>9. PassesIds(x, d)
    <3>1. \A q \in Role : q # r /\ Known(q)' => Known(q)
        BY <2>1, <2>3 DEF Known, Role, Typed, TypeOK
    <3>. QED BY <2>2, <2>7, <3>1 DEF PassesIds, Exists, HoldsId
  <2>10. TouchesOwn(x)
      BY <2>2 DEF TouchesOwn, Exists
  <2>11. \A z \in Zone : ~Exists(z, r)
      BY <2>1, <2>3 DEF IdsInv, IdsKnown
  <2>12. \A y \in Xid : AsksToDelete(calls[y]) => calls[y].role # r
      BY <2>11 DEF Kept, RequestsSound, AsksToDelete, Typed, Formed, Call
  <2>. QED BY <2>5, <2>6, <2>8, <2>9, <2>10, <2>12, StepKeeps
           DEF Waited, Confirms, AsksToDelete, MeetsNoDeletion
<1>. QED BY <1>3, <1>4

LEMMA ServePreRenameKeeps ==
    ASSUME Typed, Kept, NEW x \in Xid, ServePreRename(x)
    PROVE  Kept'
<1>1. /\ calls[x] # NoCall /\ Formed(calls[x]) /\ calls[x].kind = "PrePlayerRename"
      /\ calls[x].phase = "sent" /\ calls[x].role \in Role /\ calls[x].name \in Name
    BY DEF ServePreRename, Reaches, Typed, Formed, Call, Kept, RequestsSound, Waited, OneWay
<1>2. PICK n \in Name : n = calls[x].name
    BY <1>1
<1>3. CASE Refuse(x)
    BY <1>1, <1>3, RefuseKeeps
<1>4. CASE ~Refuse(x)
  <2>1. /\ unamerole' = [unamerole EXCEPT ![n] = [role |-> calls[x].role, status |-> "engaged"]]
        /\ Accept(x, NoName) /\ UNCHANGED <<uidrole, roles, obsolete>>
      BY <1>2, <1>4 DEF ServePreRename, database
  <2>2. PICK d : d = Accepted(calls[x], calls[x].role, NoName)
      OBVIOUS
  <2>3. /\ d # NoCall /\ d.kind = "PrePlayerRename" /\ d.name = n /\ d.zone = calls[x].zone
        /\ d.phase = "answered" /\ d.ok /\ d.role = calls[x].role
      BY <1>1, <1>2, <2>2, AcceptanceIs
  <2>4. \A y \in Xid : calls'[y] = IF y = x THEN d ELSE calls[y]
      BY <2>1, <2>2, AcceptPuts
  <2>5. HoldsName(d, n) /\ ~Holds(calls[x])
      BY <1>1, <2>3 DEF HoldsName, Holds
  <2>6. PassesNames(x, d)
    <3>1. \A m \in Name : m # n => unamerole'[m] = unamerole[m]
        BY <2>1 DEF Typed, TypeOK
    <3>. QED BY <2>1, <2>5, <3>1 DEF PassesNames, Taken, HoldsName
  <2>7. PassesIds(x, d)
      BY <2>1, <2>5 DEF PassesIds, Exists, Known, HoldsId
  <2>8. TouchesOwn(x)
      BY <2>1 DEF TouchesOwn, Exists
  <2>. QED BY <1>1, <2>3, <2>4, <2>6, <2>7, <2>8, StepKeeps
           DEF Waited, Confirms, AsksToDelete, MeetsNoDeletion
<1>. QED BY <1>3, <1>4

LEMMA ServeDBCreateKeeps ==
    ASSUME Typed, IdsInv, Kept, NEW x \in Xid, ServeDBCreate(x)
    PROVE  Kept'
<1>1. /\ calls[x] # NoCall /\ Formed(calls[x]) /\ calls[x].kind = "DBCreateRole"
      /\ calls[x].phase = "sent" /\ calls[x].role \in Role /\ calls[x].name \in Name
      /\ calls[x].zone \in Zone
    BY DEF ServeDBCreate, Reaches, Typed, Formed, Call, Kept, RequestsSound, Waited, OneWay
<1>2. PICK r \in Role, n \in Name, z \in Zone :
          r = calls[x].role /\ n = calls[x].name /\ z = calls[x].zone
    BY <1>1
<1>3. HoldsName(calls[x], n) /\ HoldsId(calls[x], r)
    BY <1>1, <1>2 DEF HoldsName, HoldsId, Holds
<1>4. ~Exists(z, r)
    BY <1>3 DEF IdsInv, IdsHeldOnce
<1>5. CASE Refuse(x)
    BY <1>1, <1>5, RefuseKeeps
<1>6. CASE ~Refuse(x)
  <2>1. /\ roles' = [roles EXCEPT ![z][r] = n] /\ UNCHANGED <<unamerole, uidrole, obsolete>>
        /\ Accept(x, NoName)
      BY <1>2, <1>4, <1>6 DEF ServeDBCreate, register
  <2>2. PICK d : d = Accepted(calls[x], calls[x].role, NoName)
      OBVIOUS
  <2>3. \A y \in Xid : calls'[y] = IF y = x THEN d ELSE calls[y]
      BY <2>1, <2>2, AcceptPuts
  <2>4. \A z1 \in Zone, q \in Role :
            roles'[z1][q] = IF z1 = z /\ q = r THEN n ELSE roles[z1][q]
      BY <2>1 DEF Typed, TypeOK
  <2>5. Taken(z, n)' /\ \A z1 \in Zone, m \in Name : Taken(z1, m) => Taken(z1, m)'
      BY <1>4, <2>1, <2>4, DistinctValues DEF Taken, Exists
  <2>6. Exists(z, r)' /\ \A z1 \in Zone, q \in Role : Exists(z1, q) => Exists(z1, q)'
      BY <2>4, DistinctValues DEF Exists
  <2>7. PassesNames(x, d)
    <3>1. \A m \in Name : HoldsName(calls[x], m) => m = n
        BY <1>1, <1>2 DEF HoldsName
    <3>. QED BY <2>1, <2>5, <3>1 DEF PassesNames
  <2>8. PassesIds(x, d)
    <3>1. \A q \in Role : HoldsId(calls[x], q) => q = r
        BY <1>2 DEF HoldsId
    <3>. QED BY <2>1, <2>6, <3>1 DEF PassesIds, Known
  <2>9. TouchesOwn(x)
      BY <1>4, <2>1, <2>4 DEF TouchesOwn, Exists
  <2>10. Confirms(d) => Written(d)'
    <3>1. Confirms(d) => d.name = n /\ d.zone = z /\ d.role = r /\ d.found = NoName
        BY <1>1, <1>2, <2>2, AcceptanceAsks
    <3>. QED BY <2>4, <3>1 DEF Written
  <2>11. Waited(d) /\ ~AsksToDelete(d) /\ MeetsNoDeletion(x, d)
      BY <1>1, <2>2, AcceptanceAsks
  <2>. QED BY <2>3, <2>7, <2>8, <2>9, <2>10, <2>11, StepKeeps
<1>. QED BY <1>5, <1>6

LEMMA ServeDBDeleteKeeps ==
    ASSUME Typed, Kept, NEW x \in Xid, ServeDBDelete(x)
    PROVE  Kept'
<1>1. /\ calls[x] # NoCall /\ Formed(calls[x]) /\ calls[x].kind = "DBDeleteRole"
      /\ calls[x].phase = "sent" /\ calls[x].role \in Role /\ calls[x].zone \in Zone
    BY DEF ServeDBDelete, Reaches, Typed, Formed, Call, Kept, RequestsSound, Waited, OneWay
<1>2. PICK r \in Role, z \in Zone : r = calls[x].role /\ z = calls[x].zone
    BY <1>1
<1>3. Exists(z, r) /\ About(z, r) = {x}
    BY <1>1, <1>2 DEF Kept, RequestsSound, AsksToDelete
<1>4. PICK n \in Name : n = roles[z][r]
    BY <1>3 DEF Exists, Typed, TypeOK
<1>5. /\ roles' = [roles EXCEPT ![z][r] = NoName] /\ UNCHANGED <<unamerole, uidrole, obsolete>>
      /\ Accept(x, n)
    BY <1>2, <1>3, <1>4 DEF ServeDBDelete, Deletes, register
<1>6. PICK d : d = Accepted(calls[x], calls[x].role, n)
    OBVIOUS
<1>7. /\ d # NoCall /\ d.kind = "DBDeleteRole" /\ d.phase = "answered" /\ d.ok
      /\ d.role = r /\ d.found = n
    BY <1>1, <1>2, <1>6, AcceptanceIs
<1>8. \A y \in Xid : calls'[y] = IF y = x THEN d ELSE calls[y]
    BY <1>5, <1>6, AcceptPuts
<1>9. HoldsName(d, n) /\ HoldsId(d, r) /\ ~Holds(calls[x])
    BY <1>1, <1>7 DEF HoldsName, HoldsId, Holds
<1>10. \A z1 \in Zone, q \in Role :
           roles'[z1][q] = IF z1 = z /\ q = r THEN NoName ELSE roles[z1][q]
    BY <1>5 DEF Typed, TypeOK
<1>11. PassesNames(x, d)
  <2>1. \A z1 \in Zone, m \in Name : Taken(z1, m) => m = n \/ Taken(z1, m)'
      BY <1>4, <1>5, <1>10 DEF Taken
  <2>. QED BY <1>5, <1>9, <2>1 DEF PassesNames, HoldsName
<1>12. PassesIds(x, d)
  <2>1. \A z1 \in Zone, q \in Role : Exists(z1, q) => q = r \/ Exists(z1, q)'
      BY <1>10 DEF Exists
  <2>. QED BY <1>5, <1>9, <2>1 DEF PassesIds, HoldsId, Known
<1>13. TouchesOwn(x)
    BY <1>3, <1>5, <1>10 DEF TouchesOwn, Exists
<1>14. Waited(d) /\ ~AsksToDelete(d) /\ MeetsNoDeletion(x, d) /\ ~Confirms(d)
    BY <1>1, <1>6, <1>7, AcceptanceAsks
<1>. QED BY <1>8, <1>11, <1>12, <1>13, <1>14, StepKeeps

LEMMA ServeDBRenameKeeps ==
    ASSUME Typed, Kept, NEW x \in Xid, ServeDBRename(x)
    PROVE  Kept'
<1>1. /\ calls[x] # NoCall /\ Formed(calls[x]) /\ calls[x].kind = "DBPlayerRename"
      /\ calls[x].phase = "sent" /\ calls[x].role \in Role /\ calls[x].name \in Name
      /\ calls[x].zone \in Zone
    BY DEF ServeDBRename, Reaches, Typed, Formed, Call, Kept, RequestsSound, Waited, OneWay
<1>2. PICK r \in Role, n \in Name, z \in Zone :
          r = calls[x].role /\ n = calls[x].name /\ z = calls[x].zone
    BY <1>1
<1>3. CASE Refuse(x)
    BY <1>1, <1>3, RefuseKeeps
<1>4. CASE ~Refuse(x)
  <2>1. /\ Exists(z, r)
        /\ roles' = [roles EXCEPT ![z][r] = n]
        /\ obsolete' = [obsolete EXCEPT ![z] = @ \cup {roles[z][r]}]
        /\ Accept(x, roles[z][r]) /\ UNCHANGED <<unamerole, uidrole>>
      BY <1>2, <1>4 DEF ServeDBRename, register
  <2>2. PICK f \in Name : f = roles[z][r]
      BY <2>1 DEF Exists, Typed, TypeOK
  <2>3. PICK d : d = Accepted(calls[x], calls[x].role, f)
      OBVIOUS
  <2>4. \A y \in Xid : calls'[y] = IF y = x THEN d ELSE calls[y]
    <3>1. Accept(x, f)
        BY <2>1, <2>2
    <3>. QED BY <2>3, <3>1, AcceptPuts
  <2>5. \A z1 \in Zone, q \in Role :
            roles'[z1][q] = IF z1 = z /\ q = r THEN n ELSE roles[z1][q]
      BY <2>1 DEF Typed, TypeOK
  <2>6. \A z1 \in Zone : obsolete'[z1] = IF z1 = z THEN obsolete[z] \cup {f} ELSE obsolete[z1]
      BY <2>1, <2>2 DEF Typed, TypeOK
  <2>7. Taken(z, n)' /\ \A z1 \in Zone, m \in Name : Taken(z1, m) => Taken(z1, m)'
      BY <2>2, <2>5, <2>6 DEF Taken
  <2>8. \A z1 \in Zone, q \in Role : Exists(z1, q) => Exists(z1, q)'
      BY <2>5, DistinctValues DEF Exists
  <2>9. PassesNames(x, d)
    <3>1. \A m \in Name : HoldsName(calls[x], m) => m = n
        BY <1>1, <1>2 DEF HoldsName
    <3>. QED BY <2>1, <2>7, <3>1 DEF PassesNames
  <2>10. PassesIds(x, d)
      BY <1>1, <2>1, <2>8 DEF PassesIds, Known, HoldsId
  <2>11. TouchesOwn(x)
      BY <2>2, <2>5, <2>6, <2>8 DEF TouchesOwn
  <2>12. Confirms(d) => Written(d)'
    <3>1. Confirms(d) => d.name = n /\ d.zone = z /\ d.role = r /\ d.kind = "DBPlayerRename"
        BY <1>1, <1>2, <2>3, AcceptanceAsks
    <3>. QED BY <2>5, <3>1 DEF Written
  <2>13. Waited(d) /\ ~AsksToDelete(d) /\ MeetsNoDeletion(x, d)
      BY <1>1, <2>3, AcceptanceAsks
  <2>. QED BY <2>4, <2>9, <2>10, <2>11, <2>12, <2>13, StepKeeps
<1>. QED BY <1>3, <1>4

-----------------------------------------------------------------------------
\* While there has been no fault, nothing is lost.
KeptSoFar == faults = 0 => Kept

LEMMA NextKeeps ==
    ASSUME Typed, IdsInv, KeptSoFar, Next
    PROVE  KeptSoFar'
<1>. SUFFICES ASSUME faults' = 0 PROVE Kept'
    BY DEF KeptSoFar
<1>1. CASE Fails
    BY <1>1 DEF Fails, Crash, Lose, TimesOutSilently, PostCreateTimesOut, Overdue, Fault, Typed, TypeOK
<1>2. CASE ~Fails
  <2>1. faults = 0
    <3>1. CASE Ask
      <4>1. faults \in Nat
          BY CountAssumption DEF Typed, TypeOK
      <4>2. PICK z \in Zone, n \in Name, x \in Xid :
                \/ \E u \in User : CreateRole(z, u, n, x)
                \/ \E r \in Role : DeleteRole(z, r, x) \/ Rename(z, r, n, x)
          BY <3>1 DEF Ask
      <4>3. ASSUME NEW r \in Role, DeleteRole(z, r, x) PROVE faults = 0
        <5>1. faults' = faults \/ faults' = faults + 1
            BY <4>3 DEF DeleteRole
        <5>. QED BY <4>1, <5>1
      <4>. QED BY <4>2, <4>3 DEF CreateRole, Rename
    <3>2. CASE Serve
      <4>1. ASSUME NEW x, NEW ok, NEW r, NEW f, Answer(x, ok, r, f) PROVE faults = 0
          BY <4>1 DEF Answer
      <4>2. ASSUME NEW x, \/ ServePreCreate(x) \/ ServePreRename(x) PROVE faults = 0
          BY <4>1, <4>2 DEF ServePreCreate, ServePreRename, Refuse, Accept
      <4>3. ASSUME NEW x, \/ ServeDBCreate(x) \/ ServeDBDelete(x) \/ ServeDBRename(x) PROVE faults = 0
          BY <4>1, <4>3 DEF ServeDBCreate, ServeDBDelete, Deletes, ServeDBRename, Refuse, Accept
      <4>4. ASSUME NEW x, \/ ServePostCreate(x) \/ ServePostCreateFailed(x) \/ ServePostDelete(x)
                          \/ ServePostRename(x) \/ ServePostRenameFailed(x)
            PROVE  faults = 0
          BY <4>1, <4>4
             DEF ServePostCreate, ServePostCreateFailed, ServePostDelete, ServePostRename,
                 ServePostRenameFailed, Accept
      <4>. QED BY <3>2, <4>2, <4>3, <4>4 DEF Serve
    <3>3. CASE Receive
        BY <3>3 DEF Receive, OnPreCreate, OnDBCreate, OnPostCreate, OnDBDelete, OnPreRename,
               OnDBRename, Sends
    <3>. QED BY <1>2, <3>1, <3>2, <3>3 DEF Next
  <2>2. Kept
      BY <2>1 DEF KeptSoFar
  <2>. QED BY <1>2, <2>1, <2>2, AskKeeps, ReceiveKeeps, ServePreCreateKeeps, ServePreRenameKeeps,
              ServeDBCreateKeeps, ServeDBDeleteKeeps, ServeDBRenameKeeps, ServePostKeeps
           DEF Next, Serve, Receive
<1>. QED BY <1>1, <1>2

\* Without crashes, losses and timeouts no name and no role id stays reserved for nobody: once
\* nothing is under way the register holds exactly what the databases do.
THEOREM NothingIsLost == OldUser = {} => (Spec => []AgreeAtRest)
<1>. SUFFICES ASSUME OldUser = {} PROVE Spec => []AgreeAtRest
    OBVIOUS
<1>1. Init => KeptSoFar
  <2>1. ASSUME Init PROVE Kept
    <3>1. (\A x \in Xid : calls[x] = NoCall) /\ (\A n \in Name : unamerole[n] = Free)
        BY <2>1 DEF Init
    <3>2. \A r \in Role : ~Known(r)
        BY <2>1 DEF Init, Known, Role
    <3>. QED BY <3>1, <3>2
             DEF Kept, RequestsSound, AllKept, Waited, Confirms, AsksToDelete
  <2>. QED BY <2>1 DEF KeptSoFar
<1>2. Typed /\ IdsInv /\ KeptSoFar /\ [Next]_vars => KeptSoFar'
  <2>1. ASSUME UNCHANGED vars, KeptSoFar PROVE KeptSoFar'
      BY <2>1 DEF vars, register, database, KeptSoFar, Kept, RequestsSound, AllKept, Waited, Confirms,
            Written, AsksToDelete, About, NameKept, IdKept, Known, Exists, Taken
  <2>. QED BY <2>1, NextKeeps
<1>3. IdsInv /\ KeptSoFar => AgreeAtRest
  <2>. SUFFICES ASSUME IdsInv, KeptSoFar, faults = 0, \A x \in Xid : calls[x] = NoCall
                PROVE  /\ \A n \in Name : unamerole[n] # Free => \E z \in Zone : Taken(z, n)
                       /\ \A u \in User, s \in Slot :
                              s \in uidrole[u] <=> \E z \in Zone : Exists(z, <<u, s>>)
      BY DEF AgreeAtRest
  <2>1. \A x \in Xid : (\A n : ~HoldsName(calls[x], n)) /\ (\A r : ~HoldsId(calls[x], r))
      BY DEF HoldsName, HoldsId
  <2>2. \A n \in Name : unamerole[n] # Free => \E z \in Zone : Taken(z, n)
      BY <2>1 DEF KeptSoFar, Kept, AllKept, NameKept
  <2>3. \A r \in Role : Known(r) <=> \E z \in Zone : Exists(z, r)
      BY <2>1 DEF KeptSoFar, Kept, AllKept, IdKept, IdsInv, IdsKnown, Known
  <2>4. ASSUME NEW u \in User, NEW s \in Slot
        PROVE  s \in uidrole[u] <=> \E z \in Zone : Exists(z, <<u, s>>)
      BY <2>3 DEF Role, Known
  <2>. QED BY <2>2, <2>4
<1>4. Spec => []IdsInv
    BY IdsInvariant
<1>. QED BY <1>1, <1>2, <1>3, <1>4, TypeCorrect, PTL DEF Spec
==================================================================================
