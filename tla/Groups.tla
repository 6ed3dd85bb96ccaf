------------------------------- MODULE Groups -------------------------------
(***************************************************************************)
(* The store of stereo pairs (bose_endpoints.cpp): speakers create, update *)
(* and delete groups, which live in RAM and are saved as one document.     *)
(* The speaker is answered 201 or 200 though the save failed.              *)
(***************************************************************************)
EXTENDS Naturals, FiniteSets

CONSTANTS Device,
          MaxId,     \* bound: groups created since the store was empty
          GroupEnvs  \* what may happen in a behaviour: sets of "unsaved", "reroled", "outside"

ASSUME GroupsAssumption == MaxId \in Nat

VARIABLES
  groups,    \* g_groups, by id: [id, master, members]; members have a role
  nextId,    \* g_next_group_id
  stored,     \* flash: bfx_groups/list
  persistOk, \* g_groupsPersistOk
  holds,     \* external: the id each speaker was given last, 0 for none
  groupEnv   \* what may happen in this behaviour

group == <<groups, nextId, stored, persistOk, holds, groupEnv>>

Store == [groups |-> groups, next |-> nextId]

GroupsInit ==
  /\ groups = {} /\ nextId = 1 /\ stored = [groups |-> {}, next |-> 1]
  /\ persistOk = TRUE /\ holds = [d \in Device |-> 0]
  /\ groupEnv \in GroupEnvs

\* groupsSave_, with what the save makes of the image
GroupsSave ==
  \/ stored' = Store' /\ persistOk' = TRUE
  \/ "unsaved" \in groupEnv /\ UNCHANGED stored /\ persistOk' = FALSE

\* Mutation of Stale: only a group of the same master is replaced.
StaleOfMaster(g) == {old \in groups : old.master = g.master}

\* The groups a new one replaces: the app does not delete the pair it takes apart.  Whether
\* the old master has a role in the new group is not asked.
Stale(g) ==
  {old \in groups : \/ old.master = g.master \/ g.master \in old.members
                   \/ old.members \cap g.members # {}}

\* The speakers that find themselves in a group (handleDeviceGroup).
In(g) == g.members \cup {g.master}

\* handleGroupCreate; a master without a role is accepted.
Create(master, members) ==
  LET g == [id |-> nextId, master |-> master, members |-> members]
  IN /\ nextId <= MaxId
     /\ master \in members \/ "outside" \in groupEnv
     /\ groups' = (groups \ Stale(g)) \cup {g}
     /\ nextId' = nextId + 1
     /\ GroupsSave
     /\ holds' = [d \in Device |-> IF d \in In(g) THEN g.id ELSE holds[d]]
     /\ UNCHANGED groupEnv

\* handleGroupUpdate: other groups are left alone, also if the new roles overlap them.  A
\* body may lack the master or the roles.
Update(d, members) ==
  /\ \E g \in groups :
       /\ g.id = holds[d]
       /\ members = g.members \/ (members # {} /\ "reroled" \in groupEnv)
       /\ \E master \in members \cup {g.master} :
            groups' = (groups \ {g}) \cup {[g EXCEPT !.master = master, !.members = members]}
  /\ UNCHANGED <<nextId, holds, groupEnv>>
  /\ GroupsSave

\* handleGroupDelete
Delete(d) ==
  /\ \E g \in groups : g.id = holds[d] /\ groups' = groups \ {g}
  /\ holds' = [holds EXCEPT ![d] = 0]
  /\ UNCHANGED <<nextId, groupEnv>>
  /\ GroupsSave

\* handleDeviceGroup: the speaker learns the first group it is a member of.
Get(d) ==
  /\ LET mine == {g \in groups : d \in In(g)}
     IN holds' = [holds EXCEPT ![d] =
          IF mine = {} THEN 0 ELSE (CHOOSE g \in mine : \A h \in mine : g.id <= h.id).id]
  /\ UNCHANGED <<groups, nextId, stored, persistOk, groupEnv>>

\* Mutation of Restart: the ids start anew.
RestartNumbering ==
  /\ groups' = stored.groups /\ nextId' = 1 /\ persistOk' = TRUE
  /\ UNCHANGED <<stored, holds, groupEnv>>

\* groupsInit_: the speakers remember their groups, the stick what it saved.
Restart ==
  /\ groups' = stored.groups /\ nextId' = stored.next /\ persistOk' = TRUE
  /\ UNCHANGED <<stored, holds, groupEnv>>

GroupsNext ==
  \/ \E d \in Device, members \in SUBSET Device : Create(d, members) \/ Update(d, members)
  \/ \E d \in Device : Delete(d) \/ Get(d)
  \/ Restart

-----------------------------------------------------------------------------
GroupsTypeOK ==
  /\ nextId \in 1..(MaxId + 1) /\ persistOk \in BOOLEAN
  /\ \A d \in Device : holds[d] \in 0..MaxId
  /\ \A g \in groups : g.id \in 1..MaxId /\ In(g) \subseteq Device

\* No update brings in the speaker of another group, which would prune nothing
\* (bose_endpoints.cpp:1399-1411).
RolesKept == "reroled" \notin groupEnv

\* A speaker is in one group only: a new pair "ERSETZT deshalb alle alten Eintraege, die ein
\* Mitglied teilen" (bose_endpoints.cpp:1361-1362).
MembersReplaced == RolesKept => \A g, h \in groups : In(g) \cap In(h) # {} => g = h

\* A speaker has a role in one group only, whatever pairs were formed and reformed without
\* being taken apart, whoever their masters are, and whichever saves and restarts fell in
\* between (bose_endpoints.cpp:1358-1380).  A master without a role may be in another group:
\* MembersReplaced does not hold.
OnePair == RolesKept => \A g, h \in groups : g.members \cap h.members # {} => g = h

\* The id a speaker was given names no group of others: its update or delete cannot hit
\* them (bose_endpoints.cpp:1382 and 1219).  After a failed save and a restart the ids are
\* given out again, which is the exception.
OwnGroup ==
  groupEnv = {} => \A g \in groups, d \in Device : holds[d] = g.id => d \in In(g)
=============================================================================
