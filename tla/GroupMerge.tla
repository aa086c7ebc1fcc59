----------------------------- MODULE GroupMerge -----------------------------
(***************************************************************************)
(* The merge of two contact-group views, groups/merge.go: MergeGroups and  *)
(* winsOver.                                                               *)
(*                                                                         *)
(* A view (groupData) is a function from group ids to a group or NoGroup,  *)
(* and the set of tombstoned ids.  Times, names and sets of members are    *)
(* numbers: all that merging does with them is to compare them (names and  *)
(* member sets in the order of their canonical string).  "order" is the    *)
(* order in which the group lists its members: it is stored and uploaded,  *)
(* but canonical sorts the members, so merging does not see it.            *)
(***************************************************************************)
EXTENDS Integers

CONSTANTS
    Id,        \* group ids
    Time,      \* UpdatedAt values
    Name,      \* group names, in the order of canonical()
    Members,   \* sets of members, in the order of canonical()
    Order,     \* orders in which MemberIDs may list them
    NoGroup    \* "no group under this id"

Group == [at : Time, name : Name, members : Members, order : Order]

ASSUME GroupAssumption ==
    /\ Time \subseteq Int
    /\ Name \subseteq Int
    /\ Members \subseteq Int
    /\ NoGroup \notin Group

View == [groups : [Id -> Group \cup {NoGroup}], deleted : SUBSET Id]

EmptyView == [groups |-> [i \in Id |-> NoGroup], deleted |-> {}]

-----------------------------------------------------------------------------

\* canonical(g) > canonical(h); copies that list the same members tie.
CanonicalAfter(g, h) ==
    \/ g.name > h.name
    \/ g.name = h.name /\ g.members > h.members

\* Later UpdatedAt wins; a tie goes to the greater canonical content.
winsOver(g, cur) ==
    \/ g.at > cur.at
    \/ g.at = cur.at /\ CanonicalAfter(g, cur)

\* Two calls of take on one id: first the local copy, then the remote one.
TakeBoth(mine, theirs) ==
    IF theirs # NoGroup /\ (mine = NoGroup \/ winsOver(theirs, mine)) THEN theirs ELSE mine

\* Mutant of MergeGroups: a copy of the other side brings a deleted group back.
MergeIgnoringTombstones(a, b) ==
    [groups  |-> [i \in Id |-> TakeBoth(a.groups[i], b.groups[i])],
     deleted |-> a.deleted \cap b.deleted]

\* Groups union by id, tombstones union and win.
MergeGroups(a, b) ==
    LET gone == a.deleted \cup b.deleted IN
    [groups  |-> [i \in Id |-> IF i \in gone THEN NoGroup
                                            ELSE TakeBoth(a.groups[i], b.groups[i])],
     deleted |-> gone]

-----------------------------------------------------------------------------

\* A view holds no group it has tombstoned.
Clean(v) == \A i \in v.deleted : v.groups[i] = NoGroup

\* Two copies differ at most in the order in which they list their members.
SameCopy(g, h) ==
    \/ g = NoGroup /\ h = NoGroup
    \/ /\ g # NoGroup /\ h # NoGroup
       /\ g.at = h.at /\ g.name = h.name /\ g.members = h.members

SameGroups(v, w) ==
    /\ v.deleted = w.deleted
    /\ \A i \in Id : SameCopy(v.groups[i], w.groups[i])

\* View b knows everything view a does: each group of a is in b in this or a
\* winning version, or is deleted there.
Below(a, b) ==
    /\ a.deleted \subseteq b.deleted
    /\ \A i \in Id \ b.deleted :
          a.groups[i] # NoGroup =>
              b.groups[i] # NoGroup /\ ~winsOver(a.groups[i], b.groups[i])

=============================================================================
