----------------------------- MODULE Memberships -----------------------------
(***************************************************************************)
(* Groups and their members: GroupsService, MembershipsService, the part   *)
(* of SavingsService that founds a group, and the two places that decide   *)
(* what a member may do.  A handler is the reads that can refuse, taken as *)
(* one step, and the write that follows; no transaction joins them.        *)
(***************************************************************************)
EXTENDS Accounts

CONSTANTS
    Group,          \* ids of groups rows
    Role,           \* roles in play
    MemberCaller    \* requests in flight at once

VARIABLES
    group,          \* rows of groups
    member,         \* rows of group_members: one at most per user and group
    memberCall,     \* the handler each caller is running
    lapsed          \* history: users who had a membership that was not ACTIVE

memberVars == <<group, member, memberCall, lapsed>>

\* A SECRETARY may do what a MEMBER may; no code tells PENDING and SUSPENDED
\* from LEFT.
MemberStatus == {"ACTIVE", "LEFT"}
GroupType == {"SAVINGS", "GROCERY"}

GroupRow == [type : GroupType, deleted : BOOLEAN]
MemberRow == [role : Role, status : MemberStatus, deleted : BOOLEAN]

MemberCall ==
    [pc : {"found", "foundSavings"}, group : Group, user : Person,
     type : GroupType]
    \cup [pc : {"join", "rejoin"}, group : Group, user : Person, role : Role]
    \cup [pc : {"update"}, group : Group, user : Person,
          role : Role \cup {None}, status : MemberStatus \cup {None}]
    \cup [pc : {"remove"}, group : Group, user : Person]
    \cup [pc : {"dissolve"}, group : Group]

ASSUME MembershipAssumption ==
    /\ Role \subseteq {"MEMBER", "TREASURER", "CHAIRPERSON"}
    /\ "CHAIRPERSON" \in Role
    /\ None \notin GroupRow \cup MemberRow

-----------------------------------------------------------------------------

MemberAt(c, pc) == memberCall[c] # None /\ memberCall[c].pc = pc

MemberReturn(c) == memberCall' = [memberCall EXCEPT ![c] = None]

MemberStart(c, call) ==
    /\ memberCall[c] = None
    /\ memberCall' = [memberCall EXCEPT ![c] = call]
    /\ UNCHANGED <<group, member, lapsed>>

\* A membership that is not deleted.
Present(g, u) == member[<<g, u>>] # None /\ ~ member[<<g, u>>].deleted

\* RolesGuard: an active membership, not deleted, in one of the roles.
GuardAllows(g, u, roles) ==
    /\ Present(g, u)
    /\ member[<<g, u>>].status = "ACTIVE"
    /\ member[<<g, u>>].role \in roles

\* validateMemberRole of the grocery module looks at the status alone.
GroceryAllows(g, u, roles) ==
    /\ member[<<g, u>>] # None
    /\ member[<<g, u>>].status = "ACTIVE"
    /\ member[<<g, u>>].role \in roles

\* The active chairs of a group.
Chairs(g) == {u \in Person : GuardAllows(g, u, {"CHAIRPERSON"})}

\* The savings groups a user chairs.
Chaired(u) ==
    {g \in Group : /\ group[g] # None
                   /\ group[g].type = "SAVINGS" /\ ~ group[g].deleted
                   /\ u \in Chairs(g)}

FreshGroup(g) ==
    /\ group[g] = None
    /\ \A d \in MemberCaller : memberCall[d] # None => memberCall[d].group # g

\* A new group with its creator as chairperson.
Found(g, type, u) ==
    /\ group' = [group EXCEPT ![g] = [type |-> type, deleted |-> FALSE]]
    /\ member' = [member EXCEPT ![<<g, u>>] =
          [role |-> "CHAIRPERSON", status |-> "ACTIVE", deleted |-> FALSE]]
    /\ UNCHANGED lapsed

\* The fields an update gives a value to are written, deleted row or not.
Given(new, old) == IF new = None THEN old ELSE new

-----------------------------------------------------------------------------
(* Groups. *)

\* GroupsService.create: who chairs a savings group may found no other.
ReadForGroup(c, g, type, u) ==
    /\ FreshGroup(g)
    /\ type = "SAVINGS" => Chaired(u) = {}
    /\ MemberStart(c, [pc |-> "found", group |-> g, user |-> u, type |-> type])

InsertGroup(c) ==
    /\ MemberAt(c, "found")
    /\ Found(memberCall[c].group, memberCall[c].type, memberCall[c].user)
    /\ MemberReturn(c)

\* Faulty variant: the check is left to the other way of founding a group.
ReadForSavingsGroupAlways(c, g, u) ==
    /\ FreshGroup(g)
    /\ MemberStart(c, [pc |-> "foundSavings", group |-> g, user |-> u,
                       type |-> "SAVINGS"])

\* createSavingsGroup makes the same check.
ReadForSavingsGroup(c, g, u) ==
    /\ FreshGroup(g)
    /\ Chaired(u) = {}
    /\ MemberStart(c, [pc |-> "foundSavings", group |-> g, user |-> u,
                       type |-> "SAVINGS"])

\* The group, its rules and its opening entry, in one transaction.
InsertSavingsGroup(c) ==
    /\ MemberAt(c, "foundSavings")
    /\ Found(memberCall[c].group, "SAVINGS", memberCall[c].user)
    /\ MemberReturn(c)

\* GroupsService.remove, by the chairperson.
ReadForDissolve(c, g, by) ==
    /\ group[g] # None /\ ~ group[g].deleted
    /\ GuardAllows(g, by, {"CHAIRPERSON"})
    /\ MemberStart(c, [pc |-> "dissolve", group |-> g])

Dissolve(c) ==
    /\ MemberAt(c, "dissolve")
    /\ group' = [group EXCEPT ![memberCall[c].group].deleted = TRUE]
    /\ MemberReturn(c)
    /\ UNCHANGED <<member, lapsed>>

-----------------------------------------------------------------------------
(* Members. *)

\* addMember: a membership that is not active is taken up again in the role
\* asked for, whatever the user chairs; a new chairperson of a savings group
\* may chair no other.
ReadForJoin(c, g, u, role, by) ==
    /\ GuardAllows(g, by, {"TREASURER", "CHAIRPERSON"})
    /\ Present(g, u) => member[<<g, u>>].status # "ACTIVE"
    /\ ~ Present(g, u) /\ role = "CHAIRPERSON" /\ group[g].type = "SAVINGS"
          => Chaired(u) = {}
    /\ MemberStart(c, [pc |-> IF Present(g, u) THEN "rejoin" ELSE "join",
                       group |-> g, user |-> u, role |-> role])

\* The row is inserted, or the unique index throws: it covers deleted rows.
Join(c) ==
    LET call == memberCall[c]
        row == <<call.group, call.user>>
    IN
    /\ MemberAt(c, "join")
    /\ member' = IF member[row] # None THEN member
                 ELSE [member EXCEPT ![row] = [role |-> call.role,
                          status |-> "ACTIVE", deleted |-> FALSE]]
    /\ MemberReturn(c)
    /\ UNCHANGED <<group, lapsed>>

Rejoin(c) ==
    LET call == memberCall[c] IN
    /\ MemberAt(c, "rejoin")
    /\ member' = [member EXCEPT ![<<call.group, call.user>>].status = "ACTIVE",
                                ![<<call.group, call.user>>].role = call.role]
    /\ MemberReturn(c)
    /\ UNCHANGED <<group, lapsed>>

\* The group has no other chair, and the user chairs no other savings group.
MayChair(g, u) == Chairs(g) \subseteq {u} /\ Chaired(u) \subseteq {g}

\* updateMember, by the chairperson; a change of status alone is not checked.
ReadForUpdateMember(c, g, u, role, status, by) ==
    /\ GuardAllows(g, by, {"CHAIRPERSON"})
    /\ Present(g, u)
    /\ role = "CHAIRPERSON" /\ group[g].type = "SAVINGS" => MayChair(g, u)
    /\ MemberStart(c, [pc |-> "update", group |-> g, user |-> u, role |-> role,
                       status |-> status])

UpdateMember(c) ==
    LET call == memberCall[c]
        row == <<call.group, call.user>>
    IN
    /\ MemberAt(c, "update")
    /\ member' = [member EXCEPT ![row].role = Given(call.role, @),
                                ![row].status = Given(call.status, @)]
    /\ lapsed' = IF call.status = "LEFT"
                 THEN lapsed \cup {call.user} ELSE lapsed
    /\ MemberReturn(c)
    /\ UNCHANGED group

\* removeMember, by the chairperson, of anyone but a chairperson.
ReadForRemove(c, g, u, by) ==
    /\ GuardAllows(g, by, {"CHAIRPERSON"})
    /\ Present(g, u)
    /\ member[<<g, u>>].role # "CHAIRPERSON"
    /\ MemberStart(c, [pc |-> "remove", group |-> g, user |-> u])

\* Faulty variant: the row is deleted and keeps its status.
RemoveMemberActive(c) ==
    LET row == <<memberCall[c].group, memberCall[c].user>> IN
    /\ MemberAt(c, "remove")
    /\ member' = [member EXCEPT ![row].deleted = TRUE]
    /\ lapsed' = lapsed \cup {memberCall[c].user}
    /\ MemberReturn(c)
    /\ UNCHANGED group

RemoveMember(c) ==
    LET row == <<memberCall[c].group, memberCall[c].user>> IN
    /\ MemberAt(c, "remove")
    /\ member' = [member EXCEPT ![row].status = "LEFT", ![row].deleted = TRUE]
    /\ lapsed' = lapsed \cup {memberCall[c].user}
    /\ MemberReturn(c)
    /\ UNCHANGED group

-----------------------------------------------------------------------------

MemberInit ==
    /\ group = [g \in Group |-> None]
    /\ member = [row \in Group \X Person |-> None]
    /\ memberCall = [c \in MemberCaller |-> None]
    /\ lapsed = {}

MemberNext ==
    \E c \in MemberCaller :
        \/ \E g \in Group, u \in Person :
              \/ \E type \in GroupType : ReadForGroup(c, g, type, u)
              \/ ReadForSavingsGroup(c, g, u)
              \/ ReadForDissolve(c, g, u)
              \/ \E by \in Person :
                    \/ \E role \in Role : ReadForJoin(c, g, u, role, by)
                    \/ \E role \in Role \cup {None},
                         status \in MemberStatus \cup {None} :
                          ReadForUpdateMember(c, g, u, role, status, by)
                    \/ ReadForRemove(c, g, u, by)
        \/ InsertGroup(c) \/ InsertSavingsGroup(c) \/ Dissolve(c)
        \/ Join(c) \/ Rejoin(c) \/ UpdateMember(c) \/ RemoveMember(c)

-----------------------------------------------------------------------------
(* Properties. *)

MemberTypeOK ==
    /\ group \in [Group -> GroupRow \cup {None}]
    /\ member \in [Group \X Person -> MemberRow \cup {None}]
    /\ memberCall \in [MemberCaller -> MemberCall \cup {None}]
    /\ lapsed \subseteq Person

\* With one caller nobody chairs two savings groups, through
\* foundings, additions, transfers and dissolutions, unless a membership of
\* theirs was not active for a while: taking it up again is not checked.
OneChairPerUser ==
    \A u \in Person \ lapsed : Cardinality(Chaired(u)) <= 1

\* With one caller the grocery module, which looks at the status
\* only, lets in whom RolesGuard lets in, which looks at deletedAt as well.
GuardsAgree ==
    \A g \in Group, u \in Person :
        GroceryAllows(g, u, Role) = GuardAllows(g, u, Role)

=============================================================================
