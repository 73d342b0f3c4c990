----------------------------- MODULE Permissions -----------------------------
(***************************************************************************)
(* Workspace roles and what they may do                                    *)
(* (backend/services/permission_service.py).  A membership is stored as a  *)
(* string, "editor" or "suspended:editor"; here it is a record.            *)
(***************************************************************************)
EXTENDS Naturals

RoleOrder == <<"viewer", "editor", "admin", "owner">>
Roles == {"viewer", "editor", "admin", "owner"}

\* A row of memberships, told from the others by its identifier; the role of
\* somebody who has no row is NotAMember.
NotAMember == "none"
Membership == [role: Roles \cup {NotAMember}, suspended: BOOLEAN, id: Nat]
NoMembership == [role |-> NotAMember, suspended |-> FALSE, id |-> 0]

\* What an editor has in common with the viewer, and an admin with the owner.
Look == {"read"}
Edit == {"read", "create", "update"}
Full == {"read", "create", "update", "delete", "manage"}

\* ROLE_PERMISSIONS, one function per role.
ViewerMay ==
    [workflow |-> {"read", "execute"}, workflow_run |-> {"read", "create"},
     template |-> Look, model_provider |-> {}, secret |-> {}, api_key |-> {},
     member |-> {}, workspace |-> Look, audit_log |-> {}, knowledge_base |-> Look]

EditorMay ==
    [ViewerMay EXCEPT !.workflow = Edit \cup {"execute"}, !.template = Edit,
                      !.knowledge_base = Edit]

AdminMay ==
    [workflow |-> Full \cup {"execute", "export"},
     workflow_run |-> {"read", "create", "delete", "export"},
     template |-> Full, model_provider |-> Full, secret |-> Full, api_key |-> Full,
     member |-> Full, workspace |-> {"read", "update", "manage"},
     audit_log |-> {"read", "export"}, knowledge_base |-> Full]

OwnerMay ==
    [AdminMay EXCEPT !.workflow_run = @ \cup {"manage"}, !.workspace = @ \cup {"delete"}]

Resources == DOMAIN ViewerMay

RolePermissions ==
    [viewer |-> ViewerMay, editor |-> EditorMay, admin |-> AdminMay, owner |-> OwnerMay]

Rank(role) == CHOOSE i \in DOMAIN RoleOrder : RoleOrder[i] = role

\* is_at_least_role and is_admin_role
IsAtLeastRole(role, required) == Rank(role) >= Rank(required)
IsAdminRole(role) == role \in {"admin", "owner"}

\* check_permission
CheckPermission(role, resource, action) ==
    role \in Roles /\ resource \in Resources /\ action \in RolePermissions[role][resource]

\* get_user_role_in_workspace: a suspended membership counts as none.
EffectiveRole(m) == IF m.suspended THEN NotAMember ELSE m.role

\* require_permission: the request goes on.
MayRequest(m, resource, action) == CheckPermission(EffectiveRole(m), resource, action)

=============================================================================
