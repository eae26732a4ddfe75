------------------------------ MODULE Accounts ------------------------------
(***************************************************************************)
(* Role changes and deactivation of accounts                               *)
(* (service/accountTransition.service.ts).  One SERIALIZABLE transaction   *)
(* behind an advisory lock shared with assignment-set creation and         *)
(* reassignment, which moves the untouched assignments of an account that  *)
(* loses the ability to work on them.                                      *)
(***************************************************************************)
EXTENDS AssessmentTables

accountFrame == <<submission, answers, page, flagVars, payVars, paymentEnabled, request>>

\* Mutant: a deactivation moves nothing.
RequiresTransferOfRole(u, newRole, deactivate) ==
  newRole = "STUDENT" /\ role[u] \in {"EXAMINER", "ADMIN"}

\* requiresAssignmentTransfer
RequiresTransfer(u, newRole, deactivate) ==
  \/ deactivate
  \/ newRole = "STUDENT" /\ role[u] \in {"EXAMINER", "ADMIN"}

\* readTargetAssignments: the assignments of a VOIDED Submission are closed work.
OpenAssignments(u) ==
  {a \in Assignments : /\ assignment[a].examiner = u
                       /\ submission[a[1]].status # "VOIDED"
                       /\ IsOpenWork(a)}

\* Mutant: begun work moves with the rest.
IsUnfinished(a) == IsOpenWork(a)

IsUntouched(a) == assignment[a].status = "ASSIGNED" /\ assignment[a].score = None

\* The reassignment map: one replacement per open assignment, each at most once,
\* eligible and outside the assignment set.
IsReplacementMap(map, u) ==
  /\ \A a \in OpenAssignments(u) :
       /\ IsActive(map[a], "EXAMINER")
       /\ map[a] # submission[a[1]].owner
       /\ map[a] \notin {u, assignment[Peer(a)].examiner}
  /\ \A a, b \in OpenAssignments(u) : map[a] = map[b] => a = b

\* The last active administrator stays.
KeepsAnAdmin(u) == \E v \in Users \ {u} : IsActiveAdmin(v)

(***************************************************************************)
(* transitionInsideTransaction for one target.  A replay of a transition   *)
(* that is already applied changes nothing and is left out.                *)
(***************************************************************************)
Transition(admin, u, newRole, deactivate) ==
  /\ IsActiveAdmin(admin)
  /\ active[u]
  /\ (role[u] = "ADMIN" /\ (deactivate \/ newRole # "ADMIN")) => KeepsAnAdmin(u)
  /\ \/ /\ ~RequiresTransfer(u, newRole, deactivate)
        /\ UNCHANGED assignment
     \/ /\ RequiresTransfer(u, newRole, deactivate)
        /\ \A a \in OpenAssignments(u) : IsUntouched(a)
        /\ \E map \in [OpenAssignments(u) -> Users] :
             /\ IsReplacementMap(map, u)
             /\ assignment' = [a \in Assignments |->
                  IF a \in OpenAssignments(u)
                    THEN [assignment[a] EXCEPT !.examiner = map[a]]
                    ELSE assignment[a]]
  /\ role' = [role EXCEPT ![u] = newRole]
  /\ active' = [active EXCEPT ![u] = ~deactivate]
  /\ UNCHANGED accountFrame

\* An Admin never changes the own role.
TransitionAccountRole(admin, u, newRole) ==
  /\ admin # u
  /\ role[u] # newRole
  /\ Transition(admin, u, newRole, FALSE)

DeactivateAccount(admin, u) == Transition(admin, u, role[u], TRUE)

AccountsNext ==
  \E admin \in Users, u \in Movable :
    \/ \E newRole \in Roles : TransitionAccountRole(admin, u, newRole)
    \/ DeactivateAccount(admin, u)
=============================================================================
