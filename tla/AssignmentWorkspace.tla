------------------------- MODULE AssignmentWorkspace -------------------------
(***************************************************************************)
(* AssignmentWorkspace (state/assignment_workspace.py): the shooting,      *)
(* melee and Stratagem declarations.  Which rows are chosen is abstracted  *)
(* to whether the declaration they make up is complete.                    *)
(***************************************************************************)
EXTENDS Protocol

Workspaces ==
    [req : Nat \ {0},               \* request_id
     kind : {"shooting", "melee", "stratagem"},
     actor : Player \cup {None},
     complete : BOOLEAN,            \* a payload and no diagnostic line
     declinable : BOOLEAN,          \* decline_payload is set
     editable : BOOLEAN]

ASSUME NoWorkspaceAssumption == None \notin Workspaces

(* is_assignment_parameterized_decision: the route's variants do not matter *)
Assignable(d) ==
    /\ d # None
    /\ d.form.parameterized
    /\ d.form.interaction \in {"entity_selection", "weapon_allocation_matrix"}
    /\ d.form.proposal \in {"shooting", "melee", "stratagem"}

(* A workspace is seeded with the engine's own candidates.  Seeding raises  *)
(* for no request: gaps in the payload become diagnostic lines.             *)
StartAssignment(d) ==
    IF Assignable(d)
    THEN [req |-> d.id, kind |-> d.form.proposal, actor |-> d.form.actor,
          complete |-> d.form.complete, declinable |-> d.form.declinable,
          editable |-> d.form.editable]
    ELSE None

(* mutant: a workspace of the same kind will do *)
IsForAnyAssignment(work, d) == d # None /\ d.form.proposal = work.kind /\ d.form.actor = work.actor

(* Neither the payload nor the projection the workspace was seeded from     *)
IsForAssignment(work, d) ==
    /\ d # None
    /\ d.id = work.req
    /\ d.form.proposal = work.kind
    /\ d.form.actor = work.actor

(* Choosing a row rebuilds the declaration, complete or not *)
WithChoice(work, complete) == [work EXCEPT !.complete = complete]
=============================================================================
