---------------------------- MODULE AccessControl ----------------------------
(***************************************************************************)
(* The central owner/editor/viewer policy: which capability a membership   *)
(* gives in one knowledge base.  The API's services ask for capabilities,  *)
(* never for roles.  Capabilities a handler asks for after a read are left *)
(* out where the read already requires a membership and every role has     *)
(* them.                                                                   *)
(***************************************************************************)

\* KnowledgeBaseRole; NoRole stands for the absence of a membership row.
Owner == "owner"
Editor == "editor"
Viewer == "viewer"
NoRole == "none"

Memberships == {Owner, Editor, Viewer}
Roles == Memberships \cup {NoRole}

Capabilities == {"knowledge_base_create", "knowledge_base_read", "document_read",
                 "document_upload", "ingestion_job_read", "ingestion_job_retry"}

\* _AUTHENTICATED_CAPABILITIES and _ROLE_CAPABILITIES.
CapabilitiesFor(role) ==
  {"knowledge_base_create"} \cup
  CASE role \in {Owner, Editor} -> Capabilities
    [] role = Viewer -> {"knowledge_base_read", "document_read", "ingestion_job_read"}
    [] role = NoRole -> {}

\* require_capability: the operation may go on.
MayDo(role, capability) == capability \in CapabilitiesFor(role)

\* What the code answers a caller it refuses: 404 hides what the caller is no
\* member of, 403 tells a member that the role does not suffice.
Refusal(role) == IF role = NoRole THEN "not_found" ELSE "forbidden"
=============================================================================
