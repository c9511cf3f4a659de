----------------------------- MODULE LegacyClaim -----------------------------
(***************************************************************************)
(* Ownership of knowledge bases: POST /knowledge-bases creates one with    *)
(* its owner in a single transaction, and the operator command             *)
(* claim-legacy-knowledge-bases gives every knowledge base that has no     *)
(* membership at all (rows older than the access boundary) to one user.    *)
(* Several operators may run the command at once; PostgreSQL runs each     *)
(* statement on the rows committed when it starts.                         *)
(***************************************************************************)
EXTENDS AccessControl, FiniteSets, Naturals

CONSTANTS
  Operators,       \* runs of the command, one at a time each
  Principals,
  KnowledgeBases,
  Legacy,          \* the knowledge bases that predate memberships
  Nobody

ASSUME LegacyAssumption == Legacy \subseteq KnowledgeBases /\ Nobody \notin Operators

VARIABLES
  exists,     \* committed knowledge bases
  role,       \* role[p][k]
  active,     \* users with is_active
  advisory,   \* the holder of the claim's advisory lock
  claim       \* claim[o]: an operator's transaction

claimVars == <<exists, role, active, advisory, claim>>

NoClaim == [at |-> "idle", owner |-> Nobody, eligible |-> {}]

ClaimInit ==
  /\ exists = Legacy
  /\ role = [p \in Principals |-> [k \in KnowledgeBases |-> NoRole]]
  /\ active = Principals
  /\ advisory = Nobody
  /\ claim = [o \in Operators |-> NoClaim]

\* No membership row mentions k.
Unowned(k) == \A p \in Principals : role[p][k] = NoRole

\* The users row an operator's transaction holds FOR UPDATE.
LockedByOther(p, o) == \E q \in Operators \ {o} : claim[q].owner = p

--------------------------------------------------------------------------
\* add_with_owner: row and membership become visible together.  The membership's
\* foreign key waits for a claim that holds the user's row.
CreateKnowledgeBase(p, k) ==
  /\ MayDo(NoRole, "knowledge_base_create")
  /\ k \notin exists
  /\ \A o \in Operators : claim[o].owner # p
  /\ exists' = exists \cup {k}
  /\ role' = [role EXCEPT ![p][k] = Owner]
  /\ UNCHANGED <<active, advisory, claim>>

\* get_for_operator_by_email FOR UPDATE: an unknown or inactive owner ends the
\* command with an error, and --dry-run ends it with a count.
LockOwner(o, p) ==
  /\ claim[o].at = "idle"
  /\ ~LockedByOther(p, o)
  /\ p \in active
  /\ claim' = [claim EXCEPT ![o] = [NoClaim EXCEPT !.at = "owner_locked", !.owner = p]]
  /\ UNCHANGED <<exists, role, active, advisory>>

\* Mutant: no lock.
TakeNoLock(o) ==
  /\ claim[o].at = "owner_locked"
  /\ claim' = [claim EXCEPT ![o].at = "serialized"]
  /\ UNCHANGED <<exists, role, active, advisory>>

\* pg_advisory_xact_lock: held until the transaction ends.
TakeAdvisoryLock(o) ==
  /\ claim[o].at = "owner_locked"
  /\ advisory = Nobody
  /\ advisory' = o
  /\ claim' = [claim EXCEPT ![o].at = "serialized"]
  /\ UNCHANGED <<exists, role, active>>

\* INSERT ... SELECT reads the knowledge bases without membership.
SelectEligible(o) ==
  /\ claim[o].at = "serialized"
  /\ claim' = [claim EXCEPT ![o].at = "inserting",
                            ![o].eligible = {k \in exists : Unowned(k)}]
  /\ UNCHANGED <<exists, role, active, advisory>>

Freed(o) == IF advisory = o THEN Nobody ELSE advisory

\* The inserted rows become visible; ON CONFLICT DO NOTHING spares a membership
\* the same user has got meanwhile.
CommitClaim(o) ==
  /\ claim[o].at = "inserting"
  /\ role' = [role EXCEPT ![claim[o].owner] =
                [k \in KnowledgeBases |->
                   IF k \in claim[o].eligible /\ @[k] = NoRole THEN Owner ELSE @[k]]]
  /\ advisory' = Freed(o)
  /\ claim' = [claim EXCEPT ![o] = NoClaim]
  /\ UNCHANGED <<exists, active>>

\* Mutant: a lock of the session instead of the transaction survives it.
AbortClaimHolding(o) ==
  /\ claim[o].at # "idle"
  /\ claim' = [claim EXCEPT ![o] = NoClaim]
  /\ UNCHANGED <<exists, role, active, advisory>>

\* The command fails or dies: nothing of it is visible.
AbortClaim(o) ==
  /\ claim[o].at # "idle"
  /\ advisory' = Freed(o)
  /\ claim' = [claim EXCEPT ![o] = NoClaim]
  /\ UNCHANGED <<exists, role, active>>

\* An operator of the database takes a membership away, or makes a user
\* inactive, which waits for a claim that holds the user's row.
RemoveMembership(p, k) ==
  /\ role[p][k] # NoRole
  /\ role' = [role EXCEPT ![p][k] = NoRole]
  /\ UNCHANGED <<exists, active, advisory, claim>>

DeactivateUser(p) ==
  /\ p \in active
  /\ \A o \in Operators : claim[o].owner # p
  /\ active' = active \ {p}
  /\ UNCHANGED <<exists, role, advisory, claim>>

ClaimNext ==
  \/ \E p \in Principals, k \in KnowledgeBases : CreateKnowledgeBase(p, k) \/ RemoveMembership(p, k)
  \/ \E o \in Operators, p \in Principals : LockOwner(o, p)
  \/ \E o \in Operators :
       TakeAdvisoryLock(o) \/ SelectEligible(o) \/ CommitClaim(o) \/ AbortClaim(o)
  \/ \E p \in Principals : DeactivateUser(p)

ClaimSpec == ClaimInit /\ [][ClaimNext]_claimVars

\* A claim once begun runs to its end; nobody owes the command a start, and
\* lock queues are served, so a lock that keeps coming free is granted.
FairClaimSpec ==
  ClaimSpec /\ \A o \in Operators :
                 /\ SF_claimVars(TakeAdvisoryLock(o))
                 /\ WF_claimVars(SelectEligible(o) \/ CommitClaim(o))

--------------------------------------------------------------------------
\* The claim fails closed: ownership is only ever given to a knowledge base that
\* nobody is a member of when the rows become visible, and to an active user.  So two
\* operators never give one knowledge base to two users, however their runs overlap.
ClaimsOnlyUnowned ==
  [][\A p \in Principals, k \in exists :
       role[p][k] = NoRole /\ role'[p][k] = Owner => Unowned(k) /\ p \in active]_claimVars

\* A claim that has locked its owner ends: claims do not wait for each other in
\* a circle, whichever users they name.
ClaimsEnd == \A o \in Operators : claim[o].at # "idle" ~> claim[o].at = "idle"
==========================================================================
