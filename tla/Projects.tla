------------------------------ MODULE Projects ------------------------------
(***************************************************************************)
(* The projects keeper, src/x/projects/keeper/creation.go: projects of a *)
(* subscription, their keys, the developer-key registry, snapshots and  *)
(* deletion.                                                             *)
(*                                                                         *)
(* Both stores are fixation stores read at the current block; every     *)
(* operation reads and appends at the current block, so each store is     *)
(* modelled by its latest entry per index.  A project's index is          *)
(* <<subscription, name>> (ProjectIndex joins them).  project.AppendKey    *)
(* merges the types of a key already listed, so the keys of a project are *)
(* a set of <<key, type>> pairs.  Policies are copied, never inspected,   *)
(* and are left out.                                                      *)
(*                                                                         *)
(* Every operation runs inside a transaction (a message or the           *)
(* subscription module's handler): when it returns an error the writes it *)
(* made are discarded, so a failing operation leaves both stores as they *)
(* were.                                                                  *)
(***************************************************************************)
EXTENDS Naturals, Sequences, FiniteSets

CONSTANTS
    Subs,          \* subscription addresses (each is also a key)
    Keys,          \* every key that can be registered, Subs included
    Names,         \* project names a subscription owner may choose
    ValidNames,    \* the names NewProject accepts
    ADMIN_PROJECT_NAME,
    KeyLists,      \* the ProjectKeys lists a CreateProject call may carry
    MaxCu,         \* bound on a project's used CU
    MaxSnapshots,  \* bound on a project's snapshot counter
    NoProject      \* an absent entry

ADMIN     == "admin"
DEVELOPER == "developer"

ProjectIDs == Subs \X (Names \cup {ADMIN_PROJECT_NAME})

VARIABLES
    projects,   \* projectsFS: index -> project, or NoProject
    devKeys,    \* developerKeysFS: key -> ProjectID, or NoProject
    deleted,    \* the projects DeleteProject was called on (history)
    adminRefused \* subscriptions whose CreateAdminProject returned an error (history)

vars == <<projects, devKeys, deleted, adminRefused>>

Project == [enabled : BOOLEAN, keys : SUBSET (Keys \X {ADMIN, DEVELOPER}),
            usedCu : 0..MaxCu, snapshot : 0..MaxSnapshots]

TypeOK ==
    /\ projects \in [ProjectIDs -> Project \cup {NoProject}]
    /\ devKeys \in [Keys -> ProjectIDs \cup {NoProject}]
    /\ deleted \subseteq ProjectIDs
    /\ adminRefused \subseteq Subs

Init ==
    /\ projects = [p \in ProjectIDs |-> NoProject]
    /\ devKeys = [k \in Keys |-> NoProject]
    /\ deleted = {}
    /\ adminRefused = {}

(* Faulty variant: the registry entry records the project's           *)
(* subscription instead of its index.                                    *)
AddDeveloperKeySubscriptionID(k, pid, r) ==
    [r EXCEPT !.dev = [@ EXCEPT ![k] = pid[1]], !.keys = @ \cup {<<k, DEVELOPER>>}]

(* AddDeveloperKey (lines 98-110): the registry entry, then the key in   *)
(* the project.  r carries the project's keys and the registry so far.   *)
AddDeveloperKey(k, pid, r) ==
    [r EXCEPT !.dev = [@ EXCEPT ![k] = pid], !.keys = @ \cup {<<k, DEVELOPER>>}]

(* Faulty variant: a developer key owned by another project is not       *)
(* refused (the check of line 71 dropped).                               *)
RegisterKeyNoOwnerCheck(pk, pid, r) ==
    LET owner == r.dev[pk.key]
        r1    == IF ADMIN \in pk.types THEN [r EXCEPT !.keys = @ \cup {<<pk.key, ADMIN>>}] ELSE r
    IN CASE DEVELOPER \notin pk.types -> r1
         [] owner = NoProject -> AddDeveloperKey(pk.key, pid, r1)
         [] OTHER -> r1

(* RegisterKey (lines 56-92) for one ProjectKey, over its types.  An     *)
(* ADMIN type is appended (AddAdminKey, lines 94-96); a DEVELOPER type   *)
(* fails when the key belongs to another project and is added when it   *)
(* belongs to none.                                                       *)
RegisterKey(pk, pid, r) ==
    LET owner == r.dev[pk.key]
        r1    == IF ADMIN \in pk.types THEN [r EXCEPT !.keys = @ \cup {<<pk.key, ADMIN>>}] ELSE r
    IN CASE DEVELOPER \notin pk.types -> r1
         [] owner # NoProject /\ owner # pid -> [r1 EXCEPT !.err = TRUE]
         [] owner = NoProject -> AddDeveloperKey(pk.key, pid, r1)
         [] OTHER -> r1

(* The loop of lines 46-51: keys in order, stopping at the first error. *)
RECURSIVE RegisterKeys(_, _, _)
RegisterKeys(kl, pid, r) ==
    IF kl = <<>> \/ r.err THEN r
    ELSE RegisterKeys(Tail(kl), pid, RegisterKey(Head(kl), pid, r))

NewProject(en, keys) == [enabled |-> en, keys |-> keys, usedCu |-> 0, snapshot |-> 0]

(* Faulty variant: the keys registered before a failing one stay in the *)
(* developer-key registry.                                               *)
CreateProjectNoRevert(s, n, en, kl) ==
    LET pid == <<s, n>>
        r   == RegisterKeys(kl, pid, [err |-> FALSE, keys |-> {}, dev |-> devKeys])
        ok  == n \in ValidNames /\ projects[pid] = NoProject /\ ~r.err
    IN /\ projects' = IF ok THEN [projects EXCEPT ![pid] = NewProject(en, r.keys)] ELSE projects
       /\ devKeys' = IF ok \/ (n \in ValidNames /\ projects[pid] = NoProject) THEN r.dev ELSE devKeys
       /\ adminRefused' = IF n = ADMIN_PROJECT_NAME /\ ~ok THEN adminRefused \cup {s} ELSE adminRefused
       /\ UNCHANGED deleted

(* CreateProject (lines 25-54): NewProject checks the name, an existing *)
(* project of that index is refused, the keys are registered, and the   *)
(* project is appended.  An error discards every write.                 *)
CreateProject(s, n, en, kl) ==
    LET pid == <<s, n>>
        r   == RegisterKeys(kl, pid, [err |-> FALSE, keys |-> {}, dev |-> devKeys])
        ok  == n \in ValidNames /\ projects[pid] = NoProject /\ ~r.err
    IN /\ projects' = IF ok THEN [projects EXCEPT ![pid] = NewProject(en, r.keys)] ELSE projects
       /\ devKeys' = IF ok THEN r.dev ELSE devKeys
       /\ adminRefused' = IF n = ADMIN_PROJECT_NAME /\ ~ok THEN adminRefused \cup {s} ELSE adminRefused
       /\ UNCHANGED deleted

(* CreateAdminProject (lines 13-22), called by the subscription module  *)
(* when a subscription is bought: the admin project, enabled, with the  *)
(* subscription's address as its developer key.                          *)
CreateAdminProject(s) ==
    /\ projects[<<s, ADMIN_PROJECT_NAME>>] = NoProject
    /\ CreateProject(s, ADMIN_PROJECT_NAME, TRUE, <<[key |-> s, types |-> {DEVELOPER}]>>)

(* A project added by the owner of an existing subscription.            *)
AddProject(s) ==
    /\ projects[<<s, ADMIN_PROJECT_NAME>>] # NoProject
    /\ \E n \in Names, en \in BOOLEAN, kl \in KeyLists : CreateProject(s, n, en, kl)

(* Compute units charged to a project by relays (outside this file).    *)
ChargeCu(p) ==
    /\ projects[p] # NoProject
    /\ projects[p].usedCu < MaxCu
    /\ projects' = [projects EXCEPT ![p].usedCu = @ + 1]
    /\ UNCHANGED <<devKeys, deleted, adminRefused>>

(* SnapshotSubscriptionProjects (lines 113-121) with snapshotProject    *)
(* (lines 124-136) for every project of the subscription: used CU reset *)
(* and snapshot counter incremented.  The indices come from the store,  *)
(* so the lookup never fails and the panic is unreachable.              *)
SnapshotSubscriptionProjects(s) ==
    LET Own == {p \in ProjectIDs : p[1] = s /\ projects[p] # NoProject}
    IN /\ \A p \in Own : projects[p].snapshot < MaxSnapshots
       /\ projects' = [p \in ProjectIDs |->
                         IF p \in Own
                         THEN [projects[p] EXCEPT !.usedCu = 0, !.snapshot = @ + 1]
                         ELSE projects[p]]
       /\ UNCHANGED <<devKeys, deleted, adminRefused>>

(* DeleteProject (lines 138-150): a missing project is an error;        *)
(* otherwise the project is only disabled (the TODO at line 147).       *)
DeleteProject(p) ==
    /\ projects[p] # NoProject
    /\ projects' = [projects EXCEPT ![p].enabled = FALSE]
    /\ deleted' = deleted \cup {p}
    /\ UNCHANGED <<devKeys, adminRefused>>

Next ==
    \/ \E s \in Subs : CreateAdminProject(s) \/ AddProject(s) \/ SnapshotSubscriptionProjects(s)
    \/ \E p \in ProjectIDs : ChargeCu(p) \/ DeleteProject(p)

Spec == Init /\ [][Next]_vars

-----------------------------------------------------------------------------
(* A developer key belongs to exactly one project: the registry names   *)
(* the project that lists it, and a project lists as developer keys only *)
(* keys the registry gives to it, across any sequence of creations, some *)
(* failing part-way through their key list.                             *)
DeveloperKeyOwnership ==
    \A k \in Keys, p \in ProjectIDs :
        /\ devKeys[k] = p => projects[p] # NoProject /\ <<k, DEVELOPER>> \in projects[p].keys
        /\ projects[p] # NoProject /\ <<k, DEVELOPER>> \in projects[p].keys => devKeys[k] = p

(* Buying a subscription (CreateAdminProject) either creates an admin    *)
(* project that owns the owner's address as its developer key, or fails, *)
(* and it fails only because a project of another subscription already  *)
(* registered that address as a developer key (RegisterKey, line 71).   *)
AdminProjectOwnsOwnerKey ==
    [][\A s \in Subs :
         LET adm == <<s, ADMIN_PROJECT_NAME>>
         IN /\ projects[adm] = NoProject /\ projects'[adm] # NoProject
                  => devKeys'[s] = adm
            /\ s \notin adminRefused /\ s \in adminRefused'
                  => devKeys[s] # NoProject /\ devKeys[s][1] # s]_vars

(* Deleting a project releases its developer keys (the TODO at line     *)
(* 147), so they can be registered to another project.                  *)
DeletedProjectReleasesKeys ==
    \A k \in Keys : devKeys[k] \notin deleted
=============================================================================
