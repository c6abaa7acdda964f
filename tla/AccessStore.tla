---------------------------- MODULE AccessStore ----------------------------
(***************************************************************************)
(* Who may use the dashboard: the members in access.json, linked to WorkOS *)
(* identities by id or, at their first sign-in, by e-mail, and the trading *)
(* accounts in accounts.json, each of one user.  A handler runs to its end *)
(* before the next one starts, but it writes one file after the other, and *)
(* each in place.                                                          *)
(***************************************************************************)
EXTENDS Integers, Functions

CONSTANTS
    Identities,     \* WorkOS user ids
    Placeholders,   \* ids of invited members who have not signed in
    Emails,
    AccountIds,
    Legacies,       \* ids of the users in users.json
    LegacyEmail,    \* their e-mails
    LegacyActive,   \* their active accounts
    LegacyAccounts, \* the accounts of users.json's time, each with its user
    Bootstrap,      \* ACCESS_BOOTSTRAP_EMAILS, none if it is not set
    Roles,          \* bound: those of ACCESS_ROLES that occur
    MaxCrashes,     \* bound on crashes of the API while it writes
    None

ASSUME AccessAssumption ==
    /\ Identities \intersect Placeholders = {}
    /\ Legacies \intersect (Identities \union Placeholders) = {}
    /\ None \notin Identities \union Placeholders \union Legacies
                   \union Emails \union AccountIds
    /\ LegacyEmail \in [Legacies -> Emails]
    /\ LegacyActive \in [Legacies -> AccountIds \union {None}]
    /\ DOMAIN LegacyAccounts \subseteq AccountIds
    /\ \A a \in DOMAIN LegacyAccounts : LegacyAccounts[a] \in Legacies
    /\ Bootstrap \subseteq Emails
    /\ {"owner", "trader"} \subseteq Roles
    /\ Roles \subseteq {"owner", "admin", "trader", "viewer"}
    /\ MaxCrashes \in Nat

VARIABLES
    members,    \* access.json, a function on the ids of the records
    accounts,   \* accounts.json, the user of every account
    crashes

vars == <<members, accounts, crashes>>

AdminRoles == {"owner", "admin"}
States     == {"active", "disabled", "pending"}

Member ==
    [workos : Identities \union {None}, email : Emails, role : Roles,
     status : States, active : AccountIds \union {None}]

Empty == [x \in {} |-> None]     \* also what a torn file reads as

Put(f, x, v) == [y \in DOMAIN f \union {x} |-> IF y = x THEN v ELSE f[y]]

-----------------------------------------------------------------------------
(* The two files are written in place, accounts.json first and only if it  *)
(* changed.  A crash leaves the file being written unreadable, which reads *)
(* as empty, and the later one unwritten.                                  *)
Save(acs, mbs) ==
    \/ accounts' = acs /\ members' = mbs /\ UNCHANGED crashes
    \/ /\ crashes < MaxCrashes
       /\ crashes' = crashes + 1
       /\ \/ accounts' = acs /\ members' \in {members, Empty}
          \/ acs # accounts /\ accounts' \in {accounts, Empty} /\ UNCHANGED members

SaveMembers(mbs) == Save(accounts, mbs)

IsActiveOwner(m) == members[m].role = "owner" /\ members[m].status = "active"
ActiveOwners     == {m \in DOMAIN members : IsActiveOwner(m)}      \* _owner_count

ByEmail(e)    == {m \in DOMAIN members : members[m].email = e}
ByIdentity(w) ==
    IF w \in DOMAIN members THEN {w} ELSE {m \in DOMAIN members : members[m].workos = w}

\* Mutant: the accounts stay with the id the record had.
MigratedNone(old, new) == accounts

(* _migrate_legacy_accounts, and the active account it returns. *)
Migrated(old, new) ==
    [a \in DOMAIN accounts |-> IF accounts[a] = old THEN new ELSE accounts[a]]
ActiveOf(u) == IF u \in Legacies THEN LegacyActive[u] ELSE None

-----------------------------------------------------------------------------
(* resolve_workos_member: an identity that WorkOS has verified signs in.   *)

SignInKnown(w, e) ==
    \E m \in ByIdentity(w) :
        /\ members[m].status = "active"
        /\ SaveMembers([members EXCEPT ![m].email = e, ![m].workos = w])

\* Mutant: the record is put under its new id without leaving the old one.
RekeyedTwice(m, w, r) == Put(Put(members, m, r), w, r)

Rekeyed(m, w, r) ==
    [k \in (DOMAIN members \ {m}) \union {w} |-> IF k = w THEN r ELSE members[k]]

\* Mutant: a disabled member is linked and activated like an invited one.
LinkableAny(m) == TRUE

Linkable(m) == members[m].status # "disabled"

(* The record of the same e-mail, the first if there are several, becomes  *)
(* that of the identity.                                                   *)
SignInByEmail(w, e) ==
    /\ ByIdentity(w) = {}
    /\ \E m \in ByEmail(e) :
        /\ Linkable(m)
        /\ LET old == members[m]
               new == [workos |-> w, email |-> e, role |-> old.role, status |-> "active",
                       active |-> IF old.active # None THEN old.active ELSE ActiveOf(m)]
           IN  Save(Migrated(m, w), Rekeyed(m, w, new))

\* Mutant: whoever signs up with a reserved e-mail is an owner.
FirstRoleReserved(e) == IF e \in Bootstrap \/ Bootstrap = {} THEN "owner" ELSE "trader"

FirstRole(e) ==
    IF ActiveOwners = {} /\ (Bootstrap = {} \/ e \in Bootstrap) THEN "owner" ELSE "trader"

(* Neither is known: self-service, with the accounts of the legacy user. *)
SignUp(w, e) ==
    /\ ByIdentity(w) = {} /\ ByEmail(e) = {}
    /\ LET legacy == {l \in Legacies : LegacyEmail[l] = e}
           New(active) == [workos |-> w, email |-> e, role |-> FirstRole(e),
                           status |-> "active", active |-> active]
       IN  \/ legacy = {} /\ SaveMembers(Put(members, w, New(None)))
           \/ \E l \in legacy :
                Save(Migrated(l, w), Put(members, w, New(ActiveOf(l))))

SignIn(w, e) == SignInKnown(w, e) \/ SignInByEmail(w, e) \/ SignUp(w, e)

-----------------------------------------------------------------------------
(* What administrators do.  A request is of a member who is active now.    *)

Acts(w)    == w \in DOMAIN members /\ members[w].status = "active"
IsAdmin(w) == Acts(w) /\ members[w].role \in AdminRoles

Invite(e, r) ==
    \/ /\ ByEmail(e) = {}
       /\ \E p \in Placeholders \ DOMAIN members :
            SaveMembers(Put(members, p,
                [workos |-> None, email |-> e, role |-> r, status |-> "pending",
                 active |-> None]))
    \/ \E m \in ByEmail(e) :
            SaveMembers([members EXCEPT ![m].role = r, ![m].status =
                IF members[m].workos = None THEN "pending" ELSE "active"])

AddMember(w, e, r) == IsAdmin(w) /\ Invite(e, r)

\* Mutant: any other owner will do, active or not.
LastOwnerOfAny(m, role) ==
    role = "owner" /\ \A k \in DOMAIN members \ {m} : members[k].role # "owner"

(* _is_last_active_owner, of a member who has the role by now. *)
LastOwner(m, role) == role = "owner" /\ ActiveOwners \ {m} = {}

(* The role, the status or both; None leaves one alone. *)
Update(m, r, st) ==
    LET role == IF r = None THEN members[m].role ELSE r
    IN  /\ r \notin {None, "owner"} => ~LastOwner(m, members[m].role)
        /\ st \notin {None, "active"} => ~LastOwner(m, role)
        /\ SaveMembers([members EXCEPT ![m].role = role,
                            ![m].status = IF st = None THEN @ ELSE st])

PatchMember(w, m, r, st) == IsAdmin(w) /\ m \in DOMAIN members /\ Update(m, r, st)

Remove(m) ==
    /\ ~LastOwner(m, members[m].role)
    /\ SaveMembers([k \in DOMAIN members \ {m} |-> members[k]])

(* WorkOS deletes the user or revokes the invitation first; if it fails, *)
(* nothing changes here.                                                 *)
DeleteMember(w, m) == IsAdmin(w) /\ m \in DOMAIN members /\ Remove(m)

-----------------------------------------------------------------------------
(* What members do with their trading accounts.                            *)

Owned(w, acs) == {a \in DOMAIN acs : acs[a] = w}

WithActive(w, a) == [members EXCEPT ![w].active = a]

(* The first account of a user becomes the active one. *)
CreateAccount(w, a) ==
    Save(Put(accounts, a, w),
         IF Owned(w, accounts) = {} THEN WithActive(w, a) ELSE members)

AddAccount(w, a) == Acts(w) /\ a \in AccountIds \ DOMAIN accounts /\ CreateAccount(w, a)

SetActive(w, a) ==
    /\ Acts(w) /\ a \in Owned(w, accounts)
    /\ SaveMembers(WithActive(w, a))

(* A request that names no account, when the active one is not (or no      *)
(* longer) one of the member.                                              *)
PreferAnother(w) ==
    /\ Acts(w) /\ members[w].active \notin Owned(w, accounts)
    /\ \E a \in Owned(w, accounts) : SaveMembers(WithActive(w, a))

-----------------------------------------------------------------------------
Init ==
    /\ members = Empty
    /\ accounts = LegacyAccounts
    /\ crashes = 0

Next ==
    \E w \in Identities :
        \/ \E e \in Emails :
            \/ SignIn(w, e)
            \/ \E r \in Roles : AddMember(w, e, r)
        \/ \E m \in DOMAIN members :
            \/ \E r \in Roles \union {None}, st \in States \union {None} : PatchMember(w, m, r, st)
            \/ DeleteMember(w, m)
        \/ \E a \in AccountIds : AddAccount(w, a) \/ SetActive(w, a)
        \/ PreferAnother(w)

Spec == Init /\ [][Next]_vars

-----------------------------------------------------------------------------
(* The files have the fields the code reads. *)
TypeOK ==
    /\ DOMAIN members \subseteq Identities \union Placeholders
    /\ members \in [DOMAIN members -> Member]
    /\ DOMAIN accounts \subseteq AccountIds
    /\ \A a \in DOMAIN accounts : accounts[a] \in Identities \union Legacies
    /\ crashes \in 0..MaxCrashes

(* However sign-ins, invitations and e-mails that change hands interleave,  *)
(* with crashes anywhere, a WorkOS identity has one record, filed under its *)
(* id, and no other record claims it (resolve_workos_member).               *)
OneRecordPerIdentity ==
    \A m \in DOMAIN members :
        members[m].workos = IF m \in Identities THEN m ELSE None

Invited == \E e \in Emails, r \in Roles : Invite(e, r)

ByAdmin ==
    \/ Invited
    \/ \E m \in DOMAIN members :
        \/ \E r \in Roles \union {None}, st \in States \union {None} : Update(m, r, st)
        \/ Remove(m)

(* "At least one active owner is required" (access_store.py:378): whoever  *)
(* signs in under whatever e-mail and whatever administrators update or    *)
(* remove, in any order, an active owner remains.  Exempt is a crash, and  *)
(* an invitation, which may demote the last one (access_store.py:333); it  *)
(* is known by what it does, so a change of the role alone that does the   *)
(* same is exempt too.                                                     *)
OwnerRemains ==
    [][ActiveOwners # {} /\ ActiveOwners' = {} /\ crashes' = crashes => Invited]_vars

Owners == {m \in DOMAIN members : members[m].role = "owner"}

(* Signing in makes nobody an active owner while there is one, except in    *)
(* the place of an owner.  The record that is not disabled and has the      *)
(* e-mail passes to the identity that signs in (access_store.py:209-236):   *)
(* an invitation, but also the record of an owner who left that e-mail,     *)
(* since nothing checks that it is linked already.  The former holder then  *)
(* is no owner any more: it is a succession and never one owner more.       *)
OwnersAreAppointed ==
    [][\A w \in Identities :
        ActiveOwners # {} /\ w \in ActiveOwners' \ ActiveOwners =>
            \/ ByAdmin
            \/ \E m \in Owners :
                /\ m \notin DOMAIN members' /\ members[m].status # "disabled"
                /\ members[m].email = members'[w].email]_vars

(* A disabled member stays disabled, whatever identity signs in with the   *)
(* e-mail and whatever e-mail the identity signs in with, until an         *)
(* administrator decides otherwise.                                        *)
DisabledStaysOut ==
    [][\A m \in DOMAIN members :
        members[m].status = "disabled" /\ crashes' = crashes =>
            (m \in DOMAIN members' /\ members'[m].status = "disabled") \/ ByAdmin]_vars

(* An account of a member is an account of a member after every step that  *)
(* does not remove them: none is orphaned when a record moves to another   *)
(* identity.                                                               *)
AccountsFollowTheirMember ==
    [][\A a \in DOMAIN accounts :
        accounts[a] \in DOMAIN members /\ crashes' = crashes =>
            \/ a \in DOMAIN accounts' /\ accounts'[a] \in DOMAIN members'
            \/ Remove(accounts[a])]_vars
=============================================================================
