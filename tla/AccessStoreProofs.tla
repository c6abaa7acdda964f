------------------------- MODULE AccessStoreProofs -------------------------
(* What AccessStore keeps, for any identities, e-mails, accounts, roles and *)
(* number of crashes.                                                       *)
EXTENDS AccessStore, TLAPS

USE AccessAssumption DEF AccessAssumption

AInv == TypeOK /\ OneRecordPerIdentity

LEMMA InitAInv == Init => AInv
BY DEF Init, AInv, TypeOK, OneRecordPerIdentity, Empty

\* What a handler wants to write: records of the right type, each filed under
\* the identity it names.
Writable(acs, mbs) ==
    /\ DOMAIN mbs \subseteq Identities \union Placeholders
    /\ mbs \in [DOMAIN mbs -> Member]
    /\ \A m \in DOMAIN mbs : mbs[m].workos = IF m \in Identities THEN m ELSE None
    /\ DOMAIN acs \subseteq AccountIds
    /\ \A a \in DOMAIN acs : acs[a] \in Identities \union Legacies

\* Whatever part of it a crash lets through, the invariant is kept.
LEMMA SaveKeeps ==
    ASSUME AInv, NEW acs, NEW mbs, Writable(acs, mbs), Save(acs, mbs)
    PROVE  AInv'
<1>1. Writable(accounts, members)
  BY DEF AInv, TypeOK, OneRecordPerIdentity, Writable
<1>2. Writable(Empty, Empty)
  BY DEF Writable, Empty
<1>3. members' \in {members, mbs, Empty} /\ accounts' \in {accounts, acs, Empty}
  BY DEF Save
<1>4. crashes' \in 0..MaxCrashes
  BY DEF Save, AInv, TypeOK
<1>5. /\ DOMAIN members' \subseteq Identities \union Placeholders
      /\ members' \in [DOMAIN members' -> Member]
      /\ \A m \in DOMAIN members' : members'[m].workos = IF m \in Identities THEN m ELSE None
  BY <1>1, <1>2, <1>3 DEF Writable
<1>6. /\ DOMAIN accounts' \subseteq AccountIds
      /\ \A a \in DOMAIN accounts' : accounts'[a] \in Identities \union Legacies
  BY <1>1, <1>2, <1>3 DEF Writable
<1>7. QED
  BY <1>4, <1>5, <1>6 DEF AInv, TypeOK, OneRecordPerIdentity

\* The files as they are may be written again, and a record may be changed in
\* every field but the identity, or removed.
LEMMA SameIsWritable == AInv => Writable(accounts, members)
BY DEF AInv, TypeOK, OneRecordPerIdentity, Writable

LEMMA ChangeIsWritable ==
    ASSUME AInv, NEW m \in DOMAIN members, NEW r \in Member, r.workos = members[m].workos
    PROVE  Writable(accounts, [members EXCEPT ![m] = r])
BY SameIsWritable DEF Writable

\* A new record under an id that has none.
LEMMA PutIsWritable ==
    ASSUME AInv, NEW x \in (Identities \union Placeholders) \ DOMAIN members, NEW r \in Member,
           r.workos = (IF x \in Identities THEN x ELSE None)
    PROVE  Writable(accounts, Put(members, x, r))
<1>1. DOMAIN Put(members, x, r) = DOMAIN members \union {x}
  BY DEF Put
<1>2. \A y \in DOMAIN members \union {x} :
        Put(members, x, r)[y] = IF y = x THEN r ELSE members[y]
  BY DEF Put
<1>3. Put(members, x, r) \in [DOMAIN members \union {x} -> Member]
  BY SameIsWritable DEF Put, Writable
<1>4. QED
  BY <1>1, <1>2, <1>3, SameIsWritable DEF Writable

LEMMA MigratedIsWritable ==
    ASSUME AInv, NEW old, NEW w \in Identities, NEW mbs, Writable(accounts, mbs)
    PROVE  Writable(Migrated(old, w), mbs)
BY DEF Writable, Migrated

\* No record claims an identity that has none of its own.
LEMMA ByIdentityIsItself ==
    ASSUME AInv, NEW w \in Identities
    PROVE  ByIdentity(w) = IF w \in DOMAIN members THEN {w} ELSE {}
<1>1. \A m \in DOMAIN members : members[m].workos = w <=> m = w
  BY DEF AInv, TypeOK, OneRecordPerIdentity
<1>2. CASE w \in DOMAIN members
  BY <1>2 DEF ByIdentity
<1>3. CASE w \notin DOMAIN members
  <2>1. {m \in DOMAIN members : members[m].workos = w} = {}
    BY <1>1, <1>3
  <2>2. QED BY <1>3, <2>1 DEF ByIdentity
<1>4. QED BY <1>2, <1>3

LEMMA SignInKeeps ==
    ASSUME AInv, NEW w \in Identities, NEW e \in Emails, SignIn(w, e)
    PROVE  AInv'
<1>1. CASE SignInKnown(w, e)
  <2>1. PICK m \in ByIdentity(w) :
            SaveMembers([members EXCEPT ![m].email = e, ![m].workos = w])
    BY <1>1 DEF SignInKnown
  <2>2. m = w /\ w \in DOMAIN members
    BY <2>1, ByIdentityIsItself
  <2>3. /\ members[w] \in Member
        /\ members[w].workos = w
    BY <2>2 DEF AInv, TypeOK, OneRecordPerIdentity
  <2> DEFINE r == [[members[w] EXCEPT !.email = e] EXCEPT !.workos = w]
  <2>4. r \in Member /\ r.workos = w
    BY <2>3 DEF Member
  <2>5. [members EXCEPT ![m].email = e, ![m].workos = w] = [members EXCEPT ![w] = r]
    BY <2>2 DEF AInv, TypeOK
  <2>6. Writable(accounts, [members EXCEPT ![w] = r])
    BY <2>2, <2>3, <2>4, ChangeIsWritable
  <2>7. Save(accounts, [members EXCEPT ![w] = r])
    BY <2>1, <2>5 DEF SaveMembers
  <2>8. QED BY <2>6, <2>7, SaveKeeps
<1>2. CASE SignInByEmail(w, e)
  <2>1. PICK m \in ByEmail(e) :
            Save(Migrated(m, w),
                 Rekeyed(m, w, [workos |-> w, email |-> e, role |-> members[m].role,
                                status |-> "active",
                                active |-> IF members[m].active # None THEN members[m].active
                                           ELSE ActiveOf(m)]))
    BY <1>2 DEF SignInByEmail
  <2> DEFINE r == [workos |-> w, email |-> e, role |-> members[m].role, status |-> "active",
                   active |-> IF members[m].active # None THEN members[m].active
                              ELSE ActiveOf(m)]
  <2>2. m \in DOMAIN members /\ members[m] \in Member
    BY DEF ByEmail, AInv, TypeOK
  <2>3. r \in Member
    BY <2>2 DEF Member, ActiveOf, States
  <2>4. /\ DOMAIN Rekeyed(m, w, r) = (DOMAIN members \ {m}) \union {w}
        /\ \A k \in DOMAIN Rekeyed(m, w, r) :
              Rekeyed(m, w, r)[k] = IF k = w THEN r ELSE members[k]
        /\ Rekeyed(m, w, r) \in [DOMAIN Rekeyed(m, w, r) -> Member]
    BY <2>2, <2>3, SameIsWritable DEF Rekeyed, Writable
  <2>5. r.workos = w
    OBVIOUS
  <2>6. Writable(accounts, Rekeyed(m, w, r))
    <3> HIDE DEF r
    <3> QED BY <2>2, <2>4, <2>5, SameIsWritable DEF Writable
  <2>7. Save(Migrated(m, w), Rekeyed(m, w, r))
    BY <2>1
  <2> HIDE DEF r
  <2>8. QED BY <2>6, <2>7, MigratedIsWritable, SaveKeeps
<1>3. CASE SignUp(w, e)
  <2> DEFINE New(active) == [workos |-> w, email |-> e, role |-> FirstRole(e),
                             status |-> "active", active |-> active]
  <2>1. \A active \in AccountIds \union {None} : New(active) \in Member /\ New(active).workos = w
    BY DEF Member, FirstRole, States
  <2>2. w \in Identities \ DOMAIN members
    BY <1>3, ByIdentityIsItself DEF SignUp
  <2>3. \A active \in AccountIds \union {None} : Writable(accounts, Put(members, w, New(active)))
    <3> HIDE DEF New
    <3> QED BY <2>1, <2>2, PutIsWritable
  <2>4. \/ Save(accounts, Put(members, w, New(None)))
        \/ \E l \in Legacies : Save(Migrated(l, w), Put(members, w, New(ActiveOf(l))))
    BY <1>3 DEF SignUp, SaveMembers
  <2>5. \A l \in Legacies : ActiveOf(l) \in AccountIds \union {None}
    BY DEF ActiveOf
  <2> HIDE DEF New
  <2>6. \A l \in Legacies : Writable(Migrated(l, w), Put(members, w, New(ActiveOf(l))))
    BY <2>3, <2>5, MigratedIsWritable
  <2>7. QED BY <2>3, <2>4, <2>6, SaveKeeps
<1>4. QED BY <1>1, <1>2, <1>3 DEF SignIn

LEMMA InviteKeeps ==
    ASSUME AInv, NEW e \in Emails, NEW r \in Roles, Invite(e, r)
    PROVE  AInv'
<1>1. CASE \E p \in Placeholders \ DOMAIN members :
             Save(accounts, Put(members, p, [workos |-> None, email |-> e, role |-> r,
                                             status |-> "pending", active |-> None]))
  <2>1. PICK p \in Placeholders \ DOMAIN members :
             Save(accounts, Put(members, p, [workos |-> None, email |-> e, role |-> r,
                                             status |-> "pending", active |-> None]))
    BY <1>1
  <2> DEFINE new == [workos |-> None, email |-> e, role |-> r, status |-> "pending",
                     active |-> None]
  <2>2. new \in Member /\ new.workos = None
    BY DEF Member, States
  <2>3. Save(accounts, Put(members, p, new))
    BY <2>1
  <2> HIDE DEF new
  <2>4. Writable(accounts, Put(members, p, new))
    BY <2>2, PutIsWritable
  <2>5. QED BY <2>3, <2>4, SaveKeeps
<1>2. CASE \E m \in ByEmail(e) :
             Save(accounts, [members EXCEPT ![m].role = r, ![m].status =
                IF members[m].workos = None THEN "pending" ELSE "active"])
  <2>1. PICK m \in ByEmail(e) :
             Save(accounts, [members EXCEPT ![m].role = r, ![m].status =
                IF members[m].workos = None THEN "pending" ELSE "active"])
    BY <1>2
  <2>2. m \in DOMAIN members /\ members[m] \in Member
    BY DEF ByEmail, AInv, TypeOK
  <2> DEFINE new == [[members[m] EXCEPT !.role = r] EXCEPT !.status =
                        IF members[m].workos = None THEN "pending" ELSE "active"]
  <2>3. new \in Member /\ new.workos = members[m].workos
    BY <2>2 DEF Member, States
  <2>4. [members EXCEPT ![m].role = r, ![m].status =
                IF members[m].workos = None THEN "pending" ELSE "active"]
        = [members EXCEPT ![m] = new]
    BY <2>2 DEF AInv, TypeOK
  <2>5. Save(accounts, [members EXCEPT ![m] = new])
    BY <2>1, <2>4
  <2> HIDE DEF new
  <2>6. Writable(accounts, [members EXCEPT ![m] = new])
    BY <2>2, <2>3, ChangeIsWritable
  <2>7. QED BY <2>5, <2>6, SaveKeeps
<1>3. QED BY <1>1, <1>2 DEF Invite, SaveMembers

LEMMA UpdateKeeps ==
    ASSUME AInv, NEW m \in DOMAIN members, NEW r \in Roles \union {None},
           NEW st \in States \union {None}, Update(m, r, st)
    PROVE  AInv'
<1>1. members[m] \in Member
  BY DEF AInv, TypeOK
<1> DEFINE new == [[members[m] EXCEPT !.role = IF r = None THEN members[m].role ELSE r]
                       EXCEPT !.status = IF st = None THEN members[m].status ELSE st]
<1>2. new \in Member /\ new.workos = members[m].workos
  BY <1>1 DEF Member
<1>3. Save(accounts, [members EXCEPT ![m] = new])
  BY DEF Update, SaveMembers, AInv, TypeOK
<1> HIDE DEF new
<1>4. Writable(accounts, [members EXCEPT ![m] = new])
  BY <1>2, ChangeIsWritable
<1>5. QED BY <1>3, <1>4, SaveKeeps

LEMMA RemoveKeeps ==
    ASSUME AInv, NEW m \in DOMAIN members, Remove(m)
    PROVE  AInv'
<1>1. Writable(accounts, [k \in DOMAIN members \ {m} |-> members[k]])
  BY SameIsWritable DEF Writable
<1>2. QED BY <1>1, SaveKeeps DEF Remove, SaveMembers

LEMMA ActiveKeeps ==
    ASSUME AInv, NEW w \in DOMAIN members, NEW a \in AccountIds
    PROVE  Writable(accounts, WithActive(w, a))
<1>1. members[w] \in Member
  BY DEF AInv, TypeOK
<1> DEFINE new == [members[w] EXCEPT !.active = a]
<1>2. new \in Member /\ new.workos = members[w].workos
  BY <1>1 DEF Member
<1>3. WithActive(w, a) = [members EXCEPT ![w] = new]
  BY DEF WithActive, AInv, TypeOK
<1> HIDE DEF new
<1>4. Writable(accounts, [members EXCEPT ![w] = new])
  BY <1>2, ChangeIsWritable
<1>5. QED BY <1>3, <1>4

LEMMA AccountStepKeeps ==
    ASSUME AInv, NEW w \in Identities,
           \/ \E a \in AccountIds : AddAccount(w, a) \/ SetActive(w, a)
           \/ PreferAnother(w)
    PROVE  AInv'
<1>0. Owned(w, accounts) \subseteq AccountIds
  BY DEF Owned, AInv, TypeOK
<1>1. CASE \E a \in AccountIds : AddAccount(w, a)
  <2>1. PICK a \in AccountIds \ DOMAIN accounts : Acts(w) /\ CreateAccount(w, a)
    BY <1>1 DEF AddAccount
  <2>2. w \in DOMAIN members
    BY <2>1 DEF Acts
  <2>3. \A mbs : Writable(accounts, mbs) => Writable(Put(accounts, a, w), mbs)
    BY DEF Writable, Put
  <2>4. Writable(Put(accounts, a, w), members) /\ Writable(Put(accounts, a, w), WithActive(w, a))
    BY <2>2, <2>3, ActiveKeeps, SameIsWritable
  <2>5. \/ Save(Put(accounts, a, w), members)
        \/ Save(Put(accounts, a, w), WithActive(w, a))
    BY <2>1 DEF CreateAccount
  <2>6. QED BY <2>4, <2>5, SaveKeeps
<1>2. CASE \E a \in AccountIds : SetActive(w, a)
  <2>1. PICK a \in AccountIds : Acts(w) /\ Save(accounts, WithActive(w, a))
    BY <1>2 DEF SetActive, SaveMembers
  <2>2. QED BY <2>1, ActiveKeeps, SaveKeeps DEF Acts
<1>3. CASE PreferAnother(w)
  <2>1. PICK a \in AccountIds : Acts(w) /\ Save(accounts, WithActive(w, a))
    BY <1>0, <1>3 DEF PreferAnother, SaveMembers
  <2>2. QED BY <2>1, ActiveKeeps, SaveKeeps DEF Acts
<1>4. QED BY <1>1, <1>2, <1>3

LEMMA NextKeepsAInv == AInv /\ [Next]_vars => AInv'
<1> SUFFICES ASSUME AInv, [Next]_vars PROVE AInv'
  OBVIOUS
<1>1. CASE UNCHANGED vars
  BY <1>1 DEF vars, AInv, TypeOK, OneRecordPerIdentity
<1>2. CASE Next
  <2>1. PICK w \in Identities :
            \/ \E e \in Emails : SignIn(w, e) \/ \E r \in Roles : AddMember(w, e, r)
            \/ \E m \in DOMAIN members :
                \/ \E r \in Roles \union {None}, st \in States \union {None} :
                      PatchMember(w, m, r, st)
                \/ DeleteMember(w, m)
            \/ \E a \in AccountIds : AddAccount(w, a) \/ SetActive(w, a)
            \/ PreferAnother(w)
    BY <1>2 DEF Next
  <2>2. QED
    BY <2>1, SignInKeeps, InviteKeeps, UpdateKeeps, RemoveKeeps, AccountStepKeeps
       DEF AddMember, PatchMember, DeleteMember
<1>3. QED BY <1>1, <1>2

\* Both files keep their shape, through every crash and every change of ids.
THEOREM StoreInvariant == Spec => []AInv
<1>1. Init => AInv
  BY InitAInv
<1>2. AInv /\ [Next]_vars => AInv'
  BY NextKeepsAInv
<1>3. QED BY <1>1, <1>2, PTL DEF Spec

\* A WorkOS identity has one record, filed under its own id, whatever e-mails
\* it has signed in with and wherever the API crashed.
THEOREM IdentitiesKeepOneRecord == Spec => []OneRecordPerIdentity
<1>1. AInv => OneRecordPerIdentity
  BY DEF AInv
<1>2. QED BY <1>1, StoreInvariant, PTL

-----------------------------------------------------------------------------
(* What single steps do.  A step that is no crash writes both files.       *)

LEMMA Written ==
    ASSUME AInv, NEW acs, NEW mbs, Save(acs, mbs), crashes' = crashes
    PROVE  accounts' = acs /\ members' = mbs
BY DEF Save, AInv, TypeOK

\* Roles and states are the same after it, member by member.
SameRanks(mbs) ==
    /\ DOMAIN mbs = DOMAIN members
    /\ \A k \in DOMAIN members :
          mbs[k].role = members[k].role /\ mbs[k].status = members[k].status

\* Record m, which is not disabled, becomes the active one of identity w.
Becomes(m, w, acs, mbs) ==
    /\ m \in DOMAIN members /\ members[m].status # "disabled" /\ w \notin DOMAIN members
    /\ acs = Migrated(m, w)
    /\ DOMAIN mbs = (DOMAIN members \ {m}) \union {w}
    /\ \A k \in DOMAIN members \ {m} : mbs[k] = members[k]
    /\ mbs[w].role = members[m].role /\ mbs[w].status = "active"
    /\ mbs[w].email = members[m].email

\* Identity w gets a first record.
Joins(w, acs, mbs) ==
    /\ w \notin DOMAIN members
    /\ acs = accounts \/ \E l \in Legacies : acs = Migrated(l, w)
    /\ DOMAIN mbs = DOMAIN members \union {w}
    /\ \A k \in DOMAIN members : mbs[k] = members[k]
    /\ ActiveOwners # {} => mbs[w].role = "trader"

LEMMA SignInWrites ==
    ASSUME AInv, NEW w \in Identities, NEW e \in Emails, SignIn(w, e)
    PROVE  \E acs, mbs :
              /\ Save(acs, mbs)
              /\ \/ acs = accounts /\ SameRanks(mbs)
                 \/ \E m \in DOMAIN members : Becomes(m, w, acs, mbs)
                 \/ Joins(w, acs, mbs)
<1>1. CASE SignInKnown(w, e)
  <2>1. PICK m \in ByIdentity(w) :
            Save(accounts, [members EXCEPT ![m].email = e, ![m].workos = w])
    BY <1>1 DEF SignInKnown, SaveMembers
  <2>2. m \in DOMAIN members /\ members[m] \in Member
    BY <2>1, ByIdentityIsItself DEF AInv, TypeOK
  <2>3. SameRanks([members EXCEPT ![m].email = e, ![m].workos = w])
    BY <2>2 DEF SameRanks, AInv, TypeOK, Member
  <2>4. QED BY <2>1, <2>3
<1>2. CASE SignInByEmail(w, e)
  <2>1. PICK m \in ByEmail(e) :
            /\ Linkable(m)
            /\ Save(Migrated(m, w),
                 Rekeyed(m, w, [workos |-> w, email |-> e, role |-> members[m].role,
                                status |-> "active",
                                active |-> IF members[m].active # None THEN members[m].active
                                           ELSE ActiveOf(m)]))
    BY <1>2 DEF SignInByEmail
  <2> DEFINE r == [workos |-> w, email |-> e, role |-> members[m].role, status |-> "active",
                   active |-> IF members[m].active # None THEN members[m].active
                              ELSE ActiveOf(m)]
  <2>2. m \in DOMAIN members /\ members[m].status # "disabled" /\ w \notin DOMAIN members
    BY <1>2, <2>1, ByIdentityIsItself DEF ByEmail, Linkable, SignInByEmail
  <2>3. r.role = members[m].role /\ r.status = "active" /\ r.email = members[m].email
    BY <2>1 DEF ByEmail
  <2>4. Save(Migrated(m, w), Rekeyed(m, w, r))
    BY <2>1
  <2> HIDE DEF r
  <2>5. Becomes(m, w, Migrated(m, w), Rekeyed(m, w, r))
    BY <2>2, <2>3 DEF Becomes, Rekeyed
  <2>6. QED BY <2>2, <2>4, <2>5
<1>3. CASE SignUp(w, e)
  <2> DEFINE New(active) == [workos |-> w, email |-> e, role |-> FirstRole(e),
                             status |-> "active", active |-> active]
  <2>1. w \notin DOMAIN members
    BY <1>3, ByIdentityIsItself DEF SignUp
  <2>2. \A active : ActiveOwners # {} => New(active).role = "trader"
    BY DEF FirstRole
  <2>3. \/ Save(accounts, Put(members, w, New(None)))
        \/ \E l \in Legacies : Save(Migrated(l, w), Put(members, w, New(ActiveOf(l))))
    BY <1>3 DEF SignUp, SaveMembers
  <2> HIDE DEF New
  <2>4. /\ Joins(w, accounts, Put(members, w, New(None)))
        /\ \A l \in Legacies : Joins(w, Migrated(l, w), Put(members, w, New(ActiveOf(l))))
    BY <2>1, <2>2 DEF Joins, Put
  <2>5. QED BY <2>3, <2>4
<1>4. QED BY <1>1, <1>2, <1>3 DEF SignIn

\* What members do with accounts leaves the ranks alone and orphans none.
LEMMA AccountStepWrites ==
    ASSUME AInv, NEW w \in Identities,
           \/ \E a \in AccountIds : AddAccount(w, a) \/ SetActive(w, a)
           \/ PreferAnother(w)
    PROVE  \E acs, mbs :
              /\ Save(acs, mbs) /\ SameRanks(mbs)
              /\ \A a \in DOMAIN accounts : a \in DOMAIN acs /\ acs[a] = accounts[a]
<1>1. w \in DOMAIN members
  BY DEF AddAccount, SetActive, PreferAnother, Acts
<1>2. SameRanks(members) /\ \A a : SameRanks(WithActive(w, a))
  BY <1>1 DEF SameRanks, WithActive, AInv, TypeOK, Member
<1>3. CASE \E a \in AccountIds : AddAccount(w, a)
  <2>1. PICK a \in AccountIds \ DOMAIN accounts : CreateAccount(w, a)
    BY <1>3 DEF AddAccount
  <2>2. \A b \in DOMAIN accounts :
            b \in DOMAIN Put(accounts, a, w) /\ Put(accounts, a, w)[b] = accounts[b]
    BY <2>1 DEF Put
  <2>3. \/ Save(Put(accounts, a, w), members)
        \/ Save(Put(accounts, a, w), WithActive(w, a))
    BY <2>1 DEF CreateAccount
  <2>4. QED BY <1>2, <2>2, <2>3
<1>4. CASE (\E a \in AccountIds : SetActive(w, a)) \/ PreferAnother(w)
  <2>1. PICK a : Save(accounts, WithActive(w, a))
    BY <1>4 DEF SetActive, PreferAnother, SaveMembers
  <2>2. QED BY <1>2, <2>1
<1>5. QED BY <1>3, <1>4

\* An administrator's steps, without the administrator.
LEMMA AdminSteps ==
    ASSUME Next
    PROVE  \/ \E w \in Identities, e \in Emails : SignIn(w, e)
           \/ \E e \in Emails, r \in Roles : Invite(e, r)
           \/ \E m \in DOMAIN members, r \in Roles \union {None}, st \in States \union {None} :
                 Update(m, r, st)
           \/ \E m \in DOMAIN members : Remove(m)
           \/ \E w \in Identities :
                 \/ \E a \in AccountIds : AddAccount(w, a) \/ SetActive(w, a)
                 \/ PreferAnother(w)
BY DEF Next, AddMember, PatchMember, DeleteMember

-----------------------------------------------------------------------------
\* However members sign in and administrators update or remove, an active
\* owner remains, unless a crash or an invitation removes the last one.
THEOREM AnOwnerRemains == Spec => OwnerRemains
<1>1. ASSUME AInv, [Next]_vars
      PROVE  [ActiveOwners # {} /\ ActiveOwners' = {} /\ crashes' = crashes => Invited]_vars
  <2> SUFFICES ASSUME Next, ActiveOwners # {}, crashes' = crashes, ~Invited
               PROVE  ActiveOwners' # {}
    BY <1>1
  <2> USE DEF ActiveOwners, IsActiveOwner
  <2>0. PICK o \in DOMAIN members : members[o].role = "owner" /\ members[o].status = "active"
    OBVIOUS
  <2>1. ASSUME NEW mbs, SameRanks(mbs), members' = mbs
        PROVE  ActiveOwners' # {}
    BY <2>0, <2>1 DEF SameRanks
  <2>2. CASE \E w \in Identities, e \in Emails : SignIn(w, e)
    <3>0. PICK w \in Identities : \E acs, mbs :
              /\ Save(acs, mbs)
              /\ \/ SameRanks(mbs)
                 \/ \E m \in DOMAIN members : Becomes(m, w, acs, mbs)
                 \/ Joins(w, acs, mbs)
      BY <1>1, <2>2, SignInWrites
    <3>1. PICK acs, mbs :
              /\ Save(acs, mbs)
              /\ \/ SameRanks(mbs)
                 \/ \E m \in DOMAIN members : Becomes(m, w, acs, mbs)
                 \/ Joins(w, acs, mbs)
      BY <3>0
    <3>2. members' = mbs
      BY <1>1, <3>1, Written
    <3>3. CASE \E m \in DOMAIN members : Becomes(m, w, acs, mbs)
      <4>1. PICK m \in DOMAIN members : Becomes(m, w, acs, mbs)
        BY <3>3
      <4>2. CASE m = o
        BY <2>0, <3>2, <4>1, <4>2 DEF Becomes
      <4>3. CASE m # o
        BY <2>0, <3>2, <4>1, <4>3 DEF Becomes
      <4>4. QED BY <4>2, <4>3
    <3>4. CASE Joins(w, acs, mbs)
      BY <2>0, <3>2, <3>4 DEF Joins
    <3>5. QED BY <2>1, <3>1, <3>2, <3>3, <3>4
  <2>3. CASE \E e \in Emails, r \in Roles : Invite(e, r)
    BY <2>3 DEF Invited
  <2>4. CASE \E m \in DOMAIN members, r \in Roles \union {None}, st \in States \union {None} :
                Update(m, r, st)
    <3>1. PICK m \in DOMAIN members, r \in Roles \union {None}, st \in States \union {None} :
                Update(m, r, st)
      BY <2>4
    <3> DEFINE role == IF r = None THEN members[m].role ELSE r
               mbs  == [members EXCEPT ![m].role = role,
                            ![m].status = IF st = None THEN @ ELSE st]
    <3>2. members' = mbs
      BY <1>1, <3>1, Written DEF Update, SaveMembers
    <3>3. /\ DOMAIN members' = DOMAIN members
          /\ \A k \in DOMAIN members \ {m} : members'[k] = members[k]
          /\ members'[m].role = role
          /\ members'[m].status = IF st = None THEN members[m].status ELSE st
      <4>1. members[m] \in Member /\ members \in [DOMAIN members -> Member]
        BY <1>1 DEF AInv, TypeOK
      <4>2. QED BY <3>2, <4>1 DEF Member
    <3> HIDE DEF mbs
    <3>4. CASE m # o
      BY <2>0, <3>3, <3>4
    <3>5. CASE m = o /\ members'[m].role = "owner" /\ members'[m].status = "active"
      BY <3>3, <3>5
    <3>6. CASE m = o /\ ~(members'[m].role = "owner" /\ members'[m].status = "active")
      <4>1. \/ r \notin {None, "owner"}
            \/ st \notin {None, "active"} /\ role = "owner"
        BY <2>0, <3>3, <3>6
      <4>2. ActiveOwners \ {m} # {}
        BY <2>0, <3>1, <3>6, <4>1 DEF Update, LastOwner
      <4>3. QED BY <3>3, <4>2
    <3>7. QED BY <3>4, <3>5, <3>6
  <2>5. CASE \E m \in DOMAIN members : Remove(m)
    <3>1. PICK m \in DOMAIN members : Remove(m)
      BY <2>5
    <3>2. members' = [k \in DOMAIN members \ {m} |-> members[k]]
      BY <1>1, <3>1, Written DEF Remove, SaveMembers
    <3>3. ActiveOwners \ {m} # {}
      BY <2>0, <3>1 DEF Remove, LastOwner
    <3>4. QED BY <3>2, <3>3
  <2>6. CASE \E w \in Identities :
                \/ \E a \in AccountIds : AddAccount(w, a) \/ SetActive(w, a)
                \/ PreferAnother(w)
    <3>1. PICK acs, mbs : Save(acs, mbs) /\ SameRanks(mbs)
      BY <1>1, <2>6, AccountStepWrites
    <3>2. QED BY <1>1, <2>1, <3>1, Written
  <2>7. QED BY <2>2, <2>3, <2>4, <2>5, <2>6, AdminSteps
<1>2. QED BY <1>1, StoreInvariant, PTL DEF Spec, OwnerRemains

\* Only an administrator's step gives a disabled member access again.
THEOREM TheDisabledStayOut == Spec => DisabledStaysOut
<1>1. ASSUME AInv, [Next]_vars
      PROVE  [\A m \in DOMAIN members :
                members[m].status = "disabled" /\ crashes' = crashes =>
                   (m \in DOMAIN members' /\ members'[m].status = "disabled") \/ ByAdmin]_vars
  <2> SUFFICES ASSUME Next, NEW d \in DOMAIN members, members[d].status = "disabled",
                      crashes' = crashes, ~ByAdmin
               PROVE  d \in DOMAIN members' /\ members'[d].status = "disabled"
    BY <1>1
  <2>1. CASE \E w \in Identities, e \in Emails : SignIn(w, e)
    <3>0. PICK w \in Identities : \E acs, mbs :
              /\ Save(acs, mbs)
              /\ \/ SameRanks(mbs)
                 \/ \E m \in DOMAIN members : Becomes(m, w, acs, mbs)
                 \/ Joins(w, acs, mbs)
      BY <1>1, <2>1, SignInWrites
    <3>1. PICK acs, mbs :
              /\ Save(acs, mbs)
              /\ \/ SameRanks(mbs)
                 \/ \E m \in DOMAIN members : Becomes(m, w, acs, mbs)
                 \/ Joins(w, acs, mbs)
      BY <3>0
    <3>2. members' = mbs
      BY <1>1, <3>1, Written
    <3>3. QED BY <3>1, <3>2 DEF SameRanks, Becomes, Joins
  <2>2. CASE \E w \in Identities :
                \/ \E a \in AccountIds : AddAccount(w, a) \/ SetActive(w, a)
                \/ PreferAnother(w)
    <3>1. PICK acs, mbs : Save(acs, mbs) /\ SameRanks(mbs)
      BY <1>1, <2>2, AccountStepWrites
    <3>2. QED BY <1>1, <3>1, Written DEF SameRanks
  <2>3. QED BY <2>1, <2>2, AdminSteps DEF ByAdmin, Invited
<1>2. QED BY <1>1, StoreInvariant, PTL DEF Spec, DisabledStaysOut

\* Accounts move with the record of their member and are not orphaned.
THEOREM AccountsAreNotOrphaned == Spec => AccountsFollowTheirMember
<1>1. ASSUME AInv, [Next]_vars
      PROVE  [\A a \in DOMAIN accounts :
                accounts[a] \in DOMAIN members /\ crashes' = crashes =>
                   \/ a \in DOMAIN accounts' /\ accounts'[a] \in DOMAIN members'
                   \/ Remove(accounts[a])]_vars
  <2> SUFFICES ASSUME Next, NEW a \in DOMAIN accounts, accounts[a] \in DOMAIN members,
                      crashes' = crashes, ~Remove(accounts[a])
               PROVE  a \in DOMAIN accounts' /\ accounts'[a] \in DOMAIN members'
    BY <1>1
  <2>1. CASE \E w \in Identities, e \in Emails : SignIn(w, e)
    <3>0. PICK w \in Identities : \E acs, mbs :
              /\ Save(acs, mbs)
              /\ \/ acs = accounts /\ SameRanks(mbs)
                 \/ \E m \in DOMAIN members : Becomes(m, w, acs, mbs)
                 \/ Joins(w, acs, mbs)
      BY <1>1, <2>1, SignInWrites
    <3>1. PICK acs, mbs :
              /\ Save(acs, mbs)
              /\ \/ acs = accounts /\ SameRanks(mbs)
                 \/ \E m \in DOMAIN members : Becomes(m, w, acs, mbs)
                 \/ Joins(w, acs, mbs)
      BY <3>0
    <3>2. members' = mbs /\ accounts' = acs
      BY <1>1, <3>1, Written
    <3>3. CASE acs = accounts /\ SameRanks(mbs)
      BY <3>2, <3>3 DEF SameRanks
    <3>4. CASE \E m \in DOMAIN members : Becomes(m, w, acs, mbs)
      <4>1. PICK m \in DOMAIN members : Becomes(m, w, acs, mbs)
        BY <3>4
      <4>2. a \in DOMAIN acs /\ acs[a] = IF accounts[a] = m THEN w ELSE accounts[a]
        BY <4>1 DEF Becomes, Migrated
      <4>3. QED BY <3>2, <4>1, <4>2 DEF Becomes
    <3>5. CASE Joins(w, acs, mbs)
      <4>1. a \in DOMAIN acs /\ acs[a] \in {accounts[a], w}
        BY <3>5 DEF Joins, Migrated
      <4>2. QED BY <3>2, <3>5, <4>1 DEF Joins
    <3>6. QED BY <3>1, <3>3, <3>4, <3>5
  <2>2. CASE \E e \in Emails, r \in Roles : Invite(e, r)
    <3>1. accounts' = accounts
      BY <1>1, <2>2, Written DEF Invite, SaveMembers
    <3>2. PICK e \in Emails, r \in Roles : Invite(e, r)
      BY <2>2
    <3>3. \/ \E p, n : members' = Put(members, p, n)
          \/ \E m : members' = [members EXCEPT ![m].role = r, ![m].status =
                        IF members[m].workos = None THEN "pending" ELSE "active"]
      BY <1>1, <3>2, Written DEF Invite, SaveMembers
    <3>4. DOMAIN members \subseteq DOMAIN members'
      <4>1. \A p, n : DOMAIN members \subseteq DOMAIN Put(members, p, n)
        BY DEF Put
      <4>2. CASE \E p, n : members' = Put(members, p, n)
        BY <4>1, <4>2
      <4>3. CASE \E m : members' = [members EXCEPT ![m].role = r, ![m].status =
                        IF members[m].workos = None THEN "pending" ELSE "active"]
        BY <4>3
      <4>4. QED BY <3>3, <4>2, <4>3
    <3>5. QED BY <3>1, <3>4
  <2>3. CASE \E m \in DOMAIN members, r \in Roles \union {None}, st \in States \union {None} :
                Update(m, r, st)
    <3>1. accounts' = accounts /\ DOMAIN members' = DOMAIN members
      BY <1>1, <2>3, Written DEF Update, SaveMembers
    <3>2. QED BY <3>1
  <2>4. CASE \E m \in DOMAIN members : Remove(m)
    <3>1. PICK m \in DOMAIN members : Remove(m)
      BY <2>4
    <3>2. accounts' = accounts /\ members' = [k \in DOMAIN members \ {m} |-> members[k]]
      BY <1>1, <3>1, Written DEF Remove, SaveMembers
    <3>3. QED BY <3>1, <3>2
  <2>5. CASE \E w \in Identities :
                \/ \E b \in AccountIds : AddAccount(w, b) \/ SetActive(w, b)
                \/ PreferAnother(w)
    <3>1. PICK acs, mbs :
              /\ Save(acs, mbs) /\ SameRanks(mbs)
              /\ \A b \in DOMAIN accounts : b \in DOMAIN acs /\ acs[b] = accounts[b]
      BY <1>1, <2>5, AccountStepWrites
    <3>2. QED BY <1>1, <3>1, Written DEF SameRanks
  <2>6. QED BY <2>1, <2>2, <2>3, <2>4, <2>5, AdminSteps
<1>2. QED BY <1>1, StoreInvariant, PTL DEF Spec, AccountsFollowTheirMember

-----------------------------------------------------------------------------
\* While there is an active owner, signing in makes nobody an active owner but
\* in the place of an owner's record that has the e-mail and then is gone.
THEOREM NobodyAppointsThemselves == Spec => OwnersAreAppointed
<1>1. ASSUME AInv, [Next]_vars
      PROVE  [\A w \in Identities :
                ActiveOwners # {} /\ w \in ActiveOwners' \ ActiveOwners =>
                    \/ ByAdmin
                    \/ \E m \in Owners :
                        /\ m \notin DOMAIN members' /\ members[m].status # "disabled"
                        /\ members[m].email = members'[w].email]_vars
  <2> SUFFICES ASSUME Next, NEW n \in Identities, ActiveOwners # {},
                      n \in ActiveOwners' \ ActiveOwners, ~ByAdmin
               PROVE  \E m \in Owners :
                        /\ m \notin DOMAIN members' /\ members[m].status # "disabled"
                        /\ members[m].email = members'[n].email
    BY <1>1
  <2>0. /\ n \in DOMAIN members' /\ members'[n].role = "owner"
        /\ members'[n].status = "active"
        /\ n \in DOMAIN members => members[n].role # "owner" \/ members[n].status # "active"
    BY DEF ActiveOwners, IsActiveOwner
  <2>1. ASSUME NEW acs, NEW mbs, Save(acs, mbs)
        PROVE  members' = mbs
    <3>1. members' \in {members, mbs, Empty}
      BY <2>1 DEF Save
    <3>2. QED BY <2>0, <3>1 DEF Empty
  <2>2. ASSUME NEW mbs, SameRanks(mbs), members' = mbs
        PROVE  FALSE
    BY <2>0, <2>2 DEF SameRanks
  <2>3. CASE \E w \in Identities, e \in Emails : SignIn(w, e)
    <3>0. PICK w \in Identities : \E acs, mbs :
              /\ Save(acs, mbs)
              /\ \/ SameRanks(mbs)
                 \/ \E m \in DOMAIN members : Becomes(m, w, acs, mbs)
                 \/ Joins(w, acs, mbs)
      BY <1>1, <2>3, SignInWrites
    <3>1. PICK acs, mbs :
              /\ Save(acs, mbs)
              /\ \/ SameRanks(mbs)
                 \/ \E m \in DOMAIN members : Becomes(m, w, acs, mbs)
                 \/ Joins(w, acs, mbs)
      BY <3>0
    <3>2. members' = mbs
      BY <2>1, <3>1
    <3>3. CASE SameRanks(mbs)
      BY <2>2, <3>2, <3>3
    <3>4. CASE Joins(w, acs, mbs)
      <4>1. n \notin DOMAIN members /\ n = w
        BY <2>0, <3>2, <3>4 DEF Joins
      <4>2. QED BY <2>0, <3>2, <3>4, <4>1 DEF Joins
    <3>5. CASE \E m \in DOMAIN members : Becomes(m, w, acs, mbs)
      <4>1. PICK m \in DOMAIN members : Becomes(m, w, acs, mbs)
        BY <3>5
      <4>2. n = w
        BY <2>0, <3>2, <4>1 DEF Becomes
      <4>3. m \in Owners /\ members[m].status # "disabled"
        BY <2>0, <3>2, <4>1, <4>2 DEF Becomes, Owners
      <4>4. m \notin DOMAIN members' /\ members[m].email = members'[n].email
        BY <3>2, <4>1, <4>2 DEF Becomes
      <4>5. QED BY <4>3, <4>4
    <3>6. QED BY <3>1, <3>3, <3>4, <3>5
  <2>4. CASE \E w \in Identities :
                \/ \E a \in AccountIds : AddAccount(w, a) \/ SetActive(w, a)
                \/ PreferAnother(w)
    <3>1. PICK acs, mbs : Save(acs, mbs) /\ SameRanks(mbs)
      BY <1>1, <2>4, AccountStepWrites
    <3>2. QED BY <2>1, <2>2, <3>1
  <2>5. QED BY <2>3, <2>4, AdminSteps DEF ByAdmin, Invited
<1>2. QED BY <1>1, StoreInvariant, PTL DEF Spec, OwnersAreAppointed
=============================================================================
