------------------------------ MODULE Directory ------------------------------
(***************************************************************************)
(* Who can be found: accounts, their profile documents and the lookup by   *)
(* e-mail that turns a profile into a contact.                             *)
(*                                                                         *)
(* Registration creates the account at the auth service and writes the     *)
(* profile usuarios/<uid> from the completion, without a completion of its *)
(* own; the two can come apart.  The profile keeps the e-mail as it was    *)
(* typed, the auth service in lower case.  A lookup asks the server, or,   *)
(* when the client takes itself to be offline, the cache of the device.    *)
(* One device per user.                                                    *)
(***************************************************************************)
EXTENDS Integers, FiniteSets

CONSTANTS
    Users,       \* uids
    MaxLookups   \* bound: lookups of one device on their way

ASSUME DirectoryAssumption == MaxLookups \in Nat

VARIABLES
    account,   \* "none", "asked", "created" (nobody told yet) or "known"
    spelling,  \* the e-mail a user registers with: "lower" or "mixed" case
    profile,   \* "none", "pending" on the user's device, "stored" or "lost"
    session,   \* the user is signed in on the device
    online,    \* the Firestore client of the device does not think it is offline
    cached,    \* profiles of others in the cache of the device
    lookups,   \* lookups on their way, by the e-mail typed
    report,    \* what any of them was last told of an e-mail, and how things were
    contatos,  \* usuarios/<uid>/contatos
    broken     \* history: users whose registration was cut short by a fault

registry == <<account, spelling, profile>>
dialogue == <<cached, lookups, report, contatos>>
vars == <<registry, session, online, dialogue, broken>>

Spellings == {"lower", "mixed"}

-----------------------------------------------------------------------------
\* An e-mail address as typed: whose it is, and how it is spelled.
Emails == [of : Users, as : Spellings]

\* currentUser.email
EmailUsuarioLogado(a) == [of |-> a, as |-> "lower"]

\* Mutant: the e-mail typed is put in lower case before it is looked up.
MatchesLowered(v, e) == v = e.of /\ spelling[v] = "lower"

\* whereField("email", isEqualTo: email)
Matches(v, e) == v = e.of /\ spelling[v] = e.as

Says(what, e, a) ==
    [what |-> what, email |-> e, online |-> online[a], profile |-> profile[e.of]]
NoReport == [what |-> "nothing"]

Init ==
    /\ account = [u \in Users |-> "none"]
    /\ spelling \in [Users -> Spellings]
    /\ profile = [u \in Users |-> "none"]
    /\ session = [u \in Users |-> FALSE]
    /\ online = [u \in Users |-> TRUE]
    /\ cached = [u \in Users |-> {}]
    /\ lookups = [u \in Users |-> {}]
    /\ report = NoReport
    /\ contatos = [u \in Users |-> {}]
    /\ broken = {}

-----------------------------------------------------------------------------
(* Registration.                                                           *)

\* Mutant: the profile is written along with the request.
ActionRegisterProfile(u) ==
    /\ account[u] = "none" /\ ~session[u]
    /\ account' = [account EXCEPT ![u] = "asked"]
    /\ profile' = [profile EXCEPT ![u] = "pending"]
    /\ UNCHANGED <<spelling, session, online, dialogue, broken>>

\* actionRegisterUser
ActionRegisterUser(u) ==
    /\ account[u] = "none" /\ ~session[u]
    /\ account' = [account EXCEPT ![u] = "asked"]
    /\ UNCHANGED <<spelling, profile, session, online, dialogue, broken>>

\* The auth service creates the account, and may fail to say so.
AccountCreated(u) ==
    /\ account[u] = "asked"
    /\ account' = [account EXCEPT ![u] = "created"]
    /\ UNCHANGED <<spelling, profile, session, online, dialogue, broken>>

\* createUser is cut short: an account the service has made by then remains.
Abort(u) ==
    /\ account' = [account EXCEPT ![u] = CASE @ = "asked"   -> "none"
                                           [] @ = "created" -> "known"
                                           [] OTHER         -> @]
    /\ broken' = IF account[u] = "created" \/ profile'[u] = "lost"
                 THEN broken \cup {u} ELSE broken

\* The completion has an error; the alert meant to tell of it is nil.
CreateUserFailed(u) ==
    /\ account[u] \in {"asked", "created"}
    /\ UNCHANGED <<spelling, profile, session, online, dialogue>>
    /\ Abort(u)

\* Mutant: a transaction, which fails offline.
WriteProfileOnline(u) ==
    profile' = [profile EXCEPT ![u] = IF online[u] THEN "stored" ELSE "none"]

\* setData: in the mutation queue of this device.
WriteProfile(u) == profile' = [profile EXCEPT ![u] = "pending"]

\* The completion of createUser: signed in, and the profile written.
CreateUserAnswered(u) ==
    /\ account[u] = "created"
    /\ account' = [account EXCEPT ![u] = "known"]
    /\ session' = [session EXCEPT ![u] = TRUE]
    /\ WriteProfile(u)
    /\ UNCHANGED <<spelling, online, dialogue, broken>>

\* The queue of a user is sent only while that user is signed in.
ProfileStored(u) ==
    /\ profile[u] = "pending" /\ session[u] /\ online[u]
    /\ profile' = [profile EXCEPT ![u] = "stored"]
    /\ cached' = [cached EXCEPT ![u] = @ \cup {u}]
    /\ UNCHANGED <<account, spelling, session, online, lookups, report, contatos, broken>>

\* The server refuses the write for good; there is no completion to hear of it.
ProfileRefused(u) ==
    /\ profile[u] = "pending" /\ session[u] /\ online[u]
    /\ profile' = [profile EXCEPT ![u] = "lost"]
    /\ broken' = broken \cup {u}
    /\ UNCHANGED <<account, spelling, session, online, dialogue>>

SignInOut(u) ==
    /\ account[u] = "known"
    /\ session' = [session EXCEPT ![u] = ~@]
    /\ UNCHANGED <<registry, online, dialogue, broken>>

ConnectionChanged(u) ==
    /\ online' = [online EXCEPT ![u] = ~@]
    /\ UNCHANGED <<registry, session, dialogue, broken>>

\* The process dies: with it the completion of createUser, the lookups, and the
\* profile if it had not reached the disk.
Crash(u) ==
    /\ \/ UNCHANGED profile
       \/ profile[u] = "pending" /\ profile' = [profile EXCEPT ![u] = "lost"]
    /\ Abort(u)
    /\ lookups' = [lookups EXCEPT ![u] = {}]
    /\ UNCHANGED <<spelling, session, online, cached, report, contatos>>

-----------------------------------------------------------------------------
(* Adding a contact.                                                       *)

\* addContact: the own e-mail is turned down, any other looked up.
AddContact(a, e) ==
    /\ session[a]
    /\ IF e = EmailUsuarioLogado(a)
       THEN report' = Says("own", e, a) /\ UNCHANGED lookups
       ELSE /\ e \notin lookups[a]
            /\ Cardinality(lookups[a]) < MaxLookups
            /\ lookups' = [lookups EXCEPT ![a] = @ \cup {e}]
            /\ UNCHANGED report
    /\ UNCHANGED <<registry, session, online, cached, contatos, broken>>

\* Mutant: the auth service is asked instead of the profiles.
FoundAccount(a, e) == {v \in Users : v = e.of /\ account[v] = "known"}

\* What a query over usuarios finds: the own profile while it is pending, and
\* those of the server or of the cache.
Found(a, e) ==
    {v \in Users : /\ Matches(v, e)
                   /\ \/ profile[v] = "stored" /\ (online[a] \/ v \in cached[a])
                      \/ profile[v] = "pending" /\ v = a}

\* A profile, if one is found, is saved as a contact; otherwise the user is
\* told that nobody is registered with this e-mail.
LookupAnswered(a, e) ==
    /\ e \in lookups[a]
    /\ lookups' = [lookups EXCEPT ![a] = @ \ {e}]
    /\ cached' = [cached EXCEPT ![a] = @ \cup Found(a, e)]
    /\ contatos' = [contatos EXCEPT ![a] = @ \cup Found(a, e)]
    /\ report' = Says(IF Found(a, e) = {} THEN "notRegistered" ELSE "saved", e, a)
    /\ UNCHANGED <<registry, session, online, broken>>

\* No snapshot: nothing is said.
LookupFailed(a, e) ==
    /\ e \in lookups[a]
    /\ lookups' = [lookups EXCEPT ![a] = @ \ {e}]
    /\ UNCHANGED <<registry, session, online, cached, report, contatos, broken>>

Next ==
    \E u \in Users :
        \/ ActionRegisterUser(u)
        \/ AccountCreated(u)
        \/ CreateUserFailed(u)
        \/ CreateUserAnswered(u)
        \/ ProfileStored(u)
        \/ ProfileRefused(u)
        \/ SignInOut(u)
        \/ ConnectionChanged(u)
        \/ Crash(u)
        \/ \E e \in Emails : AddContact(u, e)
        \/ \E e \in Emails : LookupAnswered(u, e)
        \/ \E e \in Emails : LookupFailed(u, e)

Spec == Init /\ [][Next]_vars

-----------------------------------------------------------------------------
(* Properties.                                                             *)

(* Every variable has its type, and a profile exists only for an account.   *)
TypeOK ==
    /\ account \in [Users -> {"none", "asked", "created", "known"}]
    /\ spelling \in [Users -> Spellings]
    /\ profile \in [Users -> {"none", "pending", "stored", "lost"}]
    /\ session \in [Users -> BOOLEAN] /\ online \in [Users -> BOOLEAN]
    /\ cached \in [Users -> SUBSET Users] /\ contatos \in [Users -> SUBSET Users]
    /\ lookups \in [Users -> SUBSET Emails]
    /\ report.what \in {"nothing", "own", "saved", "notRegistered"}
    /\ broken \subseteq Users
    /\ \A u \in Users : profile[u] # "none" \/ session[u] => account[u] = "known"

(* An account without a profile, which nobody can find or add, comes only   *)
(* from a registration that a crash, a lost answer or a refused write cut   *)
(* short; being offline or signing out before the write is sent is not      *)
(* enough.                                                                  *)
UnprofiledWereCutShort ==
    \A u \in Users :
        account[u] = "known" /\ profile[u] \in {"none", "lost"} => u \in broken

(* Every contact saved by salvarContato leads to somebody else whose profile *)
(* the server has, whatever the caches answer.  Only who registered with    *)
(* capital letters gets past the check against the own e-mail and becomes a *)
(* contact of himself, which files both copies of a message in one mailbox. *)
ContactsAreOthersProfiles ==
    \A a \in Users : \A v \in contatos[a] :
        IF v = a THEN spelling[a] = "mixed" ELSE profile[v] = "stored"

(* "Usuario não cadastrado" is said of a registered e-mail, spelled as it   *)
(* was registered, only if the profile had not arrived or the client took   *)
(* itself to be offline.                                                    *)
NotRegisteredOnlyUnseen ==
    (/\ report.what = "notRegistered"
     /\ report.email.as = spelling[report.email.of]
     /\ report.online)
    => report.profile # "stored"
=============================================================================
