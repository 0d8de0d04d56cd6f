--------------------------- MODULE DirectoryProofs ---------------------------
(***************************************************************************)
(* Theorems about registration and the lookup of contacts, for any number  *)
(* of users and of lookups on their way.                                   *)
(***************************************************************************)
EXTENDS Directory, TLAPS

-----------------------------------------------------------------------------
(* What a step does to the registry.                                       *)

(* A createUser that is cut short leaves the request undone or the account  *)
(* made, and in the second case marks the user.                            *)
LEMMA AbortStep ==
    ASSUME TypeOK, NEW u \in Users, Abort(u)
    PROVE  /\ account' \in [Users -> {"none", "asked", "created", "known"}]
           /\ \A v \in Users : v # u => account'[v] = account[v]
           /\ account[u] = "known" => account'[u] = "known"
           /\ account'[u] = "known" => account[u] = "known" \/ u \in broken'
           /\ profile'[u] = "lost" => u \in broken'
           /\ broken \subseteq broken' /\ broken' \subseteq Users
<1>1. /\ account' = [account EXCEPT ![u] = CASE account[u] = "asked"   -> "none"
                                             [] account[u] = "created" -> "known"
                                             [] OTHER                  -> account[u]]
      /\ broken' = IF account[u] = "created" \/ profile'[u] = "lost"
                   THEN broken \cup {u} ELSE broken
      /\ account \in [Users -> {"none", "asked", "created", "known"}]
      /\ broken \subseteq Users
  BY DEF Abort, TypeOK
<1>2. /\ account[u] = "asked"   => account'[u] = "none"
      /\ account[u] = "created" => account'[u] = "known"
      /\ account[u] \notin {"asked", "created"} => account'[u] = account[u]
      /\ \A v \in Users : v # u => account'[v] = account[v]
      /\ account' = [v \in Users |-> account'[v]]
  BY <1>1
<1>3. \A v \in Users : account'[v] \in {"none", "asked", "created", "known"}
  BY <1>1, <1>2
<1>4. account' \in [Users -> {"none", "asked", "created", "known"}]
  BY <1>2, <1>3
<1> QED
  BY <1>1, <1>2, <1>4

(* Every step of the auth service, the clients and their users keeps the    *)
(* types, and no profile is written without an account.                    *)
LEMMA TypeStep == TypeOK /\ [Next]_vars => TypeOK'
<1> SUFFICES ASSUME TypeOK, [Next]_vars PROVE TypeOK'
  OBVIOUS
<1> USE DEF TypeOK
<1>1. ASSUME NEW u \in Users, ActionRegisterUser(u) PROVE TypeOK'
  BY <1>1 DEF ActionRegisterUser, dialogue
<1>2. ASSUME NEW u \in Users, AccountCreated(u) PROVE TypeOK'
  BY <1>2 DEF AccountCreated, dialogue
<1>3. ASSUME NEW u \in Users, CreateUserFailed(u) PROVE TypeOK'
  <2>1. /\ Abort(u)
        /\ UNCHANGED <<spelling, profile, session, online, cached, lookups, report, contatos>>
    BY <1>3 DEF CreateUserFailed, dialogue
  <2>2. /\ account' \in [Users -> {"none", "asked", "created", "known"}]
        /\ \A v \in Users : account[v] = "known" => account'[v] = "known"
        /\ broken' \subseteq Users
    BY <2>1, AbortStep
  <2> QED
    BY <2>1, <2>2
<1>4. ASSUME NEW u \in Users, CreateUserAnswered(u) PROVE TypeOK'
  BY <1>4 DEF CreateUserAnswered, WriteProfile, dialogue
<1>5. ASSUME NEW u \in Users, ProfileStored(u) PROVE TypeOK'
  BY <1>5 DEF ProfileStored
<1>6. ASSUME NEW u \in Users, ProfileRefused(u) PROVE TypeOK'
  BY <1>6 DEF ProfileRefused, dialogue
<1>7. ASSUME NEW u \in Users, SignInOut(u) PROVE TypeOK'
  BY <1>7 DEF SignInOut, registry, dialogue
<1>8. ASSUME NEW u \in Users, ConnectionChanged(u) PROVE TypeOK'
  BY <1>8 DEF ConnectionChanged, registry, dialogue
<1>9. ASSUME NEW u \in Users, Crash(u) PROVE TypeOK'
  <2>1. /\ Abort(u)
        /\ \/ profile' = profile
           \/ profile[u] = "pending" /\ profile' = [profile EXCEPT ![u] = "lost"]
        /\ lookups' = [lookups EXCEPT ![u] = {}]
        /\ UNCHANGED <<spelling, session, online, cached, report, contatos>>
    BY <1>9 DEF Crash
  <2>2. /\ account' \in [Users -> {"none", "asked", "created", "known"}]
        /\ \A v \in Users : account[v] = "known" => account'[v] = "known"
        /\ broken' \subseteq Users
    BY <2>1, AbortStep
  <2>3. /\ profile' \in [Users -> {"none", "pending", "stored", "lost"}]
        /\ \A v \in Users : profile'[v] # "none" => profile[v] # "none"
        /\ lookups' \in [Users -> SUBSET Emails]
    BY <2>1
  <2> QED
    BY <2>1, <2>2, <2>3
<1>10. ASSUME NEW u \in Users, NEW e \in Emails, AddContact(u, e) PROVE TypeOK'
  <2>1. /\ report'.what \in {"nothing", "own", "saved", "notRegistered"}
        /\ lookups' \in [Users -> SUBSET Emails]
    BY <1>10 DEF AddContact, Says
  <2> QED
    BY <1>10, <2>1 DEF AddContact, registry
<1>11. ASSUME NEW u \in Users, NEW e \in Emails, LookupAnswered(u, e) PROVE TypeOK'
  <2>1. Found(u, e) \subseteq Users
    BY DEF Found
  <2>2. report'.what \in {"nothing", "own", "saved", "notRegistered"}
    BY <1>11 DEF LookupAnswered, Says
  <2> QED
    BY <1>11, <2>1, <2>2 DEF LookupAnswered, registry
<1>12. ASSUME NEW u \in Users, NEW e \in Emails, LookupFailed(u, e) PROVE TypeOK'
  BY <1>12 DEF LookupFailed, registry
<1>13. CASE UNCHANGED vars
  BY <1>13 DEF vars, registry, dialogue
<1> QED
  BY <1>1, <1>2, <1>3, <1>4, <1>5, <1>6, <1>7, <1>8, <1>9, <1>10, <1>11, <1>12, <1>13
     DEF Next

(* Every variable keeps its type, and a profile or a session comes only     *)
(* after createUser has made the account.                                  *)
THEOREM TypeCorrect == Spec => []TypeOK
<1>1. Init => TypeOK
  BY DEF Init, TypeOK, NoReport
<1> QED
  BY <1>1, TypeStep, PTL DEF Spec

(* No step changes how an e-mail is spelled, and what the server has stored *)
(* of a profile stays: setData writes a profile once, before it is stored.  *)
LEMMA RegistryStep ==
    ASSUME TypeOK, [Next]_vars
    PROVE  /\ spelling' = spelling
           /\ \A v \in Users : profile[v] = "stored" => profile'[v] = "stored"
<1> USE DEF TypeOK
<1>1. ASSUME NEW u \in Users, CreateUserAnswered(u)
      PROVE  \A v \in Users : profile[v] = "stored" => profile'[v] = "stored"
  <2>1. profile[u] = "none" /\ profile' = [profile EXCEPT ![u] = "pending"]
    BY <1>1 DEF CreateUserAnswered, WriteProfile
  <2> QED
    BY <2>1
<1>2. ASSUME NEW u \in Users, ProfileStored(u) \/ ProfileRefused(u) \/ Crash(u)
      PROVE  \A v \in Users : profile[v] = "stored" => profile'[v] = "stored"
  BY <1>2 DEF ProfileStored, ProfileRefused, Crash
<1>3. ASSUME NEW u \in Users,
             \/ ActionRegisterUser(u) \/ AccountCreated(u) \/ CreateUserFailed(u)
             \/ SignInOut(u) \/ ConnectionChanged(u)
             \/ \E e \in Emails : AddContact(u, e) \/ LookupAnswered(u, e) \/ LookupFailed(u, e)
      PROVE  profile' = profile
  BY <1>3 DEF ActionRegisterUser, AccountCreated, CreateUserFailed, SignInOut,
              ConnectionChanged, AddContact, LookupAnswered, LookupFailed, registry
<1>4. spelling' = spelling
  BY DEF Next, vars, registry, ActionRegisterUser, AccountCreated, CreateUserFailed,
         CreateUserAnswered, ProfileStored, ProfileRefused, SignInOut,
         ConnectionChanged, Crash, AddContact, LookupAnswered, LookupFailed
<1>5. CASE UNCHANGED vars
  BY <1>5 DEF vars, registry
<1> QED
  BY <1>1, <1>2, <1>3, <1>4, <1>5 DEF Next

-----------------------------------------------------------------------------
(* Accounts without a profile.                                             *)

(* Only a fault leaves a known account without a profile: createUser writes *)
(* it in the same completion that signs the user in.                       *)
LEMMA UnprofiledStep ==
    ASSUME TypeOK, UnprofiledWereCutShort, [Next]_vars
    PROVE  UnprofiledWereCutShort'
<1> SUFFICES ASSUME NEW v \in Users, account'[v] = "known", profile'[v] \in {"none", "lost"}
             PROVE  v \in broken'
  BY DEF UnprofiledWereCutShort
<1>f. account[v] = "known" /\ profile[v] \in {"none", "lost"} => v \in broken
  BY DEF UnprofiledWereCutShort
<1>1. ASSUME NEW u \in Users,
             ActionRegisterUser(u) \/ AccountCreated(u) \/ CreateUserAnswered(u)
             \/ ProfileStored(u) \/ ProfileRefused(u)
      PROVE  v \in broken'
  BY <1>1, <1>f DEF TypeOK, ActionRegisterUser, AccountCreated, CreateUserAnswered,
                    WriteProfile, ProfileStored, ProfileRefused
<1>2. ASSUME NEW u \in Users, CreateUserFailed(u) PROVE v \in broken'
  <2>1. Abort(u) /\ profile' = profile
    BY <1>2 DEF CreateUserFailed
  <2>2. CASE v = u
    BY <1>f, <2>1, <2>2, AbortStep
  <2>3. CASE v # u
    BY <1>f, <2>1, <2>3, AbortStep
  <2> QED
    BY <2>2, <2>3
<1>3. ASSUME NEW u \in Users, Crash(u) PROVE v \in broken'
  <2>1. /\ Abort(u)
        /\ \/ profile' = profile
           \/ profile[u] = "pending" /\ profile' = [profile EXCEPT ![u] = "lost"]
    BY <1>3 DEF Crash
  <2>2. CASE v = u
    <3>1. CASE profile'[v] = "lost"
      BY <2>1, <2>2, <3>1, AbortStep
    <3>2. CASE profile' = profile
      BY <1>f, <2>1, <2>2, <3>2, AbortStep
    <3> QED
      BY <2>1, <2>2, <3>1, <3>2 DEF TypeOK
  <2>3. CASE v # u
    <3>1. account'[v] = account[v] /\ broken \subseteq broken'
      BY <2>1, <2>3, AbortStep
    <3>2. profile'[v] = profile[v]
      BY <2>1, <2>3 DEF TypeOK
    <3> QED
      BY <1>f, <3>1, <3>2
  <2> QED
    BY <2>2, <2>3
<1>4. ASSUME NEW u \in Users,
             \/ SignInOut(u) \/ ConnectionChanged(u)
             \/ \E e \in Emails : AddContact(u, e) \/ LookupAnswered(u, e) \/ LookupFailed(u, e)
      PROVE  v \in broken'
  BY <1>4, <1>f DEF SignInOut, ConnectionChanged, AddContact, LookupAnswered,
                    LookupFailed, registry
<1>5. CASE UNCHANGED vars
  BY <1>5, <1>f DEF vars, registry
<1> QED
  BY <1>1, <1>2, <1>3, <1>4, <1>5 DEF Next

(* Whoever has an account and cannot be found had a registration cut short  *)
(* by a crash, a lost answer or a refused setData: nothing else, such as    *)
(* signing out or going offline before the write is sent, leaves one.       *)
THEOREM OnlyFaultsUnprofile == Spec => []UnprofiledWereCutShort
<1>1. Init => UnprofiledWereCutShort
  BY DEF Init, UnprofiledWereCutShort
<1>2. TypeOK /\ UnprofiledWereCutShort /\ [Next]_vars => UnprofiledWereCutShort'
  BY UnprofiledStep
<1> QED
  BY <1>1, <1>2, TypeCorrect, PTL DEF Spec

-----------------------------------------------------------------------------
(* Contacts.                                                               *)

\* addContact lets no lookup of the own e-mail through.
OwnNeverAsked == \A a \in Users : EmailUsuarioLogado(a) \notin lookups[a]

(* Only addContact starts a lookup, and not of the own e-mail.              *)
LEMMA LookupsStep ==
    ASSUME TypeOK, OwnNeverAsked, [Next]_vars
    PROVE  OwnNeverAsked'
<1> SUFFICES ASSUME NEW a \in Users PROVE EmailUsuarioLogado(a) \notin lookups'[a]
  BY DEF OwnNeverAsked, EmailUsuarioLogado
<1> USE DEF OwnNeverAsked
<1>1. ASSUME NEW u \in Users, NEW e \in Emails, AddContact(u, e)
      PROVE  EmailUsuarioLogado(a) \notin lookups'[a]
  <2>1. CASE e = EmailUsuarioLogado(u)
    BY <1>1, <2>1 DEF AddContact
  <2>2. CASE e # EmailUsuarioLogado(u)
    <3>1. lookups' = [lookups EXCEPT ![u] = @ \cup {e}]
      BY <1>1, <2>2 DEF AddContact
    <3> QED
      BY <2>2, <3>1 DEF TypeOK
  <2> QED
    BY <2>1, <2>2
<1>2. ASSUME NEW u \in Users, NEW e \in Emails, LookupAnswered(u, e) \/ LookupFailed(u, e)
      PROVE  EmailUsuarioLogado(a) \notin lookups'[a]
  BY <1>2 DEF LookupAnswered, LookupFailed, TypeOK
<1>3. ASSUME NEW u \in Users, Crash(u)
      PROVE  EmailUsuarioLogado(a) \notin lookups'[a]
  BY <1>3 DEF Crash, TypeOK
<1>4. ASSUME NEW u \in Users,
             \/ ActionRegisterUser(u) \/ AccountCreated(u) \/ CreateUserFailed(u)
             \/ CreateUserAnswered(u) \/ ProfileStored(u) \/ ProfileRefused(u)
             \/ SignInOut(u) \/ ConnectionChanged(u)
      PROVE  lookups' = lookups
  BY <1>4 DEF ActionRegisterUser, AccountCreated, CreateUserFailed, CreateUserAnswered,
              ProfileStored, ProfileRefused, SignInOut, ConnectionChanged, dialogue
<1>5. CASE UNCHANGED vars
  BY <1>5 DEF vars, dialogue
<1> QED
  BY <1>1, <1>2, <1>3, <1>4, <1>5 DEF Next

(* salvarContato follows a lookup that found a profile: of somebody else it *)
(* is the server's, and the own one is found only by its capital letters.   *)
LEMMA ContactsStep ==
    ASSUME TypeOK, OwnNeverAsked, ContactsAreOthersProfiles, [Next]_vars
    PROVE  ContactsAreOthersProfiles'
<1> SUFFICES ASSUME NEW a \in Users, NEW v \in contatos'[a]
             PROVE  IF v = a THEN spelling'[a] = "mixed" ELSE profile'[v] = "stored"
  BY DEF ContactsAreOthersProfiles
<1>r. /\ spelling' = spelling
      /\ \A x \in Users : profile[x] = "stored" => profile'[x] = "stored"
  BY RegistryStep
<1>1. CASE v \in contatos[a]
  BY <1>1, <1>r DEF ContactsAreOthersProfiles, TypeOK
<1>2. CASE v \notin contatos[a]
  <2>1. PICK u \in Users : \E e \in Emails : LookupAnswered(u, e)
    BY <1>2 DEF Next, vars, dialogue, ActionRegisterUser, AccountCreated,
                CreateUserFailed, CreateUserAnswered, ProfileStored, ProfileRefused,
                SignInOut, ConnectionChanged, Crash, AddContact, LookupFailed
  <2>2. PICK e \in Emails : LookupAnswered(u, e)
    BY <2>1
  <2>3. /\ e \in lookups[u]
        /\ contatos' = [contatos EXCEPT ![u] = @ \cup Found(u, e)]
    BY <2>2 DEF LookupAnswered
  <2>4. u = a /\ v \in Found(u, e)
    BY <1>2, <2>3 DEF TypeOK
  <2>5. /\ v \in Users /\ v = e.of /\ spelling[v] = e.as
        /\ profile[v] = "stored" \/ v = a
    BY <2>4 DEF Found, Matches
  <2>6. CASE v = a
    <3>1. e # EmailUsuarioLogado(a)
      BY <2>3, <2>4 DEF OwnNeverAsked
    <3>2. e.as = "mixed"
      BY <2>5, <2>6, <3>1 DEF EmailUsuarioLogado, Emails, Spellings
    <3> QED
      BY <1>r, <2>5, <2>6, <3>2
  <2>7. CASE v # a
    BY <1>r, <2>5, <2>7
  <2> QED
    BY <2>6, <2>7
<1> QED
  BY <1>1, <1>2

(* A contact saved by salvarContato is somebody else with a stored profile, *)
(* or oneself if registered with capital letters.                          *)
THEOREM ContactsHaveProfiles == Spec => []ContactsAreOthersProfiles
<1>1. Init => OwnNeverAsked /\ ContactsAreOthersProfiles
  BY DEF Init, OwnNeverAsked, ContactsAreOthersProfiles
<1>2. TypeOK /\ OwnNeverAsked /\ ContactsAreOthersProfiles /\ [Next]_vars
        => OwnNeverAsked' /\ ContactsAreOthersProfiles'
  BY LookupsStep, ContactsStep
<1> QED
  BY <1>1, <1>2, TypeCorrect, PTL DEF Spec

-----------------------------------------------------------------------------
(* What the user is told.                                                  *)

(* The answer to a lookup is told along with the state it was given in, and *)
(* how an e-mail is spelled does not change afterwards.                     *)
LEMMA ReportStep ==
    ASSUME TypeOK, NotRegisteredOnlyUnseen, [Next]_vars
    PROVE  NotRegisteredOnlyUnseen'
<1>r. spelling' = spelling
  BY RegistryStep
<1>1. CASE report' = report
  BY <1>1, <1>r DEF NotRegisteredOnlyUnseen
<1>2. ASSUME NEW u \in Users, NEW e \in Emails, AddContact(u, e), report' # report
      PROVE  NotRegisteredOnlyUnseen'
  <2>1. report'.what = "own"
    BY <1>2 DEF AddContact, Says
  <2> QED
    BY <2>1 DEF NotRegisteredOnlyUnseen
<1>3. ASSUME NEW u \in Users, NEW e \in Emails, LookupAnswered(u, e)
      PROVE  NotRegisteredOnlyUnseen'
  <2>1. /\ report'.what = IF Found(u, e) = {} THEN "notRegistered" ELSE "saved"
        /\ report'.email = e
        /\ report'.online = online[u]
        /\ report'.profile = profile[e.of]
    BY <1>3 DEF LookupAnswered, Says
  <2>2. SUFFICES ASSUME Found(u, e) = {}, e.as = spelling[e.of], online[u],
                        profile[e.of] = "stored"
                 PROVE  FALSE
    BY <1>r, <2>1 DEF NotRegisteredOnlyUnseen
  <2>3. e.of \in Users
    BY DEF Emails
  <2>4. e.of \in Found(u, e)
    BY <2>2, <2>3 DEF Found, Matches
  <2> QED
    BY <2>2, <2>4
<1> QED
  BY <1>1, <1>2, <1>3
     DEF Next, vars, dialogue, ActionRegisterUser, AccountCreated, CreateUserFailed,
         CreateUserAnswered, ProfileStored, ProfileRefused, SignInOut,
         ConnectionChanged, Crash, LookupFailed

(* "Usuario nao cadastrado" is a true answer for a correctly spelled e-mail *)
(* whenever the client was online: the profile was not on the server.       *)
THEOREM NotRegisteredMeansUnseen == Spec => []NotRegisteredOnlyUnseen
<1>1. Init => NotRegisteredOnlyUnseen
  BY DEF Init, NoReport, NotRegisteredOnlyUnseen
<1>2. TypeOK /\ NotRegisteredOnlyUnseen /\ [Next]_vars => NotRegisteredOnlyUnseen'
  BY ReportStep
<1> QED
  BY <1>1, <1>2, TypeCorrect, PTL DEF Spec
=============================================================================
