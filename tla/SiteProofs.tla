--------------------------- MODULE SiteProofs ---------------------------
(* The site: each way in makes one account, and the budgets of attempts     *)
(* hold; links work once and decisions about an account stand; what a member *)
(* put on a film follows it through merges; a list is in the order its edits *)
(* asked for; a member's file is safe to import again; and all of it is      *)
(* typed.  For any number of requests and of whatever they are about, and    *)
(* files of any length.                                                      *)
(*                                                                           *)
(* Joining: that an invite makes one account rests on who holds its lock     *)
(* (`Held`); that setup makes one admin on there being one open form         *)
(* (`OneForm`); a budget is exceeded only by the requests that are past its  *)
(* check (`Room`).  Accounts: `Unspent`, `OneLink` and `AllProven` say what  *)
(* an open click or mint may still do.  FilmMerge: what is merged has an     *)
(* order (`Ordered`), so walking it ends.  Lists: what a request has read of *)
(* the ranks still holds (`InRank`), and alone it has the copy one edit      *)
(* behind (`Told`).  Files: a row that has been imported has nothing left to *)
(* say (`Settled`), and rows that are told apart leave each other at that.   *)
EXTENDS Site, FiniteSetTheorems, SequenceTheorems, WellFoundedInduction,
        TLAPS

Shape ==
  /\ invite \in [Invites -> {"unborn", "live", "used", "expired"}]
  /\ via \in [Names -> {"none", "setup", "open"} \cup Invites]
  /\ req \in [Requests -> [op : Forms \cup {"login", "none"},
                           at : {"idle", "posted", "valid", "locked"},
                           name : Names \cup {"none"},
                           code : Invites \cup {"none"}]]
  /\ \A r \in Requests :
       /\ req[r].op \in Forms => req[r].name \in Names
       /\ req[r].op = "invite" => req[r].code \in Invites

MadeBy(how) == {n \in Names : via[n] = how}
Holds(r) == At(r, "invite", "locked")
InSetup == {r \in Requests : At(r, "setup", "valid")}

\* The lock on an invite has one holder, and what it holds is not spent.
Held ==
  \A r \in Requests : Holds(r) =>
    /\ invite[req[r].code] \in {"live", "expired"}
    /\ \A q \in Requests : Holds(q) /\ req[q].code = req[r].code => q = r

\* An invite is spent when one account was made by it.
Spent ==
  \A i \in Invites :
    IF invite[i] = "used" THEN \E n \in Names : MadeBy(i) = {n}
                          ELSE MadeBy(i) = {}

\* Unless two setup forms have overlapped, one is open at most, and only while
\* there is no admin.
OneForm ==
  ~met => /\ \A q, r \in InSetup : q = r
          /\ InSetup # {} => MadeBy("setup") = {}
          /\ \A m, n \in MadeBy("setup") : m = n

Doors == Shape /\ Held /\ Spent /\ OneForm

\* The requests that are past a surface's check and not counted yet.
Past(s) == {r \in Requests :
              At(r, IF s = "signup" THEN "open" ELSE "login", "posted")}

Room ==
  /\ tries \in [Surfaces -> Nat]
  /\ \A s \in Surfaces :
       tries[s] + Cardinality(Past(s)) <= Limit + Cardinality(Requests) - 1

-----------------------------------------------------------------------------
\* The steps but those that fill in a form.
LEMMA StepCases ==
  [Next]_vars =>
    \/ UNCHANGED vars
    \/ \E r \in Requests :
         \/ \E n \in Names : Setup(r, n) \/ Signup(r, n)
         \/ \E i \in Invites, n \in Names : AcceptInvite(r, i, n)
         \/ ValidateSignup(r) \/ LockLive(r) \/ CreateUser(r) \/ Crash(r)
         \/ LoginPosts(r) \/ LoginFails(r) \/ LoginSucceeds(r)
    \/ \E i \in Invites : InviteCreate(i) \/ InviteExpires(i)
    \/ \E s \in Surfaces : Forget(s)
  BY DEF Next

LEMMA ShapeInit == Init => Shape
  BY DEF Init, Shape, Idle, Forms

LEMMA ShapeStep == Shape /\ [Next]_vars => Shape'
<1> SUFFICES ASSUME Shape, [Next]_vars PROVE Shape'
  OBVIOUS
<1> USE DEF Shape, Forms, Surfaces, Idle, Ends, Goes, At
<1>1. CASE UNCHANGED vars
  BY <1>1 DEF vars
<1>2. ASSUME NEW r \in Requests, NEW n \in Names, Setup(r, n) \/ Signup(r, n)
      PROVE  Shape'
  BY <1>2 DEF Setup, Signup
<1>3. ASSUME NEW r \in Requests, NEW i \in Invites, NEW n \in Names,
             AcceptInvite(r, i, n)
      PROVE  Shape'
  BY <1>3 DEF AcceptInvite
<1>4. ASSUME NEW r \in Requests, ValidateSignup(r) PROVE Shape'
  BY <1>4 DEF ValidateSignup
<1>5. ASSUME NEW r \in Requests, LockLive(r) PROVE Shape'
  BY <1>5 DEF LockLive
<1>6. ASSUME NEW r \in Requests, CreateUser(r) PROVE Shape'
  BY <1>6 DEF CreateUser, Accounts
<1>7. ASSUME NEW r \in Requests,
             Crash(r) \/ LoginPosts(r) \/ LoginFails(r) \/ LoginSucceeds(r)
      PROVE  Shape'
  BY <1>7 DEF Crash, LoginPosts, LoginFails, LoginSucceeds
<1>8. ASSUME NEW i \in Invites, InviteCreate(i) \/ InviteExpires(i)
      PROVE  Shape'
  BY <1>8 DEF InviteCreate, InviteExpires
<1>9. ASSUME NEW s \in Surfaces, Forget(s) PROVE Shape'
  BY <1>9 DEF Forget
<1> QED
  BY StepCases, <1>1, <1>2, <1>3, <1>4, <1>5, <1>6, <1>7, <1>8, <1>9

-----------------------------------------------------------------------------
(* The doors                                                                 *)

\* A step that makes no account, spends no invite and takes no lock.
Aside ==
  /\ via' = via
  /\ \A i \in Invites : /\ invite'[i] = "used" <=> invite[i] = "used"
                        /\ invite[i] \in {"live", "expired"}
                             => invite'[i] \in {"live", "expired"}
  /\ \A r \in Requests : Holds(r)' => Holds(r) /\ req'[r].code = req[r].code

LEMMA AsideKeeps == Doors /\ Shape' /\ Aside => Held' /\ Spent'
<1> SUFFICES ASSUME Doors, Shape', Aside PROVE Held' /\ Spent'
  OBVIOUS
<1>1. Held'
  BY DEF Doors, Held, Aside, Shape, Holds, At
<1>2. Spent'
  BY DEF Doors, Spent, Aside, MadeBy
<1> QED
  BY <1>1, <1>2

\* Of setups, a step that adds no form and no admin.
LEMMA NoNewForm ==
  OneForm /\ InSetup' \subseteq InSetup /\ MadeBy("setup")' = MadeBy("setup")
    /\ met' = met => OneForm'
  BY DEF OneForm

LEMMA StepsAside ==
  Shape /\ [Next]_vars =>
    \/ Aside
    \/ \E r \in Requests : LockLive(r) \/ CreateUser(r)
<1> SUFFICES ASSUME Shape, [Next]_vars,
                    ~ \E r \in Requests : LockLive(r) \/ CreateUser(r)
             PROVE  Aside
  OBVIOUS
<1> USE DEF Shape, Aside, Holds, At, Ends, Goes, Idle
<1>1. CASE UNCHANGED vars
  BY <1>1 DEF vars
<1>2. ASSUME NEW r \in Requests, NEW n \in Names, Setup(r, n) \/ Signup(r, n)
      PROVE  Aside
  BY <1>2 DEF Setup, Signup
<1>3. ASSUME NEW r \in Requests, NEW i \in Invites, NEW n \in Names,
             AcceptInvite(r, i, n)
      PROVE  Aside
  BY <1>3 DEF AcceptInvite
<1>4. ASSUME NEW r \in Requests, ValidateSignup(r) PROVE Aside
  BY <1>4 DEF ValidateSignup
<1>5. ASSUME NEW r \in Requests,
             Crash(r) \/ LoginPosts(r) \/ LoginFails(r) \/ LoginSucceeds(r)
      PROVE  Aside
  BY <1>5 DEF Crash, LoginPosts, LoginFails, LoginSucceeds
<1>6. ASSUME NEW i \in Invites, InviteCreate(i) \/ InviteExpires(i)
      PROVE  Aside
  BY <1>6 DEF InviteCreate, InviteExpires
<1>7. ASSUME NEW s \in Surfaces, Forget(s) PROVE Aside
  BY <1>7 DEF Forget
<1> QED
  BY StepCases, <1>1, <1>2, <1>3, <1>4, <1>5, <1>6, <1>7

\* The lock is given to one request at a time, and only on a live invite.
LEMMA LockLiveKeeps ==
  ASSUME Doors, Shape', NEW r \in Requests, LockLive(r)
  PROVE  Held' /\ Spent'
<1>1. via' = via /\ invite' = invite
  BY DEF LockLive
<1>2. Spent'
  BY <1>1 DEF Doors, Spent, MadeBy
<1>3. ASSUME NEW q \in Requests, Holds(q)'
      PROVE  /\ req'[q].code = req[q].code
             /\ Holds(q) \/ (q = r /\ invite[req[r].code] = "live")
  BY <1>3 DEF LockLive, Holds, At, Goes, Ends, Idle, Doors, Shape
<1>4. \A q \in Requests : Holds(q) /\ Holds(r)' => req[q].code # req[r].code
  BY DEF LockLive, Holds, At, Goes, Ends, Idle, Doors, Shape
<1>5. Held'
  BY <1>1, <1>3, <1>4 DEF Doors, Held
<1> QED
  BY <1>2, <1>5

\* An account made by an invite spends it, in the same transaction.
LEMMA CreateUserKeeps ==
  ASSUME Doors, Shape', NEW r \in Requests, CreateUser(r)
  PROVE  Held' /\ Spent'
<1>0. PICK n, how :
        n = req[r].name /\ how = IF req[r].op = "invite" THEN req[r].code
                                                        ELSE req[r].op
  OBVIOUS
<1>1. /\ n \in Names /\ r \notin {q \in Requests : Holds(q)'}
      /\ \A q \in Requests \ {r} : req'[q] = req[q]
  BY <1>0 DEF CreateUser, Doors, Shape, Ends, Idle, At, Holds, Forms
<1>2. how \in Invites <=> Holds(r)
  BY <1>0, JoiningAssumption DEF CreateUser, Doors, Shape, At, Holds
<1>3. how \in Invites => how = req[r].code
  BY <1>0, <1>2 DEF Holds, At
<1>4. CASE via[n] # "none"
  <2>1. via' = via /\ invite' = invite
    BY <1>0, <1>4, <1>1 DEF CreateUser, Accounts
  <2>2. Aside
    BY <2>1, <1>1 DEF Aside, Holds, At
  <2> QED
    BY <2>2, AsideKeeps
<1>5. CASE via[n] = "none"
  <2>1. /\ via' = [via EXCEPT ![n] = how]
        /\ invite' = IF how \in Invites THEN [invite EXCEPT ![how] = "used"]
                                        ELSE invite
    BY <1>0, <1>5, <1>1 DEF CreateUser, Accounts
  <2>2. Held'
    BY <2>1, <1>1, <1>2, <1>3 DEF Doors, Held, Shape, Holds, At
  <2>3. ASSUME NEW i \in Invites, i # how
        PROVE  MadeBy(i)' = MadeBy(i) /\ invite'[i] = invite[i]
    BY <2>1, <2>3, <1>1, <1>5, JoiningAssumption DEF MadeBy, Doors, Shape
  <2>4. ASSUME how \in Invites
        PROVE  MadeBy(how)' = {n} /\ invite'[how] = "used"
    <3>1. MadeBy(how) = {}
      BY <2>4, <1>2, <1>3 DEF Doors, Held, Spent
    <3>2. via \in [Names -> {"none", "setup", "open"} \cup Invites]
          /\ invite \in [Invites -> {"unborn", "live", "used", "expired"}]
      BY DEF Doors, Shape
    <3>3. invite'[how] = "used"
      BY <3>2, <2>1, <2>4
    <3>4. \A m \in Names : via'[m] = how <=> m = n
      BY <3>1, <3>2, <2>1, <1>1 DEF MadeBy
    <3> QED
      BY <3>3, <3>4, <1>1 DEF MadeBy
  <2>5. Spent'
    <3>1. ASSUME NEW i \in Invites
          PROVE  IF invite'[i] = "used" THEN \E m \in Names : MadeBy(i)' = {m}
                                        ELSE MadeBy(i)' = {}
      <4>1. CASE i = how
        BY <4>1, <2>4, <1>1
      <4>2. CASE i # how
        BY <4>2, <2>3 DEF Doors, Spent
      <4> QED
        BY <4>1, <4>2
    <3> QED
      BY <3>1 DEF Spent
  <2> QED
    BY <2>2, <2>5
<1> QED
  BY <1>4, <1>5

\* A setup form is opened while there is no admin, and leaves one at most.
LEMMA OneFormStep ==
  ASSUME Doors, [Next]_vars
  PROVE  OneForm'
<1> USE DEF Doors, Shape, At, Ends, Goes, Idle
<1>1. ASSUME NEW r \in Requests, NEW n \in Names, Setup(r, n) PROVE OneForm'
  <2>1. /\ MadeBy("setup")' = {} /\ MadeBy("setup") = {}
        /\ InSetup' \subseteq InSetup \cup {r}
        /\ met' = (met \/ InSetup # {})
    BY <1>1 DEF Setup, MadeBy, InSetup, HasAdmin
  <2> QED
    BY <2>1 DEF OneForm
<1>2. ASSUME NEW r \in Requests, CreateUser(r) PROVE OneForm'
  <2>1. met' = met /\ InSetup' = InSetup \ {r}
    BY <1>2 DEF CreateUser, InSetup
  <2>2. CASE req[r].op = "setup"
    <3>1. /\ r \in InSetup
          /\ MadeBy("setup")' \subseteq MadeBy("setup") \cup {req[r].name}
      BY <1>2, <2>2 DEF CreateUser, InSetup, MadeBy, Accounts
    <3> QED
      BY <2>1, <3>1 DEF OneForm
  <2>3. CASE req[r].op # "setup"
    <3>1. MadeBy("setup")' = MadeBy("setup")
      BY <1>2, <2>3, JoiningAssumption DEF CreateUser, MadeBy, Accounts
    <3> QED
      BY <2>1, <3>1, NoNewForm
  <2> QED
    BY <2>2, <2>3
<1>3. CASE ~ \E r \in Requests : CreateUser(r) \/ \E n \in Names : Setup(r, n)
  <2> DEFINE Kept == /\ via' = via /\ met' = met
                     /\ \A r \in Requests : r \in InSetup' => r \in InSetup
  <2>1. Kept
    <3>1. CASE UNCHANGED vars
      BY <3>1 DEF vars, InSetup
    <3>2. ASSUME NEW r \in Requests,
                 \/ \E n \in Names : Signup(r, n)
                 \/ \E i \in Invites, n \in Names : AcceptInvite(r, i, n)
                 \/ ValidateSignup(r) \/ LockLive(r) \/ Crash(r)
          PROVE  Kept
      BY <3>2 DEF Signup, AcceptInvite, ValidateSignup, LockLive, Crash, InSetup
    <3>3. ASSUME NEW r \in Requests,
                 LoginPosts(r) \/ LoginFails(r) \/ LoginSucceeds(r)
          PROVE  Kept
      BY <3>3 DEF LoginPosts, LoginFails, LoginSucceeds, InSetup
    <3>4. ASSUME \/ \E i \in Invites : InviteCreate(i) \/ InviteExpires(i)
                 \/ \E s \in Surfaces : Forget(s)
          PROVE  Kept
      BY <3>4 DEF InviteCreate, InviteExpires, Forget, InSetup
    <3> QED
      BY StepCases, <1>3, <3>1, <3>2, <3>3, <3>4
  <2>2. MadeBy("setup")' = MadeBy("setup") /\ InSetup' \subseteq InSetup
    BY <2>1 DEF MadeBy, InSetup
  <2> QED
    BY <2>1, <2>2, NoNewForm
<1> QED
  BY <1>1, <1>2, <1>3

LEMMA DoorsInit == Init => Doors
<1> SUFFICES ASSUME Init PROVE Doors
  OBVIOUS
<1>1. Held /\ OneForm
  BY DEF Init, Held, OneForm, Holds, At, Idle, InSetup, MadeBy
<1>2. Spent
  BY JoiningAssumption DEF Init, Spent, MadeBy
<1> QED
  BY <1>1, <1>2, ShapeInit DEF Doors

LEMMA DoorsStep == Doors /\ [Next]_vars => Doors'
<1> SUFFICES ASSUME Doors, [Next]_vars PROVE Doors'
  OBVIOUS
<1>1. Shape'
  BY ShapeStep DEF Doors
<1>2. OneForm'
  BY OneFormStep
<1>3. Held' /\ Spent'
  BY <1>1, StepsAside, AsideKeeps, LockLiveKeeps, CreateUserKeeps DEF Doors
<1> QED
  BY <1>1, <1>2, <1>3 DEF Doors

LEMMA DoorsImply == Doors => OneAccountPerDoor
<1> SUFFICES ASSUME Doors PROVE OneAccountPerDoor
  OBVIOUS
<1>1. \A n : Cardinality({n}) = 1
  BY FS_Singleton
<1>2. Cardinality({}) = 0
  BY FS_EmptySet
<1>3. ASSUME NEW i \in Invites
      PROVE  Cardinality({n \in Names : via[n] = i}) =
               IF invite[i] = "used" THEN 1 ELSE 0
  BY <1>1, <1>2 DEF Doors, Spent, MadeBy
<1>4. ASSUME ~met
      PROVE  Cardinality({n \in Names : via[n] = "setup"}) <= 1
  <2>1. \/ MadeBy("setup") = {}
        \/ \E n \in Names : MadeBy("setup") = {n}
    BY <1>4 DEF Doors, OneForm, MadeBy
  <2>2. Cardinality(MadeBy("setup")) <= 1
    BY <2>1, <1>1, <1>2
  <2> QED
    BY <2>2 DEF MadeBy
<1> QED
  BY <1>3, <1>4 DEF OneAccountPerDoor

\* Each way in opens once: an invite is spent when one account was made by it,
\* through double submits, taken names and workers that die, and the first-run
\* page makes one admin, unless it was posted twice at once.
THEOREM DoorsHold == Spec => []OneAccountPerDoor
<1>1. Init => Doors
  BY DoorsInit
<1>2. Doors /\ [Next]_vars => Doors'
  BY DoorsStep
<1> QED
  BY <1>1, <1>2, DoorsImply, PTL DEF Spec

-----------------------------------------------------------------------------
(* The budgets                                                               *)

LEMMA PastIsFinite ==
  ASSUME NEW s \in Surfaces
  PROVE  /\ IsFiniteSet(Past(s)) /\ Cardinality(Past(s)) \in Nat
         /\ Cardinality(Requests) \in Nat
         /\ Cardinality(Past(s)) <= Cardinality(Requests)
  BY FS_Subset, FS_CardinalityType, JoiningAssumption DEF Past

\* What a step may do to one surface: let a request past the check, count one
\* that is past it, or neither.
Budgeted(s) ==
  \/ Past(s)' \subseteq Past(s) /\ tries'[s] <= tries[s]
  \/ \E r \in Past(s) : Past(s)' = Past(s) \ {r} /\ tries'[s] = tries[s] + 1
  \/ \E r \in Requests \ Past(s) :
       Past(s)' = Past(s) \cup {r} /\ tries'[s] = tries[s] /\ tries[s] < Limit

LEMMA BudgetedKeeps ==
  ASSUME Room, tries' \in [Surfaces -> Nat],
         NEW s \in Surfaces, Budgeted(s)
  PROVE  tries'[s] + Cardinality(Past(s)') <= Limit + Cardinality(Requests) - 1
<1> DEFINE P == Past(s)  Q == Past(s)'  all == Cardinality(Requests)
<1>1. /\ IsFiniteSet(P) /\ Cardinality(P) \in Nat /\ all \in Nat
      /\ Limit \in Nat \ {0} /\ tries[s] \in Nat /\ tries'[s] \in Nat
      /\ tries[s] + Cardinality(P) <= Limit + all - 1
  BY PastIsFinite, JoiningAssumption DEF Room
<1> HIDE DEF P, Q, all
<1>2. CASE Q \subseteq P /\ tries'[s] <= tries[s]
  <2>1. Cardinality(Q) \in Nat /\ Cardinality(Q) <= Cardinality(P)
    BY <1>1, <1>2, FS_Subset, FS_CardinalityType
  <2> QED
    BY <1>1, <1>2, <2>1 DEF Q, all
<1>3. ASSUME NEW r \in P, Q = P \ {r}, tries'[s] = tries[s] + 1
      PROVE  tries'[s] + Cardinality(Q) <= Limit + all - 1
  <2>1. Cardinality(Q) = Cardinality(P) - 1
    BY <1>1, <1>3, FS_RemoveElement
  <2> QED
    BY <1>1, <1>3, <2>1
<1>4. ASSUME NEW r \in Requests \ P, Q = P \cup {r}, tries'[s] = tries[s],
             tries[s] < Limit
      PROVE  tries'[s] + Cardinality(Q) <= Limit + all - 1
  <2>1. Q \subseteq Requests /\ IsFiniteSet(Requests)
    BY <1>4, JoiningAssumption DEF P, Past
  <2>2. Cardinality(Q) \in Nat /\ Cardinality(Q) <= all
    BY <2>1, FS_Subset, FS_CardinalityType DEF all
  <2> QED
    BY <1>1, <1>4, <2>2
<1> QED
  BY <1>2, <1>3, <1>4 DEF Budgeted, P, Q, all

\* Requests pass the check at Signup and LoginPosts and are counted at
\* ValidateSignup and LoginFails; the rest takes away.
LEMMA BudgetSteps ==
  ASSUME Shape, Room, [Next]_vars, NEW s \in Surfaces
  PROVE  Budgeted(s) /\ tries' \in [Surfaces -> Nat]
<1> USE DEF Shape, Room, Budgeted, Past, Surfaces, At, Ends, Goes, Idle
<1>1. CASE UNCHANGED vars
  BY <1>1 DEF vars
<1>2. ASSUME NEW r \in Requests, NEW n \in Names, Setup(r, n)
      PROVE  Budgeted(s) /\ tries' = tries
  BY <1>2 DEF Setup
<1>3. ASSUME NEW r \in Requests, NEW n \in Names, Signup(r, n)
      PROVE  Budgeted(s) /\ tries' = tries
  <2>1. req'[r].op = "open" /\ req'[r].at = "posted" /\ r \notin Past("signup")
        /\ \A q \in Requests \ {r} : req'[q] = req[q]
    BY <1>3 DEF Signup
  <2>2. tries["signup"] < Limit
    BY <1>3, JoiningAssumption DEF Signup, Blocked
  <2>3. Past("signup")' = Past("signup") \cup {r} /\ Past("login")' = Past("login")
    BY <2>1, <1>3 DEF Signup
  <2>4. tries' = tries
    BY <1>3 DEF Signup
  <2> QED
    BY <2>1, <2>2, <2>3, <2>4
<1>4. ASSUME NEW r \in Requests, NEW i \in Invites, NEW n \in Names,
             AcceptInvite(r, i, n)
      PROVE  Budgeted(s) /\ tries' = tries
  BY <1>4 DEF AcceptInvite
<1>5. ASSUME NEW r \in Requests, ValidateSignup(r)
      PROVE  Budgeted(s) /\ tries' \in [Surfaces -> Nat]
  BY <1>5 DEF ValidateSignup, Record
<1>6. ASSUME NEW r \in Requests, LockLive(r) \/ CreateUser(r) \/ Crash(r)
      PROVE  Budgeted(s) /\ tries' = tries
  BY <1>6 DEF LockLive, CreateUser, Crash
<1>7. ASSUME NEW r \in Requests, LoginPosts(r)
      PROVE  Budgeted(s) /\ tries' = tries
  <2>1. req'[r].op = "login" /\ req'[r].at = "posted" /\ r \notin Past("login")
        /\ \A q \in Requests \ {r} : req'[q] = req[q]
    BY <1>7 DEF LoginPosts
  <2>2. tries["login"] < Limit
    BY <1>7, JoiningAssumption DEF LoginPosts, Blocked
  <2>3. Past("login")' = Past("login") \cup {r} /\ Past("signup")' = Past("signup")
    BY <2>1, <1>7 DEF LoginPosts
  <2>4. tries' = tries
    BY <1>7 DEF LoginPosts
  <2> QED
    BY <2>1, <2>2, <2>3, <2>4
<1>8. ASSUME NEW r \in Requests, LoginFails(r)
      PROVE  Budgeted(s) /\ tries' \in [Surfaces -> Nat]
  BY <1>8 DEF LoginFails, Record
<1>9. ASSUME NEW r \in Requests, LoginSucceeds(r)
      PROVE  Budgeted(s) /\ tries' \in [Surfaces -> Nat]
  BY <1>9 DEF LoginSucceeds
<1>10. ASSUME NEW i \in Invites, InviteCreate(i) \/ InviteExpires(i)
       PROVE  Budgeted(s) /\ tries' = tries
  BY <1>10 DEF InviteCreate, InviteExpires
<1>11. ASSUME NEW t \in Surfaces, Forget(t)
       PROVE  Budgeted(s) /\ tries' \in [Surfaces -> Nat]
  BY <1>11 DEF Forget
<1> QED
  BY StepCases, <1>1, <1>2, <1>3, <1>4, <1>5, <1>6, <1>7, <1>8, <1>9, <1>10,
     <1>11

LEMMA RoomInit == Init => Room
<1> SUFFICES ASSUME Init PROVE Room
  OBVIOUS
<1>1. \A s \in Surfaces : Past(s) = {}
  BY DEF Init, Past, At, Idle
<1>2. Cardinality({}) = 0 /\ Cardinality(Requests) \in Nat
  BY FS_EmptySet, FS_CardinalityType, JoiningAssumption
<1>3. Limit \in Nat \ {0}
  BY JoiningAssumption
<1>4. 0 + 0 <= Limit + Cardinality(Requests) - 1
  BY <1>2, <1>3
<1>5. tries = [s \in Surfaces |-> 0]
  BY DEF Init
<1> QED
  BY <1>1, <1>2, <1>4, <1>5 DEF Room

LEMMA RoomStep ==
  Shape /\ Room /\ [Next]_vars => Room'
<1> SUFFICES ASSUME Shape, Room, [Next]_vars PROVE Room'
  OBVIOUS
<1>1. tries' \in [Surfaces -> Nat]
  BY BudgetSteps DEF Surfaces
<1>2. ASSUME NEW s \in Surfaces
      PROVE  tries'[s] + Cardinality(Past(s)')
               <= Limit + Cardinality(Requests) - 1
  BY <1>1, <1>2, BudgetSteps, BudgetedKeeps
<1> QED
  BY <1>1, <1>2 DEF Room

MetType == met \in BOOLEAN

LEMMA MetInit == Init => MetType
  BY Zenon DEF Init, MetType

LEMMA MetStep == MetType /\ [Next]_vars => MetType'
<1> SUFFICES ASSUME MetType, [Next]_vars PROVE MetType'
  OBVIOUS
<1>1. ASSUME NEW r \in Requests, NEW n \in Names, Setup(r, n)
      PROVE  MetType'
  BY <1>1, Zenon DEF Setup, MetType
<1>2. CASE ~ \E r \in Requests, n \in Names : Setup(r, n)
  <2>1. met' = met
    BY <1>2, Zenon DEF Next, vars, Signup, AcceptInvite, ValidateSignup, LockLive,
       CreateUser, Crash, LoginPosts, LoginFails, LoginSucceeds, InviteCreate,
       InviteExpires, Forget
  <2> QED
    BY <2>1 DEF MetType
<1> QED
  BY <1>1, <1>2

LEMMA RoomImplies ==
  Shape /\ Room /\ MetType => TypeOK
<1> SUFFICES ASSUME Shape, Room, MetType PROVE TypeOK
  OBVIOUS
<1>1. ASSUME NEW s \in Surfaces
      PROVE  tries[s] \in 0..(Limit + Cardinality(Requests) - 1)
  BY PastIsFinite, JoiningAssumption DEF Room
<1>2. tries \in [Surfaces -> 0..(Limit + Cardinality(Requests) - 1)]
  BY <1>1 DEF Room
<1> QED
  BY <1>2 DEF TypeOK, Shape, MetType

\* Types, and with them the budgets: the attempts counted on a surface exceed
\* its limit by no more than the requests that were past the check less one.
THEOREM BudgetsHold == Spec => []TypeOK
<1>1. Init => Shape /\ Room /\ MetType
  BY ShapeInit, RoomInit, MetInit
<1>2. Shape /\ Room /\ MetType /\ [Next]_vars =>
        Shape' /\ Room' /\ MetType'
  BY ShapeStep, RoomStep, MetStep
<1>3. Shape /\ Room /\ MetType => TypeOK
  BY RoomImplies
<1> QED
  BY <1>1, <1>2, <1>3, PTL DEF Spec
-----------------------------------------------------------------------------
(* Accounts                                                                  *)

Clicks(r) == req1[r].op \in {"verify", "redeem"}

Asking == [op : {"none", "resend", "reset", "verify", "redeem", "profile",
                 "admin"},
           at : {"idle", "checked", "minting"},
           on : A!Links \cup Addresses \cup {"none"},
           saw : A!Rows \cup {A!NoRow}, takes : SUBSET A!Links]

\* What a request is about is of the kind its operation takes, and it
\* supersedes only tokens there are.
Sensible(j) ==
  /\ j.op = "verify" => j.on \in Verifications
  /\ j.op = "redeem" => j.on \in Resets
  /\ j.op \in {"profile", "admin"} => j.saw \in A!Rows
  /\ j.op = "admin" => j.on \in Addresses
  /\ j.at = "minting" => j.op \in {"resend", "reset"}
  /\ \A t \in j.takes : link[t].state # "unborn"

Token == [state : {"unborn", "live", "dead"}, to : Addresses \cup {"none"}]

AccountShape ==
  /\ account \in A!Rows /\ meant \in A!Rows
  /\ link \in [A!Links -> Token]
  /\ recent \subseteq {t \in A!Links : link[t].state # "unborn"}
  /\ spent \in [A!Links -> 0..2]
  /\ req1 \in [Requests -> Asking]
  /\ met1 \subseteq {"stale_row", "two_resets"} /\ unasked \in 0..MaxUnasked
  /\ \A r \in Requests : Sensible(req1[r])

\* A token that was accepted is dead; one that a click has locked was not, and
\* no second click has it.
Unspent ==
  /\ \A t \in A!Links : spent[t] # 0 => spent[t] = 1 /\ link[t].state = "dead"
  /\ \A r \in Requests : Clicks(r) =>
       /\ spent[req1[r].on] = 0 /\ link[req1[r].on].state # "unborn"
       /\ \A q \in Requests : Clicks(q) /\ req1[q].on = req1[r].on => q = r

\* One link of a kind is live, and whoever mints the next supersedes it.
OneLink(kind, op) ==
  /\ \A s, t \in A!Live(kind) : s = t
  /\ \A r \in Requests : A!At(r, op, "minting") =>
       /\ A!Live(kind) \subseteq req1[r].takes
       /\ \A q \in Requests : A!At(q, op, "minting") => q = r

Proven(a) == a # "none" =>
  \E t \in Verifications : spent[t] = 1 /\ link[t].to = a

\* What a page has loaded was proven too, and may be saved again.
AllProven ==
  Proven(account.proven) /\ \A r \in Requests : Proven(req1[r].saw.proven)

Links ==
  /\ OneLink(Verifications, "resend")
  /\ "two_resets" \notin met1 => OneLink(Resets, "reset")

AccountInv == AccountShape /\ Unspent /\ Links /\ AllProven /\ A!DecisionsStand

-----------------------------------------------------------------------------
\* A token's life goes one way, and it keeps its address.
Grows ==
  \A t \in A!Links : link[t].state # "unborn" =>
    /\ link'[t].state # "unborn" /\ link'[t].to = link[t].to
    /\ link[t].state = "dead" => link'[t].state = "dead"

\* A request that is at something new is typed, or all are what they were or at
\* rest.
Turned(r, j) == j \in Asking /\ req1' = [req1 EXCEPT ![r] = j]

LEMMA OneLinkStays ==
  ASSUME NEW kind, NEW op, OneLink(kind, op), A!Live(kind)' \subseteq A!Live(kind),
         \A r \in Requests : A!At(r, op, "minting")' =>
           A!At(r, op, "minting") /\ req1'[r].takes = req1[r].takes
  PROVE  OneLink(kind, op)'
<1>1. \A s, t \in A!Live(kind)' : s = t
  BY DEF OneLink
<1>2. ASSUME NEW r \in Requests, A!At(r, op, "minting")'
      PROVE  A!Live(kind)' \subseteq req1'[r].takes
  BY <1>2 DEF OneLink
<1>3. ASSUME NEW r \in Requests, A!At(r, op, "minting")',
             NEW q \in Requests, A!At(q, op, "minting")'
      PROVE  q = r
  BY <1>3 DEF OneLink
<1> QED
  BY <1>1, <1>2, <1>3 DEF OneLink

\* An account as it is made has one live link.
LEMMA AccountInit == A!Init => AccountInv
<1> SUFFICES ASSUME NEW a \in Addresses, NEW v \in Verifications,
               /\ account = [email |-> a, proven |-> "none",
                             password |-> "first", barred |-> FALSE]
               /\ meant = account
               /\ link = [t \in A!Links |-> IF t = v
                            THEN [state |-> "live", to |-> a]
                            ELSE [state |-> "unborn", to |-> "none"]]
               /\ recent = {v} /\ spent = [t \in A!Links |-> 0]
               /\ req1 = [r \in Requests |-> A!Idle]
               /\ met1 = {} /\ unasked = 0
             PROVE  AccountInv
  BY DEF A!Init
<1>1. A!Idle \in Asking /\ A!Idle.op = "none" /\ A!Idle.at = "idle"
      /\ A!Idle.saw.proven = "none" /\ A!Idle.takes = {}
  BY DEF A!Idle, A!NoRow, Asking
<1>2. AccountShape
  BY <1>1, SiteAssumption DEF AccountShape, Token, A!Rows, A!Links, Sensible
<1>3. Unspent
  BY <1>1 DEF Unspent, Clicks
<1>4. A!Live(Verifications) \subseteq {v} /\ A!Live(Resets) = {}
  BY SiteAssumption DEF A!Live, A!Links
<1>5. Links
  BY <1>1, <1>4 DEF Links, OneLink, A!At
<1>6. AllProven
  BY <1>1 DEF AllProven, Proven
<1> QED
  BY <1>2, <1>3, <1>5, <1>6 DEF AccountInv, A!DecisionsStand

-----------------------------------------------------------------------------
\* A request begins, or goes on to what it will mint, and the tokens stay.
LEMMA Asks ==
  ASSUME AccountInv, NEW r \in Requests, NEW j,
         Turned(r, j), Sensible(j), Proven(j.saw.proven),
         UNCHANGED <<account, meant, link, recent, spent>>,
         met1 \subseteq met1', met1' \subseteq {"stale_row", "two_resets"},
         unasked' \in 0..MaxUnasked,
         j.op \in {"verify", "redeem"} =>
           /\ ~A!Locked(j.on)
           /\ spent[j.on] = 0 /\ link[j.on].state # "unborn",
         j.at = "minting" /\ j.op = "resend" =>
           ~A!RowLocked /\ j.takes = A!Live(Verifications),
         j.at = "minting" /\ j.op = "reset" =>
           /\ j.takes = A!Live(Resets)
           /\ "two_resets" \notin met1' =>
                \A q \in Requests : ~A!At(q, "reset", "minting")
  PROVE  AccountInv'
<1> USE DEF AccountInv, Turned
<1>1. \A q \in Requests : req1'[q] = IF q = r THEN j ELSE req1[q]
  BY DEF AccountShape
<1>2. AccountShape'
  <2>1. req1' \in [Requests -> Asking]
    BY DEF AccountShape
  <2>2. \A q \in Requests : Sensible(req1[q])'
    BY <1>1 DEF AccountShape, Sensible
  <2> QED
    BY <2>1, <2>2 DEF AccountShape
<1>3. Unspent'
  <2>1. \A q \in Requests : Clicks(q) /\ Clicks(r)' => req1[q].on # j.on
    BY <1>1 DEF Clicks, A!Locked
  <2> QED
    BY <1>1, <2>1 DEF Unspent, Clicks
<1>4. \A kind : A!Live(kind)' = A!Live(kind)
  BY DEF A!Live
<1>5. OneLink(Verifications, "resend")'
  <2>1. CASE j.at = "minting" /\ j.op = "resend"
    BY <1>1, <1>4, <2>1 DEF Links, OneLink, A!At, A!RowLocked
  <2>2. CASE ~(j.at = "minting" /\ j.op = "resend")
    BY <1>1, <1>4, <2>2, OneLinkStays DEF Links, A!At
  <2> QED
    BY <2>1, <2>2
<1>6. "two_resets" \notin met1' => OneLink(Resets, "reset")'
  <2>1. CASE j.at = "minting" /\ j.op = "reset"
    BY <1>1, <1>4, <2>1 DEF Links, OneLink, A!At
  <2>2. CASE ~(j.at = "minting" /\ j.op = "reset")
    BY <1>1, <1>4, <2>2, OneLinkStays DEF Links, A!At
  <2> QED
    BY <2>1, <2>2
<1>7. AllProven'
  BY <1>1 DEF AllProven, Proven
<1>8. A!DecisionsStand'
  BY DEF A!DecisionsStand
<1> QED
  BY <1>2, <1>3, <1>5, <1>6, <1>7, <1>8 DEF Links

LEMMA AsksKeep ==
  ASSUME AccountInv, NEW r \in Requests,
         \/ A!RequestResend(r) \/ A!RequestReset(r) \/ A!Supersede(r)
         \/ \E t \in A!Links : A!Click(r, t)
         \/ A!ProfilePage(r) \/ \E a \in Addresses : A!AdminPage(r, a)
  PROVE  AccountInv'
<1> DEFINE Asked(op, at, on, saw, takes) ==
      [op |-> op, at |-> at, on |-> on, saw |-> saw, takes |-> takes]
<1>0. /\ account \in A!Rows /\ Proven(account.proven)
      /\ req1[r] \in Asking /\ Proven(req1[r].saw.proven)
      /\ met1 \subseteq {"stale_row", "two_resets"} /\ unasked \in 0..MaxUnasked
  BY DEF AccountInv, AccountShape, AllProven
<1>1. CASE A!RequestResend(r)
  <2> DEFINE j == Asked("resend", "minting", "none", account,
                        A!Live(Verifications))
  <2>1. Turned(r, j) /\ Sensible(j)
    BY <1>0, <1>1 DEF A!RequestResend, A!Goes, Turned, Asking, A!Live, A!Links,
       Sensible
  <2> QED
    BY <1>0, <1>1, <2>1, Asks DEF A!RequestResend
<1>2. CASE A!RequestReset(r)
  <2> DEFINE j == Asked("reset", "checked", "none", account, {})
  <2>1. Turned(r, j) /\ Sensible(j)
    BY <1>0, <1>2 DEF A!RequestReset, A!Goes, Turned, Asking, Sensible
  <2> QED
    BY <1>0, <1>2, <2>1, Asks DEF A!RequestReset
<1>3. CASE A!Supersede(r)
  <2> DEFINE j == Asked("reset", "minting", "none", req1[r].saw, A!Live(Resets))
  <2>1. Turned(r, j) /\ Sensible(j)
    BY <1>0, <1>3 DEF A!Supersede, A!Goes, Turned, Asking, A!Live, A!Links,
       Sensible
  <2>2. /\ met1 \subseteq met1' /\ met1' \subseteq {"stale_row", "two_resets"}
        /\ "two_resets" \notin met1' =>
             \A q \in Requests : ~A!At(q, "reset", "minting")
    BY <1>0, <1>3 DEF A!Supersede
  <2> QED
    BY <1>0, <1>3, <2>1, <2>2, Asks DEF A!Supersede
<1>4. ASSUME NEW t \in A!Links, A!Click(r, t) PROVE AccountInv'
  <2> DEFINE op == IF t \in Resets THEN "redeem" ELSE "verify"
             j == Asked(op, "checked", t, account, {})
  <2>1. Turned(r, j) /\ Sensible(j)
    BY <1>0, <1>4 DEF A!Click, A!Goes, Turned, Asking, Sensible, A!Links
  <2>2. ~A!Locked(t) /\ spent[t] = 0 /\ link[t].state # "unborn"
    BY <1>4 DEF A!Click, A!LockLive, A!Live, AccountInv, Unspent
  <2> QED
    BY <1>0, <1>4, <2>1, <2>2, Asks DEF A!Click
<1>5. CASE A!ProfilePage(r)
  <2> DEFINE j == Asked("profile", "checked", "none", account, {})
  <2>1. Turned(r, j) /\ Sensible(j)
    BY <1>0, <1>5 DEF A!ProfilePage, A!Goes, Turned, Asking, Sensible
  <2> QED
    BY <1>0, <1>5, <2>1, Asks DEF A!ProfilePage
<1>6. ASSUME NEW a \in Addresses, A!AdminPage(r, a) PROVE AccountInv'
  <2> DEFINE j == Asked("admin", "checked", a, account, {})
  <2>1. Turned(r, j) /\ Sensible(j)
    BY <1>0, <1>6 DEF A!AdminPage, A!Goes, Turned, Asking, Sensible
  <2>2. unasked' \in 0..MaxUnasked
    BY <1>0, <1>6, SiteAssumption DEF A!AdminPage, A!Unasked
  <2> QED
    BY <1>0, <1>6, <2>1, <2>2, Asks DEF A!AdminPage
<1> QED
  BY <1>1, <1>2, <1>3, <1>4, <1>5, <1>6
-----------------------------------------------------------------------------
\* No request does more than come to rest, and no token more than grow: a token
\* is accepted only as it dies, and no click is left that holds it.
LEMMA Settles ==
  ASSUME AccountInv, Grows,
         req1' \in [Requests -> Asking],
         \A q \in Requests : req1'[q] \in {req1[q], A!Idle},
         link' \in [A!Links -> Token],
         spent' \in [A!Links -> 0..2],
         \A t \in A!Links : spent'[t] # spent[t] =>
           /\ spent'[t] = 1 /\ link'[t].state = "dead"
           /\ \A q \in Requests : Clicks(q)' => req1'[q].on # t,
         account' \in A!Rows, meant' \in A!Rows, Proven(account.proven)',
         recent' \subseteq {t \in A!Links : link'[t].state # "unborn"},
         met1' \subseteq {"stale_row", "two_resets"}, unasked' \in 0..MaxUnasked
  PROVE  AccountShape' /\ Unspent' /\ AllProven'
<1> USE DEF AccountInv
<1>1. A!Idle.op = "none" /\ A!Idle.at = "idle" /\ A!Idle.takes = {}
      /\ A!Idle.saw.proven = "none" /\ A!Idle.on = "none"
  BY DEF A!Idle, A!NoRow
<1>2. ASSUME NEW q \in Requests PROVE Sensible(req1[q])'
  <2>1. Sensible(req1[q]) /\ req1[q].takes \subseteq A!Links
    BY DEF AccountShape, Asking
  <2>2. CASE req1'[q] = req1[q]
    BY <2>1, <2>2 DEF Sensible, Grows
  <2>3. CASE req1'[q] = A!Idle
    BY <1>1, <2>3 DEF Sensible
  <2> QED
    BY <2>2, <2>3
<1>3. AccountShape'
  BY <1>2 DEF AccountShape
<1>4. ASSUME NEW q \in Requests, Clicks(q)'
      PROVE  /\ Clicks(q) /\ req1'[q] = req1[q] /\ req1[q].on \in A!Links
  BY <1>1, <1>4 DEF Clicks, AccountShape, Sensible, A!Links
<1>5. Unspent'
  <2>1. ASSUME NEW t \in A!Links, spent'[t] # 0
        PROVE  spent'[t] = 1 /\ link'[t].state = "dead"
    BY <2>1 DEF Unspent, Grows
  <2>2. ASSUME NEW q \in Requests, Clicks(q)'
        PROVE  spent'[req1'[q].on] = 0 /\ link'[req1'[q].on].state # "unborn"
    BY <1>4, <2>2 DEF Unspent, Grows
  <2>3. ASSUME NEW q \in Requests, NEW p \in Requests, Clicks(q)', Clicks(p)',
               req1'[p].on = req1'[q].on
        PROVE  p = q
    BY <1>4, <2>3 DEF Unspent
  <2> QED
    BY <2>1, <2>2, <2>3 DEF Unspent
<1>6. AllProven'
  <2>1. ASSUME NEW t \in Verifications, spent[t] = 1
        PROVE  spent'[t] = 1 /\ link'[t].to = link[t].to
    BY <2>1 DEF A!Links, Unspent, Grows
  <2>2. ASSUME NEW q \in Requests PROVE Proven(req1[q].saw.proven)'
    BY <1>1, <2>1 DEF AllProven, Proven
  <2> QED
    BY <2>2 DEF AllProven
<1> QED
  BY <1>3, <1>5, <1>6

\* What is proven stays so.
LEMMA ProvenStays ==
  ASSUME AccountInv, Grows, \A t \in A!Links : spent[t] = 1 => spent'[t] = 1
  PROVE  \A a : Proven(a) =>
           (a # "none" =>
              \E t \in Verifications : spent'[t] = 1 /\ link'[t].to = a)
<1>1. ASSUME NEW t \in Verifications, spent[t] = 1
      PROVE  spent'[t] = 1 /\ link'[t].to = link[t].to
  BY <1>1 DEF A!Links, AccountInv, Unspent, Grows
<1> QED
  BY <1>1 DEF Proven

\* The request that ends leaves the others alone.
LEMMA EndsWell ==
  ASSUME AccountInv, NEW r \in Requests, A!Ends(r)
  PROVE  /\ req1' \in [Requests -> Asking]
         /\ \A q \in Requests : req1'[q] = IF q = r THEN A!Idle ELSE req1[q]
         /\ ~Clicks(r)'
<1>1. A!Idle \in Asking /\ A!Idle.op = "none"
  BY DEF A!Idle, A!NoRow, Asking
<1> QED
  BY <1>1 DEF A!Ends, AccountInv, AccountShape, Clicks

-----------------------------------------------------------------------------
\* A mint supersedes tokens and makes new ones, which nobody has spent.
LEMMA MintGrows ==
  ASSUME AccountInv, NEW new \in SUBSET A!Links, NEW addr, NEW takes,
         addr \in Addresses \cup {"none"}, takes \subseteq A!Links,
         A!Minted(new, addr, takes)
  PROVE  /\ Grows
         /\ link' \in [A!Links -> Token]
         /\ recent' \subseteq {t \in A!Links : link'[t].state # "unborn"}
         /\ \A t \in A!Links : link'[t].state = "live" <=>
              t \in new \/ (link[t].state = "live" /\ t \notin takes)
<1>1. /\ link \in [A!Links -> Token]
      /\ recent \subseteq {t \in A!Links : link[t].state # "unborn"}
  BY DEF AccountInv, AccountShape
<1>2. \A t \in A!Links : link[t] \in Token
  BY <1>1
<1>3. ASSUME NEW t \in A!Links, t \in new
      PROVE  /\ link[t].state = "unborn" /\ link'[t] \in Token
             /\ link'[t].state = "live"
  <2>1. link'[t] = [state |-> "live", to |-> addr]
    BY <1>3 DEF A!Minted
  <2> QED
    BY <1>3, <2>1 DEF A!Minted, Token
<1>4. ASSUME NEW t \in A!Links, t \notin new, t \in takes
      PROVE  /\ link'[t] \in Token /\ link'[t].state = "dead"
             /\ link'[t].to = link[t].to
  <2>1. link'[t] = [link[t] EXCEPT !.state = "dead"]
    BY <1>4 DEF A!Minted
  <2> QED
    BY <1>2, <2>1 DEF Token
<1>5. ASSUME NEW t \in A!Links, t \notin new, t \notin takes
      PROVE  link'[t] = link[t]
  BY <1>5 DEF A!Minted
<1>6. Grows
  BY <1>3, <1>4, <1>5 DEF Grows
<1>7. link' \in [A!Links -> Token]
  <2>1. \A t \in A!Links : link'[t] \in Token
    BY <1>2, <1>3, <1>4, <1>5
  <2>2. link' = [t \in A!Links |-> link'[t]]
    BY DEF A!Minted
  <2> QED
    BY <2>1, <2>2
<1>8. recent' \subseteq {t \in A!Links : link'[t].state # "unborn"}
  BY <1>1, <1>3, <1>6 DEF A!Minted, Grows
<1>9. \A t \in A!Links : link'[t].state = "live" <=>
        t \in new \/ (link[t].state = "live" /\ t \notin takes)
  BY <1>3, <1>4, <1>5
<1> QED
  BY <1>6, <1>7, <1>8, <1>9

LEMMA Mints ==
  ASSUME AccountInv, NEW r \in Requests, NEW new \in A!Links, A!Mint(r, new)
  PROVE  AccountInv'
<1> DEFINE addr == req1[r].saw.email
           takes == req1[r].takes
<1>1. /\ req1[r] \in Asking /\ req1[r].op \in {"resend", "reset"}
      /\ req1[r].at = "minting" /\ A!Minted({new}, addr, takes) /\ A!Ends(r)
      /\ new \in IF req1[r].op = "reset" THEN Resets ELSE Verifications
      /\ UNCHANGED <<account, meant, spent, met1, unasked>>
  BY DEF A!Mint, AccountInv, AccountShape, Sensible
<1>2. addr \in Addresses \cup {"none"} /\ takes \subseteq A!Links
  BY <1>1 DEF Asking, A!Rows, A!NoRow
<1>3. /\ Grows
      /\ link' \in [A!Links -> Token]
      /\ recent' \subseteq {t \in A!Links : link'[t].state # "unborn"}
      /\ \A t \in A!Links : link'[t].state = "live" <=>
           t = new \/ (link[t].state = "live" /\ t \notin takes)
  <2> DEFINE one == {new}
  <2>1. one \in SUBSET A!Links /\ A!Minted(one, addr, takes)
    BY <1>1
  <2>2. \A t : t \in one <=> t = new
    OBVIOUS
  <2> HIDE DEF addr, takes, one
  <2>3. /\ Grows
        /\ link' \in [A!Links -> Token]
        /\ recent' \subseteq {t \in A!Links : link'[t].state # "unborn"}
        /\ \A t \in A!Links : link'[t].state = "live" <=>
             t \in one \/ (link[t].state = "live" /\ t \notin takes)
    BY <1>2, <2>1, MintGrows
  <2> QED
    BY <2>2, <2>3
<1>4. /\ req1' \in [Requests -> Asking]
      /\ \A q \in Requests : req1'[q] = IF q = r THEN A!Idle ELSE req1[q]
  BY <1>1, EndsWell
<1>5. Proven(account.proven)'
  BY <1>1, <1>3, ProvenStays DEF AccountInv, AllProven, Proven
<1>6. AccountShape' /\ Unspent' /\ AllProven'
  BY <1>1, <1>3, <1>4, <1>5, Settles DEF AccountInv, AccountShape
<1>7. A!Idle.at = "idle"
  BY DEF A!Idle
<1>8. \A kind \in SUBSET A!Links : A!Live(kind)' =
        {t \in kind : t = new \/ (link[t].state = "live" /\ t \notin takes)}
  BY <1>3 DEF A!Live
<1>9. Verifications \subseteq A!Links /\ Resets \subseteq A!Links
  BY DEF A!Links
<1>10. OneLink(Verifications, "resend")'
  <2>1. OneLink(Verifications, "resend")
    BY DEF AccountInv, Links
  <2>2. CASE req1[r].op = "resend"
    BY <1>1, <1>4, <1>7, <1>8, <1>9, <2>1, <2>2 DEF OneLink, A!At, A!Live
  <2>3. CASE req1[r].op = "reset"
    <3>1. A!Live(Verifications)' \subseteq A!Live(Verifications)
      BY <1>1, <1>8, <1>9, <2>3, SiteAssumption DEF A!Live
    <3> QED
      BY <1>4, <1>7, <2>1, <3>1, OneLinkStays DEF A!At
  <2> QED
    BY <1>1, <2>2, <2>3
<1>11. ASSUME "two_resets" \notin met1' PROVE OneLink(Resets, "reset")'
  <2>1. OneLink(Resets, "reset")
    BY <1>1, <1>11 DEF AccountInv, Links
  <2>2. CASE req1[r].op = "reset"
    BY <1>1, <1>4, <1>7, <1>8, <1>9, <2>1, <2>2 DEF OneLink, A!At, A!Live
  <2>3. CASE req1[r].op = "resend"
    <3>1. A!Live(Resets)' \subseteq A!Live(Resets)
      BY <1>1, <1>8, <1>9, <2>3, SiteAssumption DEF A!Live
    <3> QED
      BY <1>4, <1>7, <2>1, <3>1, OneLinkStays DEF A!At
  <2> QED
    BY <1>1, <2>2, <2>3
<1>12. A!DecisionsStand'
  BY <1>1 DEF AccountInv, A!DecisionsStand
<1> QED
  BY <1>6, <1>10, <1>11, <1>12 DEF AccountInv, Links
-----------------------------------------------------------------------------
\* A step that makes no link live, and leaves every mint under way as it is or
\* ends it.
LEMMA LinksStay ==
  ASSUME AccountInv, met1 \subseteq met1',
         \A t \in A!Links : link'[t].state = "live" => link[t].state = "live",
         \A q \in Requests : req1'[q] \in {req1[q], A!Idle}
  PROVE  Links'
<1>1. A!Live(Verifications)' \subseteq A!Live(Verifications)
      /\ A!Live(Resets)' \subseteq A!Live(Resets)
  BY DEF A!Live, A!Links
<1>2. A!Idle.at = "idle"
  BY DEF A!Idle
<1>3. OneLink(Verifications, "resend")'
  BY <1>1, <1>2, OneLinkStays DEF AccountInv, Links, A!At
<1>4. "two_resets" \notin met1' => OneLink(Resets, "reset")'
  BY <1>1, <1>2, OneLinkStays DEF AccountInv, Links, A!At
<1> QED
  BY <1>3, <1>4 DEF Links

\* A click that is completed spends its link.
LEMMA SpendsOnce ==
  ASSUME AccountInv, NEW r \in Requests, NEW t, t = req1[r].on, Clicks(r),
         A!Spend(t), A!Ends(r)
  PROVE  /\ Grows /\ t \in A!Links /\ spent'[t] = 1
         /\ link' \in [A!Links -> Token] /\ spent' \in [A!Links -> 0..2]
         /\ \A u \in A!Links :
              /\ link'[u].state # link[u].state => link'[u].state = "dead"
              /\ link'[u].to = link[u].to
              /\ spent'[u] # spent[u] =>
                   /\ spent'[u] = 1 /\ link'[u].state = "dead"
                   /\ \A q \in Requests : Clicks(q)' => req1'[q].on # u
<1>1. t \in A!Links /\ spent[t] = 0
  BY DEF AccountInv, AccountShape, Unspent, Clicks, Sensible, A!Links
<1>2. link \in [A!Links -> Token] /\ spent \in [A!Links -> 0..2]
  BY DEF AccountInv, AccountShape
<1>3. \A u \in A!Links : link[u] \in Token
  BY <1>2
<1>4. link'[t].state = "dead" /\ link'[t].to = link[t].to /\ link'[t] \in Token
  <2>1. link'[t] = [link[t] EXCEPT !.state = "dead"]
    BY <1>1, <1>2 DEF A!Spend
  <2> QED
    BY <1>1, <1>3, <2>1 DEF Token
<1>5. \A u \in A!Links : u # t => link'[u] = link[u]
  BY <1>2 DEF A!Spend
<1>6. Grows
  BY <1>4, <1>5 DEF Grows
<1>7. link' \in [A!Links -> Token]
  BY <1>2, <1>3, <1>4, <1>5 DEF A!Spend
<1>8. spent' \in [A!Links -> 0..2] /\ spent'[t] = 1
      /\ \A u \in A!Links : u # t => spent'[u] = spent[u]
  BY <1>1, <1>2 DEF A!Spend
<1>9. ASSUME NEW q \in Requests, Clicks(q)' PROVE req1'[q].on # t
  <2>1. q # r /\ req1'[q] = req1[q]
    BY <1>9, EndsWell
  <2> QED
    BY <1>9, <2>1 DEF AccountInv, Unspent, Clicks
<1> QED
  BY <1>1, <1>4, <1>5, <1>6, <1>7, <1>8, <1>9

\* EmailVerificationToken.consume
LEMMA Consumes ==
  ASSUME AccountInv, NEW r \in Requests, A!Consume(r)
  PROVE  AccountInv'
<1> DEFINE a == link[req1[r].on].to
<1>1. PICK t : t = req1[r].on
  OBVIOUS
<1>2. /\ Clicks(r) /\ A!Spend(t) /\ A!Ends(r) /\ t \in Verifications
      /\ UNCHANGED <<recent, met1, unasked>>
  BY <1>1 DEF A!Consume, A!At, Clicks, AccountInv, AccountShape, Sensible
<1>3. /\ Grows /\ t \in A!Links /\ spent'[t] = 1
      /\ link' \in [A!Links -> Token] /\ spent' \in [A!Links -> 0..2]
      /\ \A u \in A!Links :
           /\ link'[u].state # link[u].state => link'[u].state = "dead"
           /\ link'[u].to = link[u].to
           /\ spent'[u] # spent[u] =>
                /\ spent'[u] = 1 /\ link'[u].state = "dead"
                /\ \A q \in Requests : Clicks(q)' => req1'[q].on # u
  BY <1>1, <1>2, SpendsOnce
<1>4. account \in A!Rows /\ meant \in A!Rows /\ link \in [A!Links -> Token]
      /\ recent \subseteq {u \in A!Links : link[u].state # "unborn"}
  BY DEF AccountInv, AccountShape
<1>5. account' = [account EXCEPT !.proven = a]
      /\ meant' = [meant EXCEPT !.proven = a]
  BY <1>4 DEF A!Consume, A!Writes
<1>6. a \in Addresses \cup {"none"}
  BY <1>1, <1>3, <1>4 DEF Token
<1>7. account' \in A!Rows /\ meant' \in A!Rows /\ account'.proven = a
  BY <1>4, <1>5, <1>6 DEF A!Rows
<1>8. Proven(account.proven)'
  BY <1>1, <1>2, <1>3, <1>7 DEF Proven
<1>9. /\ req1' \in [Requests -> Asking]
      /\ \A q \in Requests : req1'[q] \in {req1[q], A!Idle}
  BY <1>2, EndsWell
<1>10. recent' \subseteq {u \in A!Links : link'[u].state # "unborn"}
  BY <1>2, <1>3, <1>4 DEF Grows
<1>11. AccountShape' /\ Unspent' /\ AllProven'
  BY <1>2, <1>3, <1>7, <1>8, <1>9, <1>10, Settles DEF AccountInv, AccountShape
<1>12. Links'
  BY <1>2, <1>3, <1>9, LinksStay
<1>13. A!DecisionsStand'
  BY <1>2, <1>5 DEF AccountInv, A!DecisionsStand
<1> QED
  BY <1>11, <1>12, <1>13 DEF AccountInv

\* complete_reset
LEMMA CompletesReset ==
  ASSUME AccountInv, NEW r \in Requests, A!CompleteReset(r)
  PROVE  AccountInv'
<1>1. PICK t : t = req1[r].on
  OBVIOUS
<1>2. /\ Clicks(r) /\ A!Spend(t) /\ A!Ends(r) /\ t \in Resets
      /\ UNCHANGED <<recent, met1, unasked>>
  BY <1>1 DEF A!CompleteReset, A!At, Clicks, AccountInv, AccountShape, Sensible
<1>3. /\ Grows /\ t \in A!Links /\ spent'[t] = 1
      /\ link' \in [A!Links -> Token] /\ spent' \in [A!Links -> 0..2]
      /\ \A u \in A!Links :
           /\ link'[u].state # link[u].state => link'[u].state = "dead"
           /\ link'[u].to = link[u].to
           /\ spent'[u] # spent[u] =>
                /\ spent'[u] = 1 /\ link'[u].state = "dead"
                /\ \A q \in Requests : Clicks(q)' => req1'[q].on # u
  BY <1>1, <1>2, SpendsOnce
<1>4. account \in A!Rows /\ meant \in A!Rows
      /\ recent \subseteq {u \in A!Links : link[u].state # "unborn"}
      /\ Proven(account.proven)
  BY DEF AccountInv, AccountShape, AllProven
<1>5. account' = [account EXCEPT !.password = t]
      /\ meant' = [meant EXCEPT !.password = t]
  BY <1>1, <1>4 DEF A!CompleteReset, A!Writes
<1>6. account' \in A!Rows /\ meant' \in A!Rows /\ account'.proven = account.proven
  BY <1>2, <1>4, <1>5 DEF A!Rows
<1>7. Proven(account.proven)'
  <2>1. \A u \in A!Links : spent[u] = 1 => spent'[u] = 1
    BY <1>3
  <2>2. account.proven # "none" =>
          \E u \in Verifications : spent'[u] = 1 /\ link'[u].to = account.proven
    BY <1>3, <1>4, <2>1, ProvenStays
  <2> QED
    BY <1>6, <2>2 DEF Proven
<1>8. /\ req1' \in [Requests -> Asking]
      /\ \A q \in Requests : req1'[q] \in {req1[q], A!Idle}
  BY <1>2, EndsWell
<1>9. recent' \subseteq {u \in A!Links : link'[u].state # "unborn"}
  BY <1>2, <1>3, <1>4 DEF Grows
<1>10. AccountShape' /\ Unspent' /\ AllProven'
  BY <1>2, <1>3, <1>6, <1>7, <1>8, <1>9, Settles DEF AccountInv, AccountShape
<1>11. Links'
  BY <1>2, <1>3, <1>8, LinksStay
<1>12. A!DecisionsStand'
  BY <1>2, <1>5 DEF AccountInv, A!DecisionsStand
<1> QED
  BY <1>10, <1>11, <1>12 DEF AccountInv

-----------------------------------------------------------------------------
\* Profile pages, failed mails, expiries and moderators.
LEMMA QuietSteps ==
  ASSUME AccountInv,
         \/ \E r \in Requests : A!SaveProfile(r)
         \/ \E t \in A!Links : A!MailFails(t) \/ A!Expires(t)
         \/ A!Moderate
  PROVE  AccountInv'
<1>1. /\ account \in A!Rows /\ meant \in A!Rows /\ link \in [A!Links -> Token]
      /\ recent \subseteq {t \in A!Links : link[t].state # "unborn"}
      /\ spent \in [A!Links -> 0..2] /\ req1 \in [Requests -> Asking]
      /\ met1 \subseteq {"stale_row", "two_resets"}
      /\ unasked \in 0..MaxUnasked /\ MaxUnasked \in Nat
      /\ Proven(account.proven)
  BY SiteAssumption DEF AccountInv, AccountShape, AllProven
<1>2. ASSUME NEW r \in Requests, A!SaveProfile(r) PROVE AccountInv'
  <2> DEFINE saw == req1[r].saw
  <2>1. saw \in A!Rows /\ Proven(saw.proven)
    BY <1>2 DEF A!SaveProfile, A!At, AccountInv, AccountShape, Sensible, AllProven
  <2>2. /\ account' = saw /\ meant' = meant
        /\ met1' = IF saw = account THEN met1 ELSE met1 \cup {"stale_row"}
        /\ UNCHANGED <<link, recent, spent, unasked>> /\ A!Ends(r)
    BY <1>1, <1>2, <2>1 DEF A!SaveProfile, A!SavesRow
  <2>3. Grows /\ met1 \subseteq met1' /\ met1' \subseteq {"stale_row", "two_resets"}
    BY <1>1, <2>2 DEF Grows
  <2>4. /\ req1' \in [Requests -> Asking]
        /\ \A q \in Requests : req1'[q] \in {req1[q], A!Idle}
    BY <2>2, EndsWell
  <2>5. Proven(account.proven)'
    BY <2>1, <2>2 DEF Proven
  <2>6. AccountShape' /\ Unspent' /\ AllProven'
    BY <1>1, <2>1, <2>2, <2>3, <2>4, <2>5, Settles
  <2>7. Links'
    BY <2>2, <2>3, <2>4, LinksStay
  <2>8. A!DecisionsStand'
    BY <2>2 DEF AccountInv, A!DecisionsStand
  <2> QED
    BY <2>6, <2>7, <2>8 DEF AccountInv
<1>3. ASSUME NEW t \in A!Links, A!MailFails(t) PROVE AccountInv'
  <2>1. /\ recent' \subseteq recent /\ unasked' \in 0..MaxUnasked
        /\ UNCHANGED <<account, meant, link, spent, req1, met1>>
    BY <1>1, <1>3 DEF A!MailFails, A!Unasked
  <2>2. Grows
    BY <2>1 DEF Grows
  <2>3. Proven(account.proven)'
    BY <1>1, <2>1 DEF Proven
  <2>4. AccountShape' /\ Unspent' /\ AllProven'
    BY <1>1, <2>1, <2>2, <2>3, Settles
  <2>5. Links' /\ A!DecisionsStand'
    BY <2>1, LinksStay DEF AccountInv, A!DecisionsStand
  <2> QED
    BY <2>4, <2>5 DEF AccountInv
<1>4. ASSUME NEW t \in A!Links, A!Expires(t) PROVE AccountInv'
  <2>1. /\ unasked' \in 0..MaxUnasked
        /\ UNCHANGED <<account, meant, recent, spent, req1, met1>>
    BY <1>1, <1>4 DEF A!Expires, A!Unasked
  <2>2. link[t].state = "live" /\ link' = [link EXCEPT ![t].state = "dead"]
    BY <1>4 DEF A!Expires, A!Live
  <2>3. \A u \in A!Links : link[u] \in Token
    BY <1>1
  <2>4. link'[t].state = "dead" /\ link'[t].to = link[t].to /\ link'[t] \in Token
    <3>1. link'[t] = [link[t] EXCEPT !.state = "dead"]
      BY <1>1, <2>2
    <3> QED
      BY <2>3, <3>1 DEF Token
  <2>5. \A u \in A!Links : u # t => link'[u] = link[u]
    BY <1>1, <2>2
  <2>6. Grows
    BY <2>4, <2>5 DEF Grows
  <2>7. link' \in [A!Links -> Token]
    BY <1>1, <2>2, <2>3, <2>4, <2>5
  <2>8. recent' \subseteq {u \in A!Links : link'[u].state # "unborn"}
    BY <1>1, <2>1, <2>6 DEF Grows
  <2>9. Proven(account.proven)'
    BY <1>1, <2>1, <2>6, ProvenStays DEF Proven
  <2>10. AccountShape' /\ Unspent' /\ AllProven'
    BY <1>1, <2>1, <2>6, <2>7, <2>8, <2>9, Settles
  <2>11. \A u \in A!Links : link'[u].state = "live" => link[u].state = "live"
    BY <2>4, <2>5
  <2>12. Links' /\ A!DecisionsStand'
    BY <2>1, <2>11, LinksStay DEF AccountInv, A!DecisionsStand
  <2> QED
    BY <2>10, <2>12 DEF AccountInv
<1>5. CASE A!Moderate
  <2>1. /\ unasked' \in 0..MaxUnasked
        /\ UNCHANGED <<link, recent, spent, req1, met1>>
    BY <1>1, <1>5 DEF A!Moderate, A!Unasked
  <2>2. account' = [account EXCEPT !.barred = ~account.barred]
        /\ meant' = [meant EXCEPT !.barred = ~account.barred]
    BY <1>1, <1>5 DEF A!Moderate, A!Writes
  <2>3. account' \in A!Rows /\ meant' \in A!Rows
        /\ account'.proven = account.proven
    BY <1>1, <2>2 DEF A!Rows
  <2>4. Grows
    BY <2>1 DEF Grows
  <2>5. Proven(account.proven)'
    BY <1>1, <2>1, <2>3 DEF Proven
  <2>6. AccountShape' /\ Unspent' /\ AllProven'
    BY <1>1, <2>1, <2>3, <2>4, <2>5, Settles
  <2>7. Links' /\ A!DecisionsStand'
    BY <2>1, <2>2, LinksStay DEF AccountInv, A!DecisionsStand
  <2> QED
    BY <2>6, <2>7 DEF AccountInv
<1> QED
  BY <1>2, <1>3, <1>4, <1>5
-----------------------------------------------------------------------------
\* save_model: the row, the links it supersedes and the one it sends.
LEMMA AdminSavesKeep ==
  ASSUME AccountInv, NEW r \in Requests, NEW typed \in BOOLEAN,
         NEW sent \in {{}} \cup {{v} : v \in Verifications},
         A!AdminSaves(r, typed, sent)
  PROVE  AccountInv'
<1> DEFINE saw == req1[r].saw
           moved == A!Moves(r)
           decided(row) ==
             [row EXCEPT !.email = IF moved THEN req1[r].on ELSE row.email,
                         !.password = IF typed THEN "admin" ELSE row.password]
           closed == IF moved \/ sent # {} THEN A!Live(Verifications) ELSE {}
<1>1. /\ account \in A!Rows /\ meant \in A!Rows /\ link \in [A!Links -> Token]
      /\ spent \in [A!Links -> 0..2] /\ req1 \in [Requests -> Asking]
      /\ met1 \subseteq {"stale_row", "two_resets"} /\ unasked \in 0..MaxUnasked
  BY DEF AccountInv, AccountShape
<1>2. /\ ~A!RowLocked /\ A!Ends(r) /\ UNCHANGED <<spent, unasked>>
      /\ saw \in A!Rows /\ Proven(saw.proven) /\ req1[r].on \in Addresses
  BY DEF A!AdminSaves, A!At, AccountInv, AccountShape, Sensible, AllProven
<1>3. A!Minted(sent, req1[r].on, closed)
  BY DEF A!AdminSaves
<1>4. /\ account' = decided(saw) /\ meant' = decided(meant)
      /\ met1' = IF saw = account THEN met1 ELSE met1 \cup {"stale_row"}
  <2>1. \A row \in A!Rows : A!Decides(r, typed)[row] = decided(row)
    BY DEF A!Decides
  <2>2. A!SavesRow(saw, A!Decides(r, typed))
    BY DEF A!AdminSaves
  <2> HIDE DEF decided
  <2> QED
    BY <1>1, <1>2, <2>1, <2>2 DEF A!SavesRow
<1>5. account' \in A!Rows /\ account'.proven = saw.proven
  <2>1. saw.email \in Addresses /\ saw.password \in Resets \cup {"first", "admin"}
        /\ saw.proven \in Addresses \cup {"none"} /\ saw.barred \in BOOLEAN
        /\ saw = [email |-> saw.email, proven |-> saw.proven,
                  password |-> saw.password, barred |-> saw.barred]
    BY <1>2 DEF A!Rows
  <2>2. account' = [email |-> IF moved THEN req1[r].on ELSE saw.email,
                    proven |-> saw.proven,
                    password |-> IF typed THEN "admin" ELSE saw.password,
                    barred |-> saw.barred]
    BY <1>4, <2>1
  <2> QED
    BY <1>2, <2>1, <2>2 DEF A!Rows
<1>6. meant' \in A!Rows
  <2>1. meant.email \in Addresses
        /\ meant.password \in Resets \cup {"first", "admin"}
        /\ meant.proven \in Addresses \cup {"none"} /\ meant.barred \in BOOLEAN
        /\ meant = [email |-> meant.email, proven |-> meant.proven,
                    password |-> meant.password, barred |-> meant.barred]
    BY <1>1 DEF A!Rows
  <2>2. meant' = [email |-> IF moved THEN req1[r].on ELSE meant.email,
                  proven |-> meant.proven,
                  password |-> IF typed THEN "admin" ELSE meant.password,
                  barred |-> meant.barred]
    BY <1>4, <2>1
  <2> QED
    BY <1>2, <2>1, <2>2 DEF A!Rows
<1>7. /\ sent \in SUBSET A!Links /\ sent \subseteq Verifications
      /\ closed \subseteq A!Live(Verifications) /\ closed \subseteq A!Links
      /\ \A s, t \in sent : s = t
  BY DEF A!Live, A!Links
<1>8. /\ Grows /\ link' \in [A!Links -> Token]
      /\ recent' \subseteq {t \in A!Links : link'[t].state # "unborn"}
      /\ \A t \in A!Links : link'[t].state = "live" <=>
           t \in sent \/ (link[t].state = "live" /\ t \notin closed)
  <2>1. req1[r].on \in Addresses \cup {"none"}
    BY <1>2
  <2> HIDE DEF closed
  <2> QED
    BY <1>3, <1>7, <2>1, MintGrows
<1>9. met1 \subseteq met1' /\ met1' \subseteq {"stale_row", "two_resets"}
      /\ ("two_resets" \in met1' <=> "two_resets" \in met1)
  BY <1>1, <1>4
<1>10. /\ req1' \in [Requests -> Asking]
       /\ \A q \in Requests : req1'[q] \in {req1[q], A!Idle}
  BY <1>2, EndsWell
<1>11. Proven(account.proven)'
  <2>1. saw.proven # "none" =>
          \E t \in Verifications : spent'[t] = 1 /\ link'[t].to = saw.proven
    BY <1>2, <1>8, ProvenStays
  <2> QED
    BY <1>5, <2>1 DEF Proven
<1>12. AccountShape' /\ Unspent' /\ AllProven'
  BY <1>1, <1>2, <1>5, <1>6, <1>8, <1>9, <1>10, <1>11, Settles
<1>13. A!Idle.at = "idle"
  BY DEF A!Idle
<1>14. OneLink(Verifications, "resend")'
  <2>1. OneLink(Verifications, "resend")
    BY DEF AccountInv, Links
  <2>2. A!Live(Verifications)' =
          {t \in Verifications : t \in sent \/
             (t \in A!Live(Verifications) /\ t \notin closed)}
    BY <1>8 DEF A!Live, A!Links
  <2>3. \A q \in Requests : ~A!At(q, "resend", "minting")'
    BY <1>2, <1>10, <1>13 DEF A!RowLocked, A!At
  <2>4. \A s, t \in A!Live(Verifications)' : s = t
    <3>1. CASE sent = {}
      BY <2>1, <2>2, <3>1 DEF OneLink
    <3>2. CASE sent # {}
      BY <1>7, <2>2, <3>2
    <3> QED
      BY <3>1, <3>2
  <2> QED
    BY <2>3, <2>4 DEF OneLink
<1>15. ASSUME "two_resets" \notin met1' PROVE OneLink(Resets, "reset")'
  <2>1. A!Live(Resets)' \subseteq A!Live(Resets)
    BY <1>7, <1>8, SiteAssumption DEF A!Live, A!Links
  <2> QED
    BY <1>9, <1>10, <1>13, <1>15, <2>1, OneLinkStays DEF AccountInv, Links, A!At
<1>16. A!DecisionsStand'
  <2>1. "stale_row" \notin met1' => saw = account /\ "stale_row" \notin met1
    BY <1>4
  <2> QED
    BY <1>4, <2>1 DEF AccountInv, A!DecisionsStand
<1> QED
  BY <1>12, <1>14, <1>15, <1>16 DEF AccountInv, Links

-----------------------------------------------------------------------------
LEMMA AccountStep == AccountInv /\ A!Next => AccountInv'
<1> SUFFICES ASSUME AccountInv, A!Next PROVE AccountInv'
  OBVIOUS
<1>1. ASSUME NEW r \in Requests,
             \/ A!RequestResend(r) \/ A!RequestReset(r) \/ A!Supersede(r)
             \/ \E t \in A!Links : A!Click(r, t)
             \/ A!ProfilePage(r) \/ \E a \in Addresses : A!AdminPage(r, a)
      PROVE  AccountInv'
  BY <1>1, AsksKeep
<1>2. ASSUME NEW r \in Requests, NEW t \in A!Links, A!Mint(r, t)
      PROVE  AccountInv'
  BY <1>2, Mints
<1>3. ASSUME NEW r \in Requests, A!Consume(r) PROVE AccountInv'
  BY <1>3, Consumes
<1>4. ASSUME NEW r \in Requests, A!CompleteReset(r) PROVE AccountInv'
  BY <1>4, CompletesReset
<1>5. ASSUME NEW r \in Requests, NEW typed \in BOOLEAN,
             NEW sent \in {{}} \cup {{v} : v \in Verifications},
             A!AdminSaves(r, typed, sent)
      PROVE  AccountInv'
  BY <1>5, AdminSavesKeep
<1>6. ASSUME \/ \E r \in Requests : A!SaveProfile(r)
             \/ \E t \in A!Links : A!MailFails(t) \/ A!Expires(t)
             \/ A!Moderate
      PROVE  AccountInv'
  BY <1>6, QuietSteps
<1> QED
  BY <1>1, <1>2, <1>3, <1>4, <1>5, <1>6 DEF A!Next

\* The account's steps are the only ones that move it.
LEMMA AccountsKeep == SiteSpec => [](area = "accounts" => AccountInv)
<1> DEFINE Kept == area = "accounts" => AccountInv
<1>1. SiteInit => Kept
  BY AccountInit DEF SiteInit
<1>2. Kept /\ [SiteNext]_<<vars, lists, accounts, merges, files, area>> => Kept'
  <2>1. ASSUME Kept, area = "accounts", A!Next, UNCHANGED area PROVE Kept'
    BY <2>1, AccountStep
  <2>2. ASSUME Kept, UNCHANGED <<accounts, area>> PROVE Kept'
    <3>1. \A r : A!At(r, "resend", "minting")' <=> A!At(r, "resend", "minting")
      BY <2>2 DEF accounts, A!At
    <3>2. \A r : A!At(r, "reset", "minting")' <=> A!At(r, "reset", "minting")
      BY <2>2 DEF accounts, A!At
    <3>3. A!Live(Verifications)' = A!Live(Verifications)
          /\ A!Live(Resets)' = A!Live(Resets)
      BY <2>2 DEF accounts, A!Live
    <3>4. AccountShape => AccountShape'
      BY <2>2 DEF accounts, AccountShape, Sensible
    <3>5. Unspent /\ AllProven => Unspent' /\ AllProven'
      BY <2>2 DEF accounts, Unspent, AllProven, Clicks, Proven
    <3>6. Links => Links'
      BY <2>2, <3>1, <3>2, <3>3 DEF accounts, Links, OneLink
    <3> QED
      BY <2>2, <3>4, <3>5, <3>6 DEF accounts, AccountInv, A!DecisionsStand
  <2>3. ASSUME Kept, SiteNext PROVE Kept'
    BY <2>1, <2>2, <2>3 DEF SiteNext
  <2> QED
    BY <2>2, <2>3
<1> QED
  BY <1>1, <1>2, PTL DEF SiteSpec

\* A link works once and only the newest of its kind works, and an account
\* counts as verified only where such a link was clicked.
THEOREM LinksHold == SiteSpec => []LinksAreSound
<1>1. (area = "accounts" => AccountInv) => LinksAreSound
  <2> SUFFICES ASSUME AccountInv PROVE A!LinksAreSound
    BY DEF LinksAreSound
  <2>1. \A t \in A!Links : spent[t] <= 1
    BY DEF AccountInv, AccountShape, Unspent
  <2> QED
    BY <2>1 DEF AccountInv, Links, OneLink, AllProven, Proven, A!LinksAreSound
<1> QED
  BY <1>1, AccountsKeep, PTL

\* What a request decided about an account stands until another decides it anew,
\* unless a whole row was saved that had changed since it was loaded.
THEOREM DecisionsHold == SiteSpec => []DecisionsStand
<1>1. (area = "accounts" => AccountInv) => DecisionsStand
  BY DEF AccountInv, DecisionsStand
<1> QED
  BY <1>1, AccountsKeep, PTL
-----------------------------------------------------------------------------
(* Films: where an id leads                                                  *)

\* The film after f, and a walk from `id` along the merges `m`.
Following(m, f) == IF m[f] = None THEN f ELSE m[f]
Walk(m, s, id) ==
  s[0] = id /\ \A n \in 1..Hops : s[n] = Following(m, s[n - 1])

\* The films that were merged away.
Absorbed(m) == {f \in Films : m[f] # None}

\* They can be put in the order in which they were: a film is absorbed after
\* those that were absorbed into it.
Ranked(m, t) ==
  /\ t \in [Films -> Nat]
  /\ \A f \in Absorbed(m) :
       /\ t[f] < Cardinality(Absorbed(m))
       /\ m[f] \in Absorbed(m) => t[f] < t[m[f]]

-----------------------------------------------------------------------------
LEMMA Least ==
  ASSUME NEW T, T \subseteq Nat, T # {}
  PROVE  \E n \in T : \A m \in T : n <= m
<1> DEFINE R == OpToRel(<, Nat)
<1>1. IsWellFoundedOn(R, Nat)
  BY NatLessThanWellFounded DEF OpToRel
<1>2. \A n, m \in Nat : n < m => <<n, m>> \in R
  BY DEF OpToRel
<1> HIDE DEF R
<1>3. PICK n \in T : \A m \in T : ~(<<m, n>> \in R)
  BY <1>1, WFMin
<1>4. ASSUME NEW m \in T PROVE n <= m
  <2>1. ~(m < n) /\ m \in Nat /\ n \in Nat
    BY <1>2, <1>3
  <2> QED
    BY <2>1
<1> QED
  BY <1>4

LEMMA Induct ==
  ASSUME NEW T, T \subseteq Nat, 0 \in T, \A n \in T : n + 1 \in T
  PROVE  T = Nat
<1>1. ASSUME Nat \ T # {} PROVE FALSE
  <2>1. PICK x \in Nat \ T : \A y \in Nat \ T : x <= y
    BY <1>1, Least
  <2>2. x # 0 /\ x - 1 \in T
    BY <2>1
  <2> QED
    BY <2>1, <2>2
<1> QED
  BY <1>1

\* What holds at the first step of a walk, and after a step if before it, holds
\* at its end.
LEMMA AlongWalk ==
  ASSUME NEW T, T \subseteq 0..Hops, 0 \in T,
         \A n \in 1..Hops : n - 1 \in T => n \in T
  PROVE  Hops \in T
<1> DEFINE U == {n \in Nat : n <= Hops => n \in T}
<1>1. 0 \in U /\ U \subseteq Nat
  OBVIOUS
<1>2. ASSUME NEW n \in U PROVE n + 1 \in U
  <2>1. n + 1 \in Nat /\ (n + 1) - 1 = n
    OBVIOUS
  <2>2. ASSUME n + 1 <= Hops PROVE n + 1 \in T
    <3>1. n \in T /\ n + 1 \in 1..Hops
      BY <2>2, SiteAssumption
    <3> QED
      BY <2>1, <3>1
  <2> QED
    BY <2>1, <2>2
<1>3. U = Nat
  <2> HIDE DEF U
  <2> QED
    BY <1>1, <1>2, Induct
<1> QED
  BY <1>3, SiteAssumption

-----------------------------------------------------------------------------
\* resolve_film_id walks.
Unfolded == \A id \in Films :
  \E s : Walk(merged, s, id) /\ M!resolve_film_id(id) = s[Hops]

Steps(s, k, id) ==
  s = [n \in 0..k |-> IF n = 0 THEN id ELSE Following(merged, s[n - 1])]

LEMMA StepsExist == ASSUME NEW id PROVE \A k \in Nat : \E s : Steps(s, k, id)
<1> DEFINE T == {k \in Nat : \E s : Steps(s, k, id)}
<1>1. 0 \in T
  <2>1. Steps([n \in 0..0 |-> id], 0, id)
    BY DEF Steps
  <2> QED
    BY <2>1
<1>2. ASSUME NEW k \in T PROVE k + 1 \in T
  <2>1. PICK s : Steps(s, k, id)
    OBVIOUS
  <2> DEFINE s1 == [n \in 0..(k + 1) |->
                      IF n = k + 1 THEN Following(merged, s[k]) ELSE s[n]]
  <2>2. \A n \in 0..k : /\ s1[n] = s[n]
                        /\ s[n] = IF n = 0 THEN id
                                  ELSE Following(merged, s[n - 1])
    BY <2>1 DEF Steps
  <2>3. s1[k + 1] = Following(merged, s[k])
    OBVIOUS
  <2>4. s1 = [n \in 0..(k + 1) |-> s1[n]]
    OBVIOUS
  <2> HIDE DEF s1
  <2>5. ASSUME NEW n \in 0..(k + 1)
        PROVE  s1[n] = IF n = 0 THEN id ELSE Following(merged, s1[n - 1])
    <3>1. CASE n = k + 1
      <4>1. n - 1 = k /\ k \in 0..k /\ n # 0
        BY <3>1
      <4> QED
        BY <2>2, <2>3, <3>1, <4>1
    <3>2. CASE n # k + 1 /\ n # 0
      <4>1. n \in 0..k /\ n - 1 \in 0..k
        BY <3>2
      <4> QED
        BY <2>2, <3>2, <4>1
    <3>3. CASE n = 0
      BY <2>2, <3>3
    <3> QED
      BY <3>1, <3>2, <3>3
  <2>6. s1 = [n \in 0..(k + 1) |->
                IF n = 0 THEN id ELSE Following(merged, s1[n - 1])]
    BY <2>4, <2>5
  <2> QED
    BY <2>6 DEF Steps
<1>3. T \subseteq Nat
  OBVIOUS
<1> HIDE DEF T
<1>4. T = Nat
  BY <1>1, <1>2, <1>3, Induct
<1> QED
  BY <1>4 DEF T

LEMMA Unfolds == Unfolded
<1> SUFFICES ASSUME NEW id \in Films
             PROVE  \E s : Walk(merged, s, id) /\ M!resolve_film_id(id) = s[Hops]
  BY DEF Unfolded
<1>1. PICK s : Steps(s, Hops, id)
  BY SiteAssumption, StepsExist
<1> DEFINE after == CHOOSE s1 : Steps(s1, Hops, id)
<1>2. Steps(after, Hops, id)
  BY <1>1
<1>3. M!resolve_film_id(id) = after[Hops]
  BY DEF M!resolve_film_id, Steps, Following
<1> HIDE DEF after
<1>4. Walk(merged, after, id)
  BY <1>2, SiteAssumption DEF Steps, Walk
<1> QED
  BY <1>3, <1>4

-----------------------------------------------------------------------------
\* A walk is long enough: it ends on a film that was not merged away.
LEMMA WalkEnds ==
  ASSUME NEW m \in [Films -> Films \cup {None}], NEW t, Ranked(m, t),
         NEW s, NEW id \in Films, Walk(m, s, id)
  PROVE  s[Hops] \in Films \ Absorbed(m)
<1> DEFINE T == {n \in 0..Hops : /\ s[n] \in Films
                                 /\ s[n] \in Absorbed(m) => n <= t[s[n]]}
<1>1. 0 \in T
  BY SiteAssumption DEF Walk, Ranked, Absorbed
<1>2. ASSUME NEW n \in 1..Hops, n - 1 \in T PROVE n \in T
  <2>1. s[n] = Following(m, s[n - 1]) /\ s[n - 1] \in Films
    BY <1>2 DEF Walk
  <2>2. CASE m[s[n - 1]] = None
    BY <2>1, <2>2 DEF Absorbed, Following
  <2>3. CASE m[s[n - 1]] # None
    <3>1. s[n] = m[s[n - 1]] /\ s[n] \in Films /\ s[n - 1] \in Absorbed(m)
      BY <2>1, <2>3 DEF Absorbed, Following
    <3>2. n - 1 <= t[s[n - 1]]
      BY <1>2, <3>1
    <3>3. ASSUME s[n] \in Absorbed(m) PROVE n <= t[s[n]]
      <4>1. t[s[n - 1]] < t[s[n]] /\ t[s[n]] \in Nat /\ t[s[n - 1]] \in Nat
        BY <2>1, <3>1, <3>3 DEF Ranked
      <4> QED
        BY <3>2, <4>1
    <3> QED
      BY <3>1, <3>3
  <2> QED
    BY <2>2, <2>3
<1>3. T \subseteq 0..Hops
  OBVIOUS
<1>4. Hops \in T
  <2> HIDE DEF T
  <2> QED
    BY <1>1, <1>2, <1>3, AlongWalk
<1>5. ASSUME s[Hops] \in Absorbed(m) PROVE FALSE
  <2>1. Absorbed(m) \subseteq Films
    BY DEF Absorbed
  <2>2. Cardinality(Absorbed(m)) <= Cardinality(Films)
        /\ Cardinality(Absorbed(m)) \in Nat /\ Cardinality(Films) \in Nat
    BY <2>1, SiteAssumption, FS_Subset, FS_CardinalityType
  <2>3. Hops <= t[s[Hops]] /\ t[s[Hops]] \in Nat
    BY <1>4, <1>5 DEF Ranked
  <2>4. t[s[Hops]] < Cardinality(Absorbed(m))
    BY <1>5 DEF Ranked
  <2> QED
    BY <2>2, <2>3, <2>4, SiteAssumption
<1> QED
  BY <1>4, <1>5

\* It goes nowhere from a film that was not, and from one that was it ends where
\* such films lead.
LEMMA WalkStays ==
  ASSUME NEW m, NEW s, NEW id, Walk(m, s, id), m[id] = None
  PROVE  s[Hops] = id
<1> DEFINE T == {n \in 0..Hops : s[n] = id}
<1>1. 0 \in T /\ T \subseteq 0..Hops
  BY SiteAssumption DEF Walk
<1>2. ASSUME NEW n \in 1..Hops, n - 1 \in T PROVE n \in T
  BY <1>2 DEF Walk, Following
<1> HIDE DEF T
<1>3. Hops \in T
  BY <1>1, <1>2, AlongWalk
<1> QED
  BY <1>3 DEF T

LEMMA WalkArrives ==
  ASSUME NEW m \in [Films -> Films \cup {None}], NEW t, Ranked(m, t),
         NEW s, NEW id \in Films, Walk(m, s, id), NEW there,
         \A f \in Absorbed(m) : m[f] \in there \cup Absorbed(m), m[id] # None
  PROVE  s[Hops] \in there
<1> DEFINE T == {n \in 0..Hops : s[n] \in Films
                                 /\ s[n] \in there \cup Absorbed(m)}
<1>1. 0 \in T /\ T \subseteq 0..Hops
  BY SiteAssumption DEF Walk, Absorbed
<1>2. ASSUME NEW n \in 1..Hops, n - 1 \in T PROVE n \in T
  <2>1. /\ s[n] = Following(m, s[n - 1]) /\ s[n - 1] \in Films
        /\ s[n - 1] \in there \cup Absorbed(m)
    BY <1>2 DEF Walk
  <2>2. CASE s[n - 1] \in Absorbed(m)
    BY <2>1, <2>2 DEF Absorbed, Following
  <2>3. CASE s[n - 1] \notin Absorbed(m) /\ m[s[n - 1]] = None
    BY <2>1, <2>3 DEF Following
  <2> QED
    BY <2>1, <2>2, <2>3 DEF Absorbed
<1> HIDE DEF T
<1>3. Hops \in T
  BY <1>1, <1>2, AlongWalk
<1> QED
  BY <1>3, WalkEnds DEF T
\* When `gone` are merged into c, what led to one of them leads to c, unless the
\* walk ends on one of them still, and all else leads where it did.
LEMMA WalkJoins ==
  ASSUME NEW m, NEW m1, NEW s, NEW s1, NEW id \in Films, NEW c,
         NEW gone \in SUBSET Films, m \in [Films -> Films \cup {None}],
         \A f \in Films : m1[f] = IF f \in gone THEN c ELSE m[f],
         \A f \in gone : m[f] = None, c \in Films \ gone, m[c] = None,
         Walk(m, s, id), Walk(m1, s1, id)
  PROVE  s1[Hops] = s[Hops] \/ (s1[Hops] = c /\ s[Hops] \in gone)
<1> DEFINE T == {n \in 0..Hops : /\ s[n] \in Films
                                 /\ s1[n] = s[n] \/ (s1[n] = c /\ s[n] \in gone)}
<1>1. 0 \in T /\ T \subseteq 0..Hops
  BY SiteAssumption DEF Walk
<1>2. ASSUME NEW n \in 1..Hops, n - 1 \in T PROVE n \in T
  <2> DEFINE x == s[n - 1]
             y == s1[n - 1]
  <2>1. s[n] = Following(m, x) /\ s1[n] = Following(m1, y) /\ x \in Films
        /\ (y = x \/ (y = c /\ x \in gone))
    BY <1>2 DEF Walk
  <2> HIDE DEF x, y
  <2>2. s[n] \in Films
    BY <2>1 DEF Following
  <2>3. CASE x \in gone
    <3>1. s[n] = x
      BY <2>1, <2>3 DEF Following
    <3>2. s1[n] = c
      <4>1. CASE y = x
        <5>1. m1[x] = c /\ c # None
          BY <2>1, <2>3, SiteAssumption
        <5> QED
          BY <2>1, <4>1, <5>1 DEF Following
      <4>2. CASE y = c
        <5>1. m1[c] = None
          OBVIOUS
        <5> QED
          BY <2>1, <4>2, <5>1 DEF Following
      <4> QED
        BY <2>1, <4>1, <4>2
    <3> QED
      BY <2>2, <2>3, <3>1, <3>2
  <2>4. CASE x \notin gone
    <3>1. m1[x] = m[x] /\ y = x
      BY <2>1, <2>4
    <3>2. s1[n] = s[n]
      BY <2>1, <3>1 DEF Following
    <3> QED
      BY <2>2, <3>2
  <2> QED
    BY <2>3, <2>4
<1> HIDE DEF T
<1>3. Hops \in T
  BY <1>1, <1>2, AlongWalk
<1> QED
  BY <1>3 DEF T

-----------------------------------------------------------------------------
(* Films: the merges                                                         *)

Wishes == [op : {"none", "member", "merge", "fill"},
           at : {"idle", "loaded", "open"},
           film : Films \cup {None}, key : Keys \cup {None},
           absorbed : SUBSET Films, seen : [Films -> SUBSET M!Places]]

\* What a request is about are films, and a merge's form names another film
\* than those it absorbs.
Merging(j) ==
  /\ j.op # "none" => j.film \in Films
  /\ j.op = "merge" => j.absorbed # {} /\ j.film \notin j.absorbed

MergeShape ==
  /\ live \subseteq Films /\ key \in [Films -> Keys \cup {None}]
  /\ merged \in [Films -> Films \cup {None}]
  /\ rows3 \in [Films -> SUBSET M!Places]
  /\ wants \in [Films -> SUBSET M!Places]
  /\ req3 \in [Requests -> Wishes]
  /\ \A r \in Requests : Merging(req3[r])

\* Unless a row was brought back, an absorbed film is no film any more, and
\* leads to one or to another that was absorbed later.
Ordered ==
  /\ \A f \in Absorbed(merged) :
       f \notin live /\ merged[f] \in live \cup Absorbed(merged)
  /\ \E t : Ranked(merged, t)

\* What the member put on a film is where its id leads.
AllFound == \A f \in Films : wants[f] \subseteq rows3[M!resolve_film_id(f)]

MergeInv == MergeShape /\ (lapses = {} => Ordered /\ AllFound)

\* What the code asks of resolve_film_id.
Leads(f) ==
  /\ M!resolve_film_id(f) \in Films
  /\ M!resolve_film_id(f) \notin Absorbed(merged)
  /\ merged[f] = None => M!resolve_film_id(f) = f
  /\ merged[f] # None => M!resolve_film_id(f) \in live

LEMMA AllLead ==
  ASSUME Unfolded, MergeShape, Ordered PROVE \A f \in Films : Leads(f)
<1> SUFFICES ASSUME NEW f \in Films PROVE Leads(f)
  OBVIOUS
<1>1. merged \in [Films -> Films \cup {None}]
  BY DEF MergeShape
<1>2. PICK t : Ranked(merged, t)
  BY DEF Ordered
<1>3. PICK s : Walk(merged, s, f) /\ M!resolve_film_id(f) = s[Hops]
  BY DEF Unfolded
<1>4. s[Hops] \in Films \ Absorbed(merged)
  BY <1>1, <1>2, <1>3, WalkEnds
<1>5. merged[f] = None => s[Hops] = f
  BY <1>3, WalkStays
<1>6. merged[f] # None => s[Hops] \in live
  BY <1>1, <1>2, <1>3, WalkArrives DEF Ordered
<1> QED
  BY <1>3, <1>4, <1>5, <1>6 DEF Leads

\* Where ids lead depends on the merges alone.
LEMMA SameMerges ==
  ASSUME merged' = merged, NEW f
  PROVE  M!resolve_film_id(f)' = M!resolve_film_id(f)
BY DEF M!resolve_film_id

-----------------------------------------------------------------------------
\* A film is absorbed after all that were.
LEMMA RankedStays ==
  ASSUME NEW m \in [Films -> Films \cup {None}],
         NEW m1 \in [Films -> Films \cup {None}], NEW c \in Films,
         NEW gone \in SUBSET Films, gone # {}, c \notin gone, m[c] = None,
         \A f \in Films : m1[f] = IF f \in gone THEN c ELSE m[f],
         \A f \in gone : m[f] = None, NEW t, Ranked(m, t)
  PROVE  \E t1 : Ranked(m1, t1)
<1> DEFINE n == Cardinality(Absorbed(m))
           n1 == Cardinality(Absorbed(m1))
           t1 == [f \in Films |-> IF f \in gone THEN n ELSE t[f]]
<1>1. c # None
  BY SiteAssumption
<1>2. Absorbed(m1) = Absorbed(m) \cup gone /\ Absorbed(m) \cap gone = {}
  BY <1>1 DEF Absorbed
<1>3. n \in Nat /\ n1 \in Nat /\ n < n1
  <2>1. Absorbed(m1) \subseteq Films
    BY DEF Absorbed
  <2>2. IsFiniteSet(Absorbed(m1))
    BY <2>1, SiteAssumption, FS_Subset
  <2>3. Absorbed(m) \subseteq Absorbed(m1) /\ Absorbed(m) # Absorbed(m1)
    BY <1>2
  <2>4. n1 \in Nat /\ n \in Nat /\ n <= n1 /\ n # n1
    BY <2>2, <2>3, FS_Subset, FS_CardinalityType
  <2> QED
    BY <2>4
<1>4. t \in [Films -> Nat]
  BY DEF Ranked
<1> HIDE DEF n, n1
<1>5. t1 \in [Films -> Nat]
  BY <1>3, <1>4
<1>6. \A f \in Absorbed(m) : t[f] < n /\ (m[f] \in Absorbed(m) => t[f] < t[m[f]])
  BY DEF Ranked, n
<1>7. ASSUME NEW f \in Absorbed(m1)
      PROVE  t1[f] < n1 /\ (m1[f] \in Absorbed(m1) => t1[f] < t1[m1[f]])
  <2>1. f \in Films /\ t[f] \in Nat
    BY <1>4 DEF Absorbed
  <2>2. CASE f \in gone
    <3>1. t1[f] = n /\ m1[f] = c /\ c \notin Absorbed(m1)
      BY <1>2, <2>1, <2>2 DEF Absorbed
    <3> QED
      BY <1>3, <3>1
  <2>3. CASE f \notin gone
    <3>1. t1[f] = t[f] /\ m1[f] = m[f] /\ f \in Absorbed(m)
      BY <1>2, <2>1, <2>3
    <3>2. t1[f] < n
      BY <1>6, <3>1
    <3>3. ASSUME m1[f] \in Absorbed(m1) PROVE t1[f] < t1[m1[f]]
      <4>1. CASE m1[f] \in gone
        BY <3>2, <4>1
      <4>2. CASE m1[f] \in Absorbed(m) /\ m1[f] \notin gone
        <5>1. m1[f] \in Films
          BY <4>2 DEF Absorbed
        <5>2. t1[m1[f]] = t[m[f]] /\ t[f] < t[m[f]]
          BY <1>6, <3>1, <4>2, <5>1
        <5> QED
          BY <3>1, <5>2
      <4> QED
        BY <1>2, <3>3, <4>1, <4>2
    <3> QED
      BY <1>3, <2>1, <3>1, <3>2, <3>3
  <2> QED
    BY <2>2, <2>3
<1> HIDE DEF t1
<1>8. Ranked(m1, t1)
  BY <1>5, <1>7 DEF Ranked, n1
<1> QED
  BY <1>8
-----------------------------------------------------------------------------
LEMMA MergeInit == M!Init => MergeInv
<1> SUFFICES ASSUME M!Init PROVE MergeInv
  OBVIOUS
<1>1. M!Idle \in Wishes /\ M!Idle.op = "none"
  BY DEF M!Idle, Wishes
<1>2. MergeShape
  BY <1>1 DEF M!Init, MergeShape, Merging
<1>3. Absorbed(merged) = {}
  BY DEF M!Init, Absorbed
<1>4. Ranked(merged, [f \in Films |-> 0])
  BY <1>3 DEF Ranked
<1>5. Ordered
  BY <1>3, <1>4 DEF Ordered
<1>6. AllFound
  BY DEF AllFound, M!Init
<1> QED
  BY <1>2, <1>5, <1>6 DEF MergeInv

\* The films are in order as long as no merge is done and none is brought back.
LEMMA OrderedStays ==
  ASSUME Ordered, merged' = merged, live \subseteq live',
         \A f \in Films : f \in live' /\ f \notin live => merged[f] = None
  PROVE  Ordered'
<1>1. Absorbed(merged') = Absorbed(merged)
  OBVIOUS
<1>2. Absorbed(merged) \subseteq Films
  BY DEF Absorbed
<1>3. \A f \in Absorbed(merged) : f \notin live'
  BY <1>2 DEF Ordered, Absorbed
<1>4. \A f \in Absorbed(merged) : merged[f] \in live' \cup Absorbed(merged)
  BY DEF Ordered
<1>5. \E t : Ranked(merged, t)
  BY DEF Ordered
<1> QED
  BY <1>1, <1>3, <1>4, <1>5 DEF Ordered

\* A request that takes up something new, or ends.
LEMMA Begun ==
  ASSUME MergeShape, NEW r \in Requests, NEW j \in Wishes, Merging(j),
         req3' = [req3 EXCEPT ![r] = j]
  PROVE  req3' \in [Requests -> Wishes] /\ \A q \in Requests : Merging(req3'[q])
BY DEF MergeShape

LEMMA EndsMerging ==
  ASSUME MergeShape, NEW r \in Requests, M!Ends(r)
  PROVE  req3' \in [Requests -> Wishes] /\ \A q \in Requests : Merging(req3'[q])
<1>1. M!Idle \in Wishes /\ Merging(M!Idle)
  BY DEF M!Idle, Wishes, Merging
<1> QED
  BY <1>1, Begun DEF M!Ends

-----------------------------------------------------------------------------
\* The member's buttons: what is put on a film, and what is taken off.
LEMMA PutsKeep ==
  ASSUME Unfolded, MergeInv, NEW r \in Requests,
         NEW places \in SUBSET M!Places, M!Puts(r, places)
  PROVE  MergeInv'
<1>1. PICK f : f = req3[r].film
  OBVIOUS
<1>2. M!Ends(r) /\ UNCHANGED <<live, key, merged, lapses>> /\ f \in Films
      /\ \/ UNCHANGED <<rows3, wants>>
         \/ /\ f \in live
            /\ rows3' = [rows3 EXCEPT ![f] = @ \cup places]
            /\ wants' = [wants EXCEPT ![f] = @ \cup places]
  BY <1>1 DEF M!Puts, M!Fails, M!At, MergeInv, MergeShape, Merging
<1>3. MergeShape'
  <2>1. req3' \in [Requests -> Wishes] /\ \A q \in Requests : Merging(req3'[q])
    BY <1>2, EndsMerging DEF MergeInv
  <2>2. rows3' \in [Films -> SUBSET M!Places]
        /\ wants' \in [Films -> SUBSET M!Places]
    BY <1>2 DEF MergeInv, MergeShape
  <2> QED
    BY <1>2, <2>1, <2>2 DEF MergeInv, MergeShape
<1>4. ASSUME lapses' = {} PROVE Ordered' /\ AllFound'
  <2>1. Ordered /\ AllFound /\ MergeShape
    BY <1>2, <1>4 DEF MergeInv
  <2>2. Ordered'
    BY <1>2, <2>1, OrderedStays
  <2>3. ASSUME NEW g \in Films
        PROVE  wants'[g] \subseteq rows3'[M!resolve_film_id(g)']
    <3>1. M!resolve_film_id(g)' = M!resolve_film_id(g)
      BY <1>2, SameMerges
    <3>2. PICK x : x = M!resolve_film_id(g)
      OBVIOUS
    <3>3. wants[g] \subseteq rows3[x] /\ x \in Films /\ (g = f /\ f \in live => x = f)
      BY <2>1, <3>2, AllLead DEF AllFound, Leads, Ordered, Absorbed
    <3>4. wants'[g] \subseteq rows3'[x]
      <4>1. CASE UNCHANGED <<rows3, wants>>
        BY <3>3, <4>1
      <4>2. CASE /\ f \in live
                 /\ rows3' = [rows3 EXCEPT ![f] = @ \cup places]
                 /\ wants' = [wants EXCEPT ![f] = @ \cup places]
        BY <2>1, <3>3, <4>2 DEF MergeShape
      <4> QED
        BY <1>2, <4>1, <4>2
    <3> QED
      BY <3>1, <3>2, <3>4
  <2> QED
    BY <2>2, <2>3 DEF AllFound
<1> QED
  BY <1>3, <1>4 DEF MergeInv

LEMMA WatchedKeeps ==
  ASSUME Unfolded, MergeInv, NEW r \in Requests, M!mark_watched(r)
  PROVE  MergeInv'
<1>1. PICK f : f = req3[r].film
  OBVIOUS
<1>2. PICK less : less = M!Forgets(f, "watchlist")
  OBVIOUS
<1>3. M!Ends(r) /\ UNCHANGED <<live, key, merged>> /\ f \in Films
      /\ lapses \subseteq lapses'
      /\ \/ UNCHANGED <<rows3, wants>>
         \/ /\ f \in live
            /\ rows3' = [rows3 EXCEPT ![f] =
                 (@ \ {"watchlist"}) \cup {"watched", "review"}]
            /\ wants' = [less EXCEPT ![f] = @ \cup {"watched", "review"}]
  BY <1>1, <1>2 DEF M!mark_watched, M!Fails, M!At, MergeInv, MergeShape, Merging
<1>4. /\ less \in [Films -> SUBSET M!Places]
      /\ \A g \in Films : less[g] = IF M!resolve_film_id(g) = f
                                     THEN wants[g] \ {"watchlist"} ELSE wants[g]
  BY <1>2 DEF M!Forgets, MergeInv, MergeShape
<1>5. MergeShape'
  <2>1. req3' \in [Requests -> Wishes] /\ \A q \in Requests : Merging(req3'[q])
    BY <1>3, EndsMerging DEF MergeInv
  <2>2. rows3' \in [Films -> SUBSET M!Places]
    BY <1>3 DEF MergeInv, MergeShape, M!Places
  <2>3. wants' \in [Films -> SUBSET M!Places]
    BY <1>3, <1>4 DEF MergeInv, MergeShape, M!Places
  <2> QED
    BY <1>3, <2>1, <2>2, <2>3 DEF MergeInv, MergeShape
<1>6. ASSUME lapses' = {} PROVE Ordered' /\ AllFound'
  <2>1. Ordered /\ AllFound /\ MergeShape
    BY <1>3, <1>6 DEF MergeInv
  <2>2. Ordered'
    BY <1>3, <2>1, OrderedStays
  <2>3. ASSUME NEW g \in Films
        PROVE  wants'[g] \subseteq rows3'[M!resolve_film_id(g)']
    <3>1. M!resolve_film_id(g)' = M!resolve_film_id(g)
      BY <1>3, SameMerges
    <3>2. PICK x : x = M!resolve_film_id(g)
      OBVIOUS
    <3>3. wants[g] \subseteq rows3[x] /\ x \in Films /\ (g = f /\ f \in live => x = f)
      BY <2>1, <3>2, AllLead DEF AllFound, Leads, Ordered, Absorbed
    <3>4. wants'[g] \subseteq rows3'[x]
      <4>1. CASE UNCHANGED <<rows3, wants>>
        BY <3>3, <4>1
      <4>2. CASE /\ f \in live
                 /\ rows3' = [rows3 EXCEPT ![f] =
                      (@ \ {"watchlist"}) \cup {"watched", "review"}]
                 /\ wants' = [less EXCEPT ![f] = @ \cup {"watched", "review"}]
        <5>1. less[g] = IF x = f THEN wants[g] \ {"watchlist"} ELSE wants[g]
          BY <1>4, <3>2
        <5>2. rows3'[x] = IF x = f
                THEN (rows3[f] \ {"watchlist"}) \cup {"watched", "review"}
                ELSE rows3[x]
          BY <2>1, <3>3, <4>2 DEF MergeShape
        <5>3. wants'[g] = IF g = f THEN less[f] \cup {"watched", "review"}
                          ELSE less[g]
          BY <1>4, <4>2
        <5> QED
          BY <3>3, <4>2, <5>1, <5>2, <5>3
      <4> QED
        BY <1>3, <4>1, <4>2
    <3> QED
      BY <3>1, <3>2, <3>4
  <2> QED
    BY <2>2, <2>3 DEF AllFound
<1> QED
  BY <1>5, <1>6 DEF MergeInv

LEMMA TakesOffKeeps ==
  ASSUME Unfolded, MergeInv, NEW r \in Requests, M!TakesOff(r)
  PROVE  MergeInv'
<1>1. PICK f : f = req3[r].film
  OBVIOUS
<1>2. PICK p \in M!Places :
        /\ M!Ends(r) /\ UNCHANGED <<live, key, merged>> /\ f \in Films
        /\ lapses \subseteq lapses' /\ wants' = M!Forgets(f, p)
        /\ rows3' = [rows3 EXCEPT ![f] = @ \ {p}]
  BY <1>1 DEF M!TakesOff, M!At, MergeInv, MergeShape, Merging, M!Places
<1>3. \A g \in Films : wants'[g] = IF M!resolve_film_id(g) = f
                                    THEN wants[g] \ {p} ELSE wants[g]
  BY <1>2 DEF M!Forgets
<1>4. MergeShape'
  <2>1. req3' \in [Requests -> Wishes] /\ \A q \in Requests : Merging(req3'[q])
    BY <1>2, EndsMerging DEF MergeInv
  <2>2. rows3' \in [Films -> SUBSET M!Places]
    BY <1>2 DEF MergeInv, MergeShape
  <2>3. wants' \in [Films -> SUBSET M!Places]
    BY <1>2 DEF MergeInv, MergeShape, M!Forgets
  <2> QED
    BY <1>2, <2>1, <2>2, <2>3 DEF MergeInv, MergeShape
<1>5. ASSUME lapses' = {} PROVE Ordered' /\ AllFound'
  <2>1. Ordered /\ AllFound /\ MergeShape
    BY <1>2, <1>5 DEF MergeInv
  <2>2. Ordered'
    BY <1>2, <2>1, OrderedStays
  <2>3. ASSUME NEW g \in Films
        PROVE  wants'[g] \subseteq rows3'[M!resolve_film_id(g)']
    <3>1. M!resolve_film_id(g)' = M!resolve_film_id(g)
      BY <1>2, SameMerges
    <3>2. PICK x : x = M!resolve_film_id(g)
      OBVIOUS
    <3>3. wants[g] \subseteq rows3[x] /\ x \in Films
      BY <2>1, <3>2, AllLead DEF AllFound, Leads
    <3>4. rows3'[x] = IF x = f THEN rows3[f] \ {p} ELSE rows3[x]
      BY <1>2, <2>1, <3>3 DEF MergeShape
    <3>5. wants'[g] \subseteq rows3'[x]
      BY <1>3, <3>2, <3>3, <3>4
    <3> QED
      BY <3>1, <3>2, <3>5
  <2> QED
    BY <2>2, <2>3 DEF AllFound
<1> QED
  BY <1>4, <1>5 DEF MergeInv
-----------------------------------------------------------------------------
\* Forms, pages and the catalogue: no member's row and no merge is changed.
LEMMA OthersKeep ==
  ASSUME MergeInv, UNCHANGED <<merged, rows3, wants>>,
         live \subseteq live', live' \subseteq Films,
         key' \in [Films -> Keys \cup {None}],
         lapses \subseteq lapses',
         lapses' = {} => \A f \in live' \ live : merged[f] = None,
         req3' \in [Requests -> Wishes],
         \A q \in Requests : Merging(req3'[q])
  PROVE  MergeInv'
<1>1. MergeShape'
  BY DEF MergeInv, MergeShape
<1>2. ASSUME lapses' = {} PROVE Ordered' /\ AllFound'
  <2>1. Ordered /\ AllFound
    BY <1>2 DEF MergeInv
  <2>2. Ordered'
    BY <1>2, <2>1, OrderedStays
  <2>3. \A g \in Films : M!resolve_film_id(g)' = M!resolve_film_id(g)
    BY SameMerges
  <2> QED
    BY <2>1, <2>2, <2>3 DEF AllFound
<1> QED
  BY <1>1, <1>2 DEF MergeInv

\* A request takes up j, or ends with nothing done.
LEMMA TakesUp ==
  ASSUME MergeInv, NEW r \in Requests, NEW j \in Wishes, Merging(j),
         req3' = [req3 EXCEPT ![r] = j],
         UNCHANGED <<live, key, merged, rows3, wants, lapses>>
  PROVE  MergeInv'
<1>1. MergeShape
  BY DEF MergeInv
<1>2. req3' \in [Requests -> Wishes] /\ \A q \in Requests : Merging(req3'[q])
  BY <1>1, Begun
<1> QED
  BY <1>1, <1>2, OthersKeep DEF MergeShape

LEMMA GivesUp ==
  ASSUME MergeInv, NEW r \in Requests, M!Fails(r), UNCHANGED wants
  PROVE  MergeInv'
<1>1. MergeShape /\ M!Ends(r) /\ UNCHANGED <<live, key, merged, rows3, lapses>>
  BY DEF MergeInv, M!Fails
<1>2. req3' \in [Requests -> Wishes] /\ \A q \in Requests : Merging(req3'[q])
  BY <1>1, EndsMerging
<1> QED
  BY <1>1, <1>2, OthersKeep DEF MergeShape

LEMMA FormsKeep ==
  ASSUME MergeInv, NEW r \in Requests
  PROVE  /\ \A id \in Films : M!Opens(r, id) => MergeInv'
         /\ \A gone \in SUBSET Films, c \in Films :
              M!merge_films(r, gone, c) => MergeInv'
         /\ \A f \in Films, k \in Keys \cup {None} :
              M!FillLoads(r, f, k) => MergeInv'
<1>1. /\ MergeShape /\ live \subseteq Films /\ key \in [Films -> Keys \cup {None}]
      /\ req3 \in [Requests -> Wishes] /\ M!Idle \in Wishes
  BY DEF MergeInv, MergeShape, M!Idle, Wishes
<1>2. ASSUME NEW id \in Films, M!Opens(r, id) PROVE MergeInv'
  <2>1. PICK f : f = M!resolve_film_id(id)
    OBVIOUS
  <2> DEFINE j == [M!Idle EXCEPT !.op = "member", !.at = "loaded", !.film = f]
  <2>2. f \in Films /\ req3' = [req3 EXCEPT ![r] = j]
        /\ UNCHANGED <<live, key, merged, rows3, wants, lapses>>
    BY <1>1, <1>2, <2>1 DEF M!Opens
  <2>3. j \in Wishes /\ Merging(j)
    BY <1>1, <2>2 DEF Wishes, Merging
  <2> QED
    BY <2>2, <2>3, TakesUp
<1>3. ASSUME NEW gone \in SUBSET Films, NEW c \in Films, M!merge_films(r, gone, c)
      PROVE  MergeInv'
  <2>1. M!KeysOf(gone, c) \subseteq Keys \cup {None}
    BY DEF M!KeysOf
  <2>2. PICK k \in Keys \cup {None} :
          req3' = [req3 EXCEPT ![r] = M!Form(gone, c, k)]
    BY <1>3, <2>1 DEF M!merge_films
  <2> DEFINE j == M!Form(gone, c, k)
  <2>3. gone # {} /\ c \notin gone
        /\ UNCHANGED <<live, key, merged, rows3, wants, lapses>>
    BY <1>3 DEF M!merge_films
  <2>4. j \in Wishes /\ Merging(j)
    BY <1>1, <2>3 DEF M!Form, Wishes, Merging
  <2> QED
    BY <2>2, <2>3, <2>4, TakesUp
<1>4. ASSUME NEW f \in Films, NEW k \in Keys \cup {None}, M!FillLoads(r, f, k)
      PROVE  MergeInv'
  <2>1. PICK k1 \in Keys \cup {None} :
          k1 = IF key[f] # None THEN key[f] ELSE k
    BY <1>1
  <2> DEFINE j == [M!Idle EXCEPT !.op = "fill", !.at = "loaded", !.film = f,
                                 !.key = k1]
  <2>2. req3' = [req3 EXCEPT ![r] = j]
        /\ UNCHANGED <<live, key, merged, rows3, wants, lapses>>
    BY <1>4, <2>1 DEF M!FillLoads
  <2>3. j \in Wishes /\ Merging(j)
    BY <1>1 DEF Wishes, Merging
  <2> QED
    BY <2>2, <2>3, TakesUp
<1> QED
  BY <1>2, <1>3, <1>4

LEMMA RepointKeeps ==
  ASSUME MergeInv, NEW r \in Requests, M!Repoint(r) PROVE MergeInv'
<1>1. /\ MergeShape /\ rows3 \in [Films -> SUBSET M!Places]
      /\ req3 \in [Requests -> Wishes] /\ Merging(req3[r])
  BY DEF MergeInv, MergeShape
<1>2. CASE M!Fails(r)
  BY <1>2, GivesUp DEF M!Repoint
<1>3. CASE ~M!Fails(r)
  <2> DEFINE found == [f \in Films |->
                         IF f \in req3[r].absorbed THEN rows3[f] ELSE {}]
  <2>1. req3' = [req3 EXCEPT ![r].at = "open", ![r].seen = found]
        /\ UNCHANGED <<live, key, merged, rows3, wants, lapses>>
    BY <1>3 DEF M!Repoint
  <2>2. found \in [Films -> SUBSET M!Places]
    BY <1>1
  <2> HIDE DEF found
  <2>3. PICK w \in Wishes : w = req3[r] /\ Merging(w)
    BY <1>1
  <2> DEFINE j == [w EXCEPT !.at = "open", !.seen = found]
  <2>4. req3' = [req3 EXCEPT ![r] = j]
    BY <1>1, <2>1, <2>3
  <2>5. j \in Wishes /\ j.op = w.op /\ j.film = w.film
        /\ j.absorbed = w.absorbed
    BY <2>2 DEF Wishes
  <2>6. Merging(j)
    BY <2>3, <2>5 DEF Merging
  <2> QED
    BY <2>1, <2>4, <2>5, <2>6, TakesUp
<1> QED
  BY <1>2, <1>3

LEMMA FillSavesKeep ==
  ASSUME MergeInv, NEW r \in Requests, M!FillSaves(r) PROVE MergeInv'
<1>1. /\ MergeShape /\ live \subseteq Films /\ key \in [Films -> Keys \cup {None}]
      /\ req3 \in [Requests -> Wishes] /\ \A q \in Requests : Merging(req3[q])
  BY DEF MergeInv, MergeShape
<1>2. CASE M!Fails(r)
  BY <1>2, GivesUp DEF M!FillSaves
<1>3. CASE ~M!Fails(r)
  <2>1. PICK f : f = req3[r].film
    OBVIOUS
  <2>2. f \in Films /\ req3[r].key \in Keys \cup {None}
    BY <1>1, <2>1 DEF M!FillSaves, M!At, Merging, Wishes
  <2>3. /\ live' = live \cup {f} /\ key' = [key EXCEPT ![f] = req3[r].key]
        /\ lapses' = lapses \cup (IF f \in live THEN {} ELSE {"revived"})
        /\ UNCHANGED req3 \/ M!Ends(r)
        /\ UNCHANGED <<merged, rows3, wants>>
    BY <1>3, <2>1 DEF M!FillSaves
  <2>4. req3' \in [Requests -> Wishes] /\ \A q \in Requests : Merging(req3'[q])
    <3>1. CASE UNCHANGED req3
      BY <1>1, <3>1
    <3>2. CASE M!Ends(r)
      BY <1>1, <3>2, EndsMerging
    <3> QED
      BY <2>3, <3>1, <3>2
  <2>5. key' \in [Films -> Keys \cup {None}]
    BY <1>1, <2>2, <2>3
  <2>6. lapses' = {} => f \in live
    BY <2>3
  <2> QED
    BY <1>1, <2>2, <2>3, <2>4, <2>5, <2>6, OthersKeep
<1> QED
  BY <1>2, <1>3

LEMMA NewFilmKeeps ==
  ASSUME MergeInv, NEW f \in Films, NEW k \in Keys \cup {None}, M!NewFilm(f, k)
  PROVE  MergeInv'
<1>1. /\ live' = live \cup {f} /\ key' = [key EXCEPT ![f] = k]
      /\ merged[f] = None /\ UNCHANGED <<merged, rows3, req3, wants, lapses>>
  BY DEF M!NewFilm
<1>2. /\ live \subseteq Films /\ key \in [Films -> Keys \cup {None}]
      /\ req3 \in [Requests -> Wishes] /\ \A q \in Requests : Merging(req3[q])
  BY DEF MergeInv, MergeShape
<1> QED
  BY <1>1, <1>2, OthersKeep

-----------------------------------------------------------------------------
\* The merge itself: what led to the absorbed films leads to the one that is
\* left, which has what they had.
LEMMA CommitKeeps ==
  ASSUME Unfolded, Unfolded', MergeInv, NEW r \in Requests, M!Commit(r)
  PROVE  MergeInv'
<1>1. PICK c, gone, late :
        /\ c = req3[r].film /\ gone = req3[r].absorbed
        /\ late = UNION {rows3[a] \ req3[r].seen[a] : a \in gone}
  OBVIOUS
<1>2. PICK given : given = UNION {req3[r].seen[a] : a \in gone}
  OBVIOUS
<1>3. /\ req3[r] \in Wishes /\ Merging(req3[r]) /\ req3[r].op = "merge"
      /\ \A a \in gone : merged[a] = None
      /\ late \cap M!Protecting = {}
      /\ live' = (live \ gone) \cup {c}
      /\ key' = [f \in Films |-> IF f = c THEN req3[r].key
                                 ELSE IF f \in gone THEN None ELSE key[f]]
      /\ merged' = [f \in Films |-> IF f \in gone THEN c ELSE merged[f]]
      /\ rows3' = [f \in Films |-> IF f = c THEN rows3[c] \cup given
                                   ELSE IF f \in gone THEN {} ELSE rows3[f]]
      /\ lapses' = lapses \cup (IF c \in live THEN {} ELSE {"revived"})
                          \cup (IF "block" \in late THEN {"crossed"} ELSE {})
      /\ M!Ends(r) /\ UNCHANGED wants
  BY <1>1, <1>2 DEF M!Commit, M!At, M!Repointed, MergeInv, MergeShape
<1>4. /\ live \subseteq Films /\ key \in [Films -> Keys \cup {None}]
      /\ merged \in [Films -> Films \cup {None}]
      /\ rows3 \in [Films -> SUBSET M!Places]
      /\ wants \in [Films -> SUBSET M!Places]
  BY DEF MergeInv, MergeShape
<1>5. /\ gone \in SUBSET Films /\ gone # {} /\ c \in Films \ gone
      /\ req3[r].key \in Keys \cup {None}
      /\ req3[r].seen \in [Films -> SUBSET M!Places]
  BY <1>1, <1>3 DEF Wishes, Merging
<1>6. given \subseteq M!Places
  BY <1>2, <1>5
<1>7. MergeShape'
  <2>1. req3' \in [Requests -> Wishes] /\ \A q \in Requests : Merging(req3'[q])
    BY <1>3, EndsMerging DEF MergeInv
  <2>2. live' \subseteq Films /\ key' \in [Films -> Keys \cup {None}]
    BY <1>3, <1>4, <1>5
  <2>3. merged' \in [Films -> Films \cup {None}]
    BY <1>3, <1>4, <1>5
  <2>4. rows3' \in [Films -> SUBSET M!Places]
    BY <1>3, <1>4, <1>5, <1>6
  <2> QED
    BY <1>3, <1>4, <2>1, <2>2, <2>3, <2>4 DEF MergeShape
<1>8. ASSUME lapses' = {} PROVE Ordered' /\ AllFound'
  <2>1. lapses = {} /\ c \in live /\ "block" \notin late
    BY <1>3, <1>8
  <2>2. MergeShape /\ Ordered /\ AllFound
    BY <2>1 DEF MergeInv
  <2>3. merged[c] = None /\ c # None
    BY <1>5, <2>1, <2>2, SiteAssumption DEF Ordered, Absorbed
  <2>4. PICK m1 : m1 = merged'
    OBVIOUS
  <2>5. /\ m1 \in [Films -> Films \cup {None}]
        /\ \A f \in Films : m1[f] = IF f \in gone THEN c ELSE merged[f]
    BY <1>3, <1>7, <2>4 DEF MergeShape
  <2>6. Absorbed(m1) = Absorbed(merged) \cup gone
    BY <1>5, <2>3, <2>5 DEF Absorbed
  <2>7. Ordered'
    <3>1. \E t1 : Ranked(m1, t1)
      <4>1. PICK t : Ranked(merged, t)
        BY <2>2 DEF Ordered
      <4> QED
        BY <1>3, <1>4, <1>5, <2>3, <2>5, <4>1, RankedStays
    <3>2. ASSUME NEW f \in Absorbed(m1)
          PROVE  f \notin live' /\ m1[f] \in live' \cup Absorbed(m1)
      <4>1. f \in Films
        BY <3>2 DEF Absorbed
      <4>2. CASE f \in gone
        BY <1>3, <1>5, <2>5, <4>1, <4>2
      <4>3. CASE f \notin gone
        <5>1. f \in Absorbed(merged) /\ m1[f] = merged[f]
          BY <2>5, <2>6, <3>2, <4>1, <4>3
        <5>2. f \notin live /\ merged[f] \in live \cup Absorbed(merged)
          BY <2>2, <5>1 DEF Ordered
        <5>3. f # c
          BY <2>1, <5>2
        <5> QED
          BY <1>3, <2>6, <5>1, <5>2, <5>3
      <4> QED
        BY <4>2, <4>3
    <3> QED
      BY <2>4, <3>1, <3>2 DEF Ordered
  <2>8. \A f \in Films : Leads(f)
    BY <2>2, AllLead
  <2>9. \A f \in Films : M!resolve_film_id(f)' \in Films \ Absorbed(m1)
    <3>1. PICK t1 : Ranked(m1, t1)
      BY <2>4, <2>7 DEF Ordered
    <3>2. ASSUME NEW f \in Films
          PROVE  M!resolve_film_id(f)' \in Films \ Absorbed(m1)
      <4>1. PICK s1 : Walk(m1, s1, f) /\ M!resolve_film_id(f)' = s1[Hops]
        BY <2>4 DEF Unfolded
      <4> QED
        BY <2>5, <3>1, <4>1, WalkEnds
    <3> QED
      BY <3>2
  <2>10. \A a \in gone : rows3[a] \subseteq given
    <3>1. late = {}
      <4>1. late \subseteq M!Places
        BY <1>1, <1>4, <1>5
      <4> QED
        BY <1>3, <2>1, <4>1 DEF M!Protecting
    <3> QED
      BY <1>1, <1>2, <3>1
  <2>11. ASSUME NEW f \in Films
         PROVE  wants'[f] \subseteq rows3'[M!resolve_film_id(f)']
    <3>1. PICK x, y : x = M!resolve_film_id(f) /\ y = M!resolve_film_id(f)'
      OBVIOUS
    <3>2. y = x \/ (y = c /\ x \in gone)
      <4>1. PICK s : Walk(merged, s, f) /\ M!resolve_film_id(f) = s[Hops]
        BY DEF Unfolded
      <4>2. PICK s1 : Walk(m1, s1, f) /\ M!resolve_film_id(f)' = s1[Hops]
        BY <2>4 DEF Unfolded
      <4> QED
        BY <1>3, <1>4, <1>5, <2>3, <2>5, <3>1, <4>1, <4>2, WalkJoins
    <3>3. x \in Films /\ wants[f] \subseteq rows3[x] /\ y \in Films /\ y \notin gone
      BY <2>2, <2>6, <2>8, <2>9, <3>1 DEF AllFound, Leads
    <3>4. wants[f] \subseteq rows3'[y]
      <4>1. CASE y = c /\ x \in gone
        BY <1>3, <1>5, <2>10, <3>3, <4>1
      <4>2. CASE y = x
        BY <1>3, <3>3, <4>2
      <4> QED
        BY <3>2, <4>1, <4>2
    <3> QED
      BY <1>3, <3>1, <3>4
  <2> QED
    BY <2>7, <2>11 DEF AllFound
<1> QED
  BY <1>7, <1>8 DEF MergeInv

-----------------------------------------------------------------------------
LEMMA MergeStep ==
  ASSUME Unfolded, Unfolded', MergeInv, M!Next PROVE MergeInv'
<1>1. ASSUME NEW r \in Requests, M!shelve(r) \/ M!film_block(r) PROVE MergeInv'
  <2>1. {"watchlist"} \in SUBSET M!Places /\ {"block"} \in SUBSET M!Places
    BY DEF M!Places
  <2> QED
    BY <1>1, <2>1, PutsKeep DEF M!shelve, M!film_block
<1>2. ASSUME NEW r \in Requests, M!mark_watched(r) PROVE MergeInv'
  BY <1>2, WatchedKeeps
<1>3. ASSUME NEW r \in Requests, M!TakesOff(r) PROVE MergeInv'
  BY <1>3, TakesOffKeeps
<1>4. ASSUME NEW r \in Requests, M!Commit(r) PROVE MergeInv'
  BY <1>4, CommitKeeps
<1>5. ASSUME NEW f \in Films, NEW k \in Keys \cup {None}, M!NewFilm(f, k)
      PROVE  MergeInv'
  BY <1>5, NewFilmKeeps
<1>6. ASSUME NEW r \in Requests, M!Repoint(r) PROVE MergeInv'
  BY <1>6, RepointKeeps
<1>7. ASSUME NEW r \in Requests, M!Rollback(r) PROVE MergeInv'
  BY <1>7, GivesUp DEF M!Rollback
<1>8. ASSUME NEW r \in Requests, M!FillSaves(r) PROVE MergeInv'
  BY <1>8, FillSavesKeep
<1> QED
  BY <1>1, <1>2, <1>3, <1>4, <1>5, <1>6, <1>7, <1>8, FormsKeep DEF M!Next

LEMMA MergesKeep == SiteSpec => [](area = "merges" => MergeInv)
<1> DEFINE Good == area = "merges" => MergeInv
<1>1. SiteInit => Good
  BY MergeInit DEF SiteInit
<1>2. Unfolded /\ Unfolded' /\ Good
      /\ [SiteNext]_<<vars, lists, accounts, merges, files, area>> => Good'
  <2>1. ASSUME Unfolded, Unfolded', Good, area = "merges", M!Next, UNCHANGED area
        PROVE  Good'
    BY <2>1, MergeStep
  <2>2. ASSUME Good, UNCHANGED <<merges, area>> PROVE Good'
    <3>1. \A f \in Films : M!resolve_film_id(f)' = M!resolve_film_id(f)
      BY <2>2, SameMerges DEF merges
    <3>2. AllFound => AllFound'
      BY <2>2, <3>1 DEF merges, AllFound
    <3>3. MergeShape => MergeShape'
      BY <2>2 DEF merges, MergeShape
    <3>4. Ordered => Ordered'
      BY <2>2 DEF merges, Ordered
    <3> QED
      BY <2>2, <3>2, <3>3, <3>4 DEF merges, MergeInv
  <2>3. ASSUME Unfolded, Unfolded', Good, SiteNext PROVE Good'
    BY <2>1, <2>2, <2>3 DEF SiteNext
  <2> QED
    BY <2>2, <2>3
<1> QED
  BY <1>1, <1>2, Unfolds, PTL DEF SiteSpec

\* What a member put on a film is on the film its id leads to, through every
\* merge, unless a save brought back a row that was merged away or the member
\* touched the film while its merge was open.
THEOREM EntriesAreFollowed == SiteSpec => []EntriesFollow
<1>1. Unfolded /\ (area = "merges" => MergeInv) => EntriesFollow
  <2> SUFFICES ASSUME Unfolded, MergeInv, lapses = {},
                      NEW f \in Films
               PROVE  /\ merged[f] # None => M!resolve_film_id(f) \in live
                      /\ wants[f] \subseteq rows3[M!resolve_film_id(f)]
    BY DEF EntriesFollow, M!EntriesFollow
  <2>1. MergeShape /\ Ordered /\ AllFound
    BY DEF MergeInv
  <2>2. Leads(f)
    BY <2>1, AllLead
  <2> QED
    BY <2>1, <2>2 DEF AllFound, Leads
<1> QED
  BY <1>1, MergesKeep, Unfolds, PTL
-----------------------------------------------------------------------------
(* Lists                                                                     *)

Moves == {"up", "down"}
Early == {"loaded", "read", "half"}

Editing ==
  [op : L!Edits \cup {"none"},
   at : {"idle", "loaded", "read", "half", "made", "composed"},
   on : Listed \cup ListTitles \cup {"none"}, title : ListTitles \cup {"none"},
   rank : Nat, other : Listed \cup {"none"}, otherRank : Nat,
   lost : BOOLEAN, doc : L!Copies]

ListShape ==
  /\ list \in {"unborn", "live", "gone"} /\ title \in ListTitles
  /\ rank \in [Listed -> Nat]
  /\ \E n \in Nat : \A f \in Listed : rank[f] <= n
  /\ rows \in Seq(Listed) /\ asked \in Seq(Listed)
  /\ save \in {"none", "saved", "dismissed"}
  /\ save = "dismissed" => list = "gone"
  /\ copy \in L!Copies
  /\ req2 \in [Requests -> Editing]
  /\ crossed \in BOOLEAN /\ alone \in BOOLEAN /\ edits \in 0..MaxEdits

\* A film has one row or none, and is asked for once or not at all.
RowsOnce ==
  /\ L!IsInjective(rows) /\ L!IsInjective(asked)
  /\ L!ToSet(rows) = {f \in Listed : rank[f] > 0}
  /\ L!ToSet(asked) = {f \in Listed : rank[f] > 0}

\* What a request is about is of the kind its edit takes.
Edits(w) ==
  /\ w.at = "idle" => w = L!Idle
  /\ w.at # "idle" => w.op \in L!Edits
  /\ w.at = "half" => w.op \in Moves
  /\ w.at = "read" => w.op \in Moves \cup {"add"}
  /\ w.op \in Moves \cup {"add", "remove"} => w.on \in Listed
  /\ w.op = "edit" => w.on \in ListTitles
  /\ w.op \in Moves /\ w.at \in {"read", "half"} => w.other \in Listed

Adds(w) == w.op = "add" /\ w.at = "read"

\* A move whose rows are still there.
Moving(w) == w.op \in Moves /\ w.at \in Early /\ ~w.lost

OnRows(w) ==
  /\ Adds(w) => w.rank > 0
  /\ Moving(w) =>
       /\ rank[w.on] > 0 /\ w.rank > 0
       /\ w.at # "loaded" => rank[w.other] > 0 /\ w.otherRank > 0

\* What a request has read of the ranks still holds.
Fits(w) ==
  /\ Adds(w) => \A f \in Listed : rank[f] < w.rank
  /\ Moving(w) =>
       /\ rank[w.on] = w.rank
       /\ w.at # "loaded" => w.other # w.on /\ rank[w.other] = w.otherRank

Ascending ==
  \A i, j \in DOMAIN asked : i < j => rank[asked[i]] < rank[asked[j]]

OneEach ==
  \A q, r \in L!Open : L!Kind(req2[q].op) = L!Kind(req2[r].op) => q = r

InRank ==
  ~crossed => Ascending /\ OneEach /\ \A r \in Requests : Fits(req2[r])

\* The other instance has the list as it is.
Agreed ==
  /\ list = "unborn" <=> copy.state = "none"
  /\ list = "gone" <=> copy.state = "gone"
  /\ list = "live" => copy.title = title /\ copy.rank = L!SyncItems(rank)

\* An edit that is made and not told: what the copy does not have yet.
Due(w) ==
  /\ w.op = "delete" => list = "gone" /\ copy.state = "live"
  /\ w.op = "create" => list = "live" /\ copy.state = "none"
  /\ w.op \notin {"create", "delete"} => list = "live" /\ copy.state = "live"
  /\ w.title = title

Untold(w) == w.at \in {"made", "composed"}

\* The one open request: the list is as it loaded it, or the copy is as it was.
Turn(w) ==
  /\ w.at \in Early => w.title = title /\ (w.op # "create" => list = "live")
  /\ Untold(w) => Due(w)
  /\ w.at = "composed" =>
       w.doc = [state |-> IF w.op = "delete" THEN "gone" ELSE "live",
                title |-> w.title, rank |-> rank]

Told ==
  alone =>
    /\ \A q, r \in Requests :
         req2[q].at # "idle" /\ req2[r].at # "idle" => q = r
    /\ \A r \in Requests : Turn(req2[r])
    /\ (\A r \in Requests : ~Untold(req2[r])) => Agreed

ListInv ==
  /\ ListShape /\ RowsOnce /\ InRank /\ Told
  /\ \A r \in Requests : Edits(req2[r]) /\ OnRows(req2[r])

-----------------------------------------------------------------------------
LEMMA EditingIs ==
  /\ L!Idle \in Editing
  /\ \A w \in Editing :
       /\ w.op \in L!Edits \cup {"none"}
       /\ w.at \in {"idle", "loaded", "read", "half", "made", "composed"}
       /\ w.rank \in Nat /\ w.otherRank \in Nat /\ w.lost \in BOOLEAN
  BY DEF Editing, L!Idle, L!Nothing, L!Copies

LEMMA NextRankIs ==
  ASSUME ListShape, NEW f \in Listed
  PROVE  L!NextRank \in Nat /\ L!NextRank > 0 /\ \A g \in Listed : rank[g] < L!NextRank
<1> DEFINE S == {rank[g] : g \in Listed}
<1>1. PICK n \in Nat : \A g \in Listed : rank[g] <= n
  BY DEF ListShape
<1>2. S \subseteq Nat /\ rank[f] \in S
  BY DEF ListShape
<1> DEFINE T == {m \in Nat : \A x \in S : x <= m}
<1>3. n \in T
  BY <1>1, <1>2
<1>4. PICK m \in T : \A k \in T : m <= k
  BY <1>3, Least
<1>5. m \in S
  <2>1. CASE m = 0
    <3>1. rank[f] \in Nat /\ rank[f] <= m
      BY <1>2
    <3>2. rank[f] = m
      BY <2>1, <3>1
    <3> QED
      BY <3>2, <1>2
  <2>2. CASE m # 0
    <3>1. ASSUME m \notin S PROVE FALSE
      <4>1. m - 1 \in T
        BY <3>1, <2>2, <1>2
      <4> QED
        BY <4>1, <1>4
    <3> QED
      BY <3>1
  <2> QED
    BY <2>1, <2>2
<1>6. L!Max(S) \in S /\ \A x \in S : L!Max(S) >= x
  BY <1>5 DEF L!Max
<1>7. L!NextRank = L!Max(S) + 1
  BY DEF L!NextRank
<1>8. \A g \in Listed : rank[g] \in S
  OBVIOUS
<1> HIDE DEF S
<1>9. L!Max(S) \in Nat /\ \A g \in Listed : rank[g] \in Nat /\ rank[g] <= L!Max(S)
  BY <1>2, <1>6, <1>8
<1> QED
  BY <1>7, <1>9

LEMMA PlaceIs ==
  ASSUME NEW q \in Seq(Listed), L!IsInjective(q), NEW f \in L!ToSet(q)
  PROVE  /\ L!Place(q, f) \in 1..Len(q) /\ q[L!Place(q, f)] = f
         /\ \A i \in 1..Len(q) : q[i] = f => i = L!Place(q, f)
<1>1. DOMAIN q = 1..Len(q) /\ \E i \in DOMAIN q : q[i] = f
  BY DEF L!ToSet
<1>2. L!Place(q, f) \in DOMAIN q /\ q[L!Place(q, f)] = f
  BY <1>1 DEF L!Place
<1> QED
  BY <1>1, <1>2 DEF L!IsInjective

LEMMA WithoutIs ==
  ASSUME NEW q \in Seq(Listed), L!IsInjective(q), NEW f \in L!ToSet(q)
  PROVE  LET p == L!Place(q, f) IN
         /\ L!Without(q, f) \in Seq(Listed) /\ Len(L!Without(q, f)) = Len(q) - 1
         /\ \A i \in 1..Len(q) - 1 :
              L!Without(q, f)[i] = q[IF i < p THEN i ELSE i + 1]
<1> DEFINE p == L!Place(q, f)
           a == SubSeq(q, 1, p - 1)
           b == SubSeq(q, p + 1, Len(q))
<1>1. p \in 1..Len(q) /\ Len(q) \in Nat
  BY PlaceIs, LenProperties
<1> HIDE DEF p
<1>2. /\ a \in Seq(Listed) /\ Len(a) = p - 1
      /\ \A i \in 1..p - 1 : a[i] = q[i]
  BY <1>1, SubSeqProperties, ElementOfSeq
<1>3. /\ b \in Seq(Listed) /\ Len(b) = Len(q) - p
      /\ \A i \in 1..Len(q) - p : b[i] = q[p + i]
  BY <1>1, SubSeqProperties, ElementOfSeq
<1>4. L!Without(q, f) = a \o b
  BY DEF L!Without, L!RemoveAt, p
<1> HIDE DEF a, b
<1>5. /\ a \o b \in Seq(Listed) /\ Len(a \o b) = Len(a) + Len(b)
      /\ \A i \in 1..Len(a) + Len(b) :
           (a \o b)[i] = IF i <= Len(a) THEN a[i] ELSE b[i - Len(a)]
  BY <1>2, <1>3, ConcatProperties
<1>6. ASSUME NEW i \in 1..Len(q) - 1
      PROVE  (a \o b)[i] = q[IF i < p THEN i ELSE i + 1]
  <2>1. CASE i < p
    BY <2>1, <1>1, <1>2, <1>3, <1>5
  <2>2. CASE ~(i < p)
    <3>1. (a \o b)[i] = b[i - (p - 1)] /\ i - (p - 1) \in 1..Len(q) - p
      BY <2>2, <1>1, <1>2, <1>3, <1>5
    <3>2. p + (i - (p - 1)) = i + 1
      BY <1>1
    <3> QED
      BY <2>2, <3>1, <3>2, <1>3
  <2> QED
    BY <2>1, <2>2
<1> QED
  BY <1>1, <1>2, <1>3, <1>4, <1>5, <1>6 DEF p

\* What is left is there once, in its order, and all but the one.
LEMMA WithoutKeeps ==
  ASSUME NEW q \in Seq(Listed), L!IsInjective(q), NEW f \in L!ToSet(q)
  PROVE  LET s == L!Without(q, f) IN
         /\ s \in Seq(Listed) /\ L!IsInjective(s) /\ L!ToSet(s) = L!ToSet(q) \ {f}
         /\ \A i, j \in DOMAIN s : i < j =>
              \E k, m \in DOMAIN q : k < m /\ q[k] = s[i] /\ q[m] = s[j]
<1> DEFINE p == L!Place(q, f)
           s == L!Without(q, f)
           at(i) == IF i < p THEN i ELSE i + 1
<1>1. /\ p \in 1..Len(q) /\ Len(q) \in Nat /\ q[p] = f
      /\ \A i \in 1..Len(q) : q[i] = f => i = p
  BY PlaceIs, LenProperties
<1>2. s \in Seq(Listed) /\ Len(s) = Len(q) - 1 /\ \A i \in 1..Len(q) - 1 : s[i] = q[at(i)]
  BY WithoutIs
<1>3. DOMAIN s = 1..Len(q) - 1 /\ DOMAIN q = 1..Len(q)
  BY <1>2
<1> HIDE DEF p, s
<1>4. \A i \in 1..Len(q) - 1 : at(i) \in 1..Len(q) /\ at(i) # p
  BY <1>1
<1>5. \A i, j \in 1..Len(q) - 1 : i < j => at(i) < at(j)
  BY <1>1
<1>6. \A k \in 1..Len(q) : k # p => \E i \in 1..Len(q) - 1 : at(i) = k
  <2> SUFFICES ASSUME NEW k \in 1..Len(q), k # p
               PROVE  \E i \in 1..Len(q) - 1 : at(i) = k
    OBVIOUS
  <2>1. CASE k < p
    <3>1. k \in 1..Len(q) - 1 /\ at(k) = k
      BY <2>1, <1>1
    <3> QED
      BY <3>1
  <2>2. CASE k > p
    <3>1. k - 1 \in 1..Len(q) - 1 /\ at(k - 1) = k
      BY <2>2, <1>1
    <3> QED
      BY <3>1
  <2> QED
    BY <2>1, <2>2, <1>1
<1> HIDE DEF at
<1>7. L!IsInjective(s)
  <2>1. \A i, j \in 1..Len(q) - 1 : at(i) = at(j) => i = j
    <3>1. \A i, j \in 1..Len(q) - 1 : at(i) \in Nat /\ (i < j \/ j < i \/ i = j)
      BY <1>1, <1>4
    <3> QED
      BY <3>1, <1>4, <1>5
  <2> QED
    BY <2>1, <1>2, <1>3, <1>4 DEF L!IsInjective
<1>8. L!ToSet(s) = L!ToSet(q) \ {f}
  <2>1. ASSUME NEW i \in DOMAIN s PROVE s[i] \in L!ToSet(q) /\ s[i] # f
    BY <1>1, <1>2, <1>3, <1>4 DEF L!ToSet
  <2>2. ASSUME NEW g \in L!ToSet(q), g # f PROVE g \in L!ToSet(s)
    <3>1. PICK k \in 1..Len(q) : q[k] = g
      BY <1>3 DEF L!ToSet
    <3>2. PICK i \in 1..Len(q) - 1 : at(i) = k
      BY <3>1, <2>2, <1>1, <1>6
    <3> QED
      BY <3>1, <3>2, <1>2, <1>3 DEF L!ToSet
  <2> QED
    BY <2>1, <2>2 DEF L!ToSet
<1>9. ASSUME NEW i \in DOMAIN s, NEW j \in DOMAIN s, i < j
      PROVE  \E k, m \in DOMAIN q : k < m /\ q[k] = s[i] /\ q[m] = s[j]
  BY <1>9, <1>2, <1>3, <1>4, <1>5
<1> QED
  BY <1>2, <1>7, <1>8, <1>9 DEF s

-----------------------------------------------------------------------------
\* A step of one request that leaves the rows alone: what the request has read,
\* and that no other of its kind is open.
LEMMA RequestMoves ==
  ASSUME ListInv, NEW r \in Requests, NEW w \in Editing,
         req2' = [req2 EXCEPT ![r] = w],
         UNCHANGED <<rank, rows, asked>>, crossed' \in BOOLEAN,
         Edits(w), OnRows(w),
         ~crossed' => ~crossed /\ Fits(w),
         ~crossed' /\ w.at \in Early =>
           \/ req2[r].at \in Early /\ L!Kind(req2[r].op) = L!Kind(w.op)
           \/ \A q \in L!Open : L!Kind(req2[q].op) # L!Kind(w.op)
  PROVE  /\ RowsOnce' /\ InRank' /\ req2' \in [Requests -> Editing]
         /\ \A q \in Requests : (Edits(req2[q]) /\ OnRows(req2[q]))'
<1>1. /\ req2 \in [Requests -> Editing] /\ rank' = rank /\ asked' = asked
      /\ req2' \in [Requests -> Editing] /\ req2'[r] = w
      /\ \A q \in Requests : q # r => req2'[q] = req2[q]
  BY DEF ListInv, ListShape
<1>2. RowsOnce'
  BY DEF ListInv, RowsOnce
<1>3. ASSUME NEW q \in Requests PROVE (Edits(req2[q]) /\ OnRows(req2[q]))'
  <2>1. CASE q = r
    BY <1>1, <2>1 DEF OnRows, Edits
  <2>2. CASE q # r
    <3>1. Edits(req2[q]) /\ OnRows(req2[q])
      BY DEF ListInv
    <3> QED
      BY <1>1, <2>2, <3>1 DEF OnRows, Edits
  <2> QED
    BY <2>1, <2>2
<1>4. ASSUME ~crossed' PROVE Ascending' /\ OneEach' /\ \A q \in Requests : Fits(req2[q])'
  <2>1. ~crossed /\ Ascending /\ OneEach /\ \A q \in Requests : Fits(req2[q])
    BY <1>4 DEF ListInv, InRank
  <2>2. Ascending'
    BY <1>1, <2>1 DEF Ascending
  <2>3. ASSUME NEW q \in Requests PROVE Fits(req2[q])'
    <3>1. CASE q = r
      BY <1>1, <1>4, <3>1 DEF Fits
    <3>2. CASE q # r
      BY <1>1, <2>1, <3>2 DEF Fits
    <3> QED
      BY <3>1, <3>2
  <2>4. OneEach'
    <3>1. \A q \in Requests : q # r => (q \in L!Open <=> q \in L!Open')
      BY <1>1 DEF L!Open
    <3>2. ASSUME r \in L!Open', NEW q \in L!Open', q # r,
                 L!Kind(req2'[q].op) = L!Kind(w.op)
          PROVE  FALSE
      <4>1. w.at \in Early /\ q \in L!Open /\ req2'[q] = req2[q]
            /\ L!Kind(w.op) \in {"add", "move"}
        BY <1>1, <3>1, <3>2 DEF L!Open, Early
      <4>2. CASE req2[r].at \in Early /\ L!Kind(req2[r].op) = L!Kind(w.op)
        <5>1. r \in L!Open
          BY <4>1, <4>2 DEF L!Open, Early
        <5> QED
          BY <5>1, <4>1, <4>2, <3>2, <2>1 DEF OneEach
      <4> QED
        BY <4>1, <4>2, <3>2, <1>4
    <3>3. L!Open' \subseteq Requests
      BY DEF L!Open
    <3> QED
      BY <1>1, <2>1, <3>1, <3>2, <3>3 DEF OneEach
  <2> QED
    BY <2>2, <2>3, <2>4
<1>5. InRank'
  BY <1>4 DEF InRank
<1> QED
  BY <1>1, <1>2, <1>3, <1>5

\* A step of one request, alone: nobody else is at anything.
LEMMA ToldStep ==
  ASSUME Told, NEW r \in Requests, req2[r].at # "idle",
         \A q \in Requests : q # r => req2'[q].at = req2[q].at,
         alone' => alone,
         alone /\ alone' =>
           Turn(req2[r])' /\ (Untold(req2[r])' \/ Agreed')
  PROVE  Told'
<1> SUFFICES ASSUME alone'
             PROVE  /\ \A p, q \in Requests :
                         req2'[p].at # "idle" /\ req2'[q].at # "idle" => p = q
                    /\ \A q \in Requests : Turn(req2[q])'
                    /\ (\A q \in Requests : ~Untold(req2[q])') => Agreed'
  BY DEF Told
<1>1. alone /\ \A q \in Requests : q # r => req2[q].at = "idle"
  BY DEF Told
<1>2. \A q \in Requests : q # r => req2'[q].at = "idle"
  BY <1>1
<1>3. \A q \in Requests : q # r => Turn(req2[q])'
  BY <1>2 DEF Turn, Early, Untold
<1> QED
  BY <1>1, <1>2, <1>3

\* What a request finds when it is alone.
LEMMA AloneFinds ==
  ASSUME Told, alone, NEW r \in Requests, req2[r].at # "idle"
  PROVE  Turn(req2[r]) /\ (~Untold(req2[r]) => Agreed)
<1>1. \A q \in Requests : q # r => req2[q].at = "idle"
  BY DEF Told
<1>2. ~Untold(req2[r]) => \A q \in Requests : ~Untold(req2[q])
  BY <1>1 DEF Untold
<1> QED
  BY <1>2 DEF Told

-----------------------------------------------------------------------------
LEMMA LoadKeeps ==
  ASSUME ListInv, NEW r \in Requests, NEW op, NEW on, L!Load(r, op, on),
         \/ op \in Moves \cup {"add", "remove"} /\ on \in Listed
         \/ op = "edit" /\ on \in ListTitles
         \/ op \in {"create", "delete"} /\ on = "none"
  PROVE  ListInv'
<1> DEFINE w == [L!Idle EXCEPT
       !.op = op, !.at = "loaded", !.on = on, !.title = title,
       !.rank = IF on \in Listed THEN rank[on] ELSE 0]
<1>1. /\ req2[r] = L!Idle /\ req2' = [req2 EXCEPT ![r] = w]
      /\ op \in {"up", "down"} => rank[on] > 0
      /\ (IF op = "create" THEN list = "unborn" ELSE list = "live")
      /\ crossed' = (crossed \/ \E q \in L!Open : L!Kind(op) = L!Kind(req2[q].op))
      /\ alone' = (alone /\ \A q \in Requests : req2[q] = L!Idle)
      /\ edits < MaxEdits /\ edits' = edits + 1
      /\ UNCHANGED <<list, title, rank, rows, save, copy, asked>>
  BY DEF L!Load, L!Counted
<1>2. /\ w.op = op /\ w.at = "loaded" /\ w.on = on /\ w.title = title
      /\ w.rank = (IF on \in Listed THEN rank[on] ELSE 0) /\ w.lost = FALSE
      /\ w.other = "none" /\ w.otherRank = 0 /\ w.doc = L!Nothing
  BY DEF L!Idle
<1>3. w \in Editing
  <2> DEFINE k == IF on \in Listed THEN rank[on] ELSE 0
             a == [L!Idle EXCEPT !.op = op, !.at = "loaded", !.on = on]
  <2>1. op \in L!Edits /\ on \in Listed \cup ListTitles \cup {"none"}
    BY DEF Moves, L!Edits
  <2>2. title \in ListTitles /\ k \in Nat
    BY DEF ListInv, ListShape
  <2>3. a \in Editing
    BY <2>1, EditingIs DEF Editing
  <2> HIDE DEF k
  <2>4. w = [a EXCEPT !.title = title, !.rank = k]
    BY DEF k
  <2> HIDE DEF a, w
  <2> QED
    BY <2>2, <2>3, <2>4 DEF Editing
<1> HIDE DEF w
<1>4. Edits(w) /\ OnRows(w) /\ Fits(w)
  <2>1. op \in L!Edits
    BY DEF Moves, L!Edits
  <2>2. op \in Moves => on \in Listed /\ rank[on] > 0
    BY <1>1 DEF Moves
  <2>3. Edits(w)
    BY <1>2, <2>1 DEF Edits, Moves
  <2>4. OnRows(w) /\ Fits(w)
    BY <1>2, <2>2 DEF OnRows, Fits, Adds, Moving
  <2> QED
    BY <2>3, <2>4
<1>5. /\ RowsOnce' /\ InRank' /\ req2' \in [Requests -> Editing]
      /\ \A q \in Requests : (Edits(req2[q]) /\ OnRows(req2[q]))'
  <2>1. crossed' \in BOOLEAN /\ (~crossed' => ~crossed)
    BY <1>1 DEF ListInv, ListShape
  <2> QED
    BY <1>1, <1>2, <1>3, <1>4, <2>1, RequestMoves
<1>6. ListShape'
  <2>1. alone' \in BOOLEAN /\ crossed' \in BOOLEAN /\ edits' \in 0..MaxEdits
    BY <1>1, SiteAssumption DEF ListInv, ListShape
  <2> QED
    BY <1>1, <1>5, <2>1 DEF ListInv, ListShape
<1>7. Told'
  <2> SUFFICES ASSUME alone'
               PROVE  /\ \A p, q \in Requests :
                           req2'[p].at # "idle" /\ req2'[q].at # "idle" => p = q
                      /\ \A q \in Requests : Turn(req2[q])'
                      /\ Agreed'
    BY DEF Told
  <2>1. alone /\ \A q \in Requests : req2[q].at = "idle"
    <3>1. L!Idle.at = "idle"
      BY DEF L!Idle
    <3> QED
      BY <1>1, <3>1
  <2>2. Agreed
    BY <2>1 DEF ListInv, Told, Untold
  <2>3. req2'[r] = w /\ \A q \in Requests : q # r => req2'[q].at = "idle"
    BY <1>1, <2>1 DEF ListInv, ListShape
  <2>4. Turn(req2[r])'
    BY <1>1, <1>2, <2>3 DEF Turn, Untold
  <2>5. \A q \in Requests : q # r => Turn(req2[q])'
    BY <2>3 DEF Turn, Early, Untold
  <2>6. Agreed'
    BY <1>1, <2>2 DEF Agreed, L!SyncItems
  <2> QED
    BY <2>3, <2>4, <2>5, <2>6
<1> QED
  BY <1>5, <1>6, <1>7 DEF ListInv

\* A step that only takes one request further, or ends it.
LEMMA OnlyTurns ==
  ASSUME ListInv, NEW r \in Requests, NEW w \in Editing, req2[r].at # "idle",
         req2' = [req2 EXCEPT ![r] = w],
         UNCHANGED <<list, title, rank, rows, save, copy, asked, crossed, alone, edits>>,
         Edits(w), OnRows(w), ~crossed => Fits(w),
         w.at \in Early => req2[r].at \in Early /\ w.op = req2[r].op,
         alone => Turn(w) /\ (Untold(w) \/ Agreed)
  PROVE  ListInv'
<1>1. /\ RowsOnce' /\ InRank' /\ req2' \in [Requests -> Editing]
      /\ \A q \in Requests : (Edits(req2[q]) /\ OnRows(req2[q]))'
  BY RequestMoves DEF ListInv, ListShape
<1>2. ListShape'
  BY <1>1 DEF ListInv, ListShape
<1>3. req2'[r] = w /\ \A q \in Requests : q # r => req2'[q] = req2[q]
  BY DEF ListInv, ListShape
<1>4. Told'
  <2>1. ASSUME alone PROVE Turn(req2[r])' /\ (Untold(req2[r])' \/ Agreed')
    BY <1>3, <2>1 DEF Turn, Due, Untold, Agreed, L!SyncItems
  <2> QED
    BY <1>3, <2>1, ToldStep DEF ListInv
<1> QED
  BY <1>1, <1>2, <1>4 DEF ListInv

\* A request that ends before it has done anything.
LEMMA EndsEarly ==
  ASSUME ListInv, NEW r \in Requests, req2[r].at \in Early, L!Ends(r),
         UNCHANGED <<list, title, rank, rows, save, copy, asked, crossed, alone, edits>>
  PROVE  ListInv'
<1>1. L!Idle.at = "idle" /\ L!Idle.op = "none"
  BY DEF L!Idle
<1>2. Edits(L!Idle) /\ OnRows(L!Idle) /\ Fits(L!Idle) /\ Turn(L!Idle)
  BY <1>1 DEF Edits, OnRows, Fits, Turn, Adds, Moving, Untold, Early, Moves
<1>3. alone => Agreed
  BY AloneFinds DEF ListInv, Early, Untold
<1> QED
  BY <1>1, <1>2, <1>3, EditingIs, OnlyTurns DEF L!Ends, Early

-----------------------------------------------------------------------------
LEMMA CreateKeeps ==
  ASSUME ListInv, NEW r \in Requests, L!Create(r)
  PROVE  ListInv'
<1> DEFINE w == [req2[r] EXCEPT !.at = "made"]
<1>1. /\ req2[r].op = "create" /\ req2[r].at = "loaded" /\ list = "unborn"
      /\ list' = "live" /\ req2' = [req2 EXCEPT ![r] = w]
      /\ UNCHANGED <<title, rank, rows, save, copy, asked, crossed, alone, edits>>
  BY DEF L!Create, L!At, L!Goes
<1>2. w \in Editing /\ w.at = "made" /\ w.op = "create" /\ w.title = req2[r].title
  BY <1>1 DEF ListInv, ListShape, Editing
<1> HIDE DEF w
<1>3. Edits(w) /\ OnRows(w) /\ Fits(w)
  BY <1>1, <1>2 DEF Edits, OnRows, Fits, Adds, Moving, Early, Moves, L!Edits
<1>4. /\ RowsOnce' /\ InRank' /\ req2' \in [Requests -> Editing]
      /\ \A q \in Requests : (Edits(req2[q]) /\ OnRows(req2[q]))'
  BY <1>1, <1>2, <1>3, RequestMoves DEF ListInv, ListShape, Early
<1>5. ListShape'
  BY <1>1, <1>4 DEF ListInv, ListShape
<1>6. req2'[r] = w /\ \A q \in Requests : q # r => req2'[q] = req2[q]
  BY <1>1 DEF ListInv, ListShape
<1>7. Told'
  <2>1. ASSUME alone PROVE Turn(req2[r])' /\ Untold(req2[r])'
    <3>1. req2[r].title = title /\ Agreed
      BY <1>1, <2>1, AloneFinds DEF ListInv, Turn, Early, Untold
    <3> QED
      BY <1>1, <1>2, <1>6, <3>1 DEF Turn, Due, Untold, Early, Agreed
  <2> QED
    BY <1>1, <1>6, <2>1, ToldStep DEF ListInv
<1> QED
  BY <1>4, <1>5, <1>7 DEF ListInv

LEMMA SoftDeleteKeeps ==
  ASSUME ListInv, NEW r \in Requests, L!SoftDelete(r)
  PROVE  ListInv'
<1> DEFINE w == [req2[r] EXCEPT !.at = "made"]
<1>1. /\ req2[r].op = "delete" /\ req2[r].at = "loaded"
      /\ list' = "gone" /\ req2' = [req2 EXCEPT ![r] = w]
      /\ UNCHANGED <<title, rank, rows, save, copy, asked, crossed, alone, edits>>
  BY DEF L!SoftDelete, L!At, L!Goes
<1>2. w \in Editing /\ w.at = "made" /\ w.op = "delete" /\ w.title = req2[r].title
  BY <1>1 DEF ListInv, ListShape, Editing
<1> HIDE DEF w
<1>3. Edits(w) /\ OnRows(w) /\ Fits(w)
  BY <1>1, <1>2 DEF Edits, OnRows, Fits, Adds, Moving, Early, Moves, L!Edits
<1>4. /\ RowsOnce' /\ InRank' /\ req2' \in [Requests -> Editing]
      /\ \A q \in Requests : (Edits(req2[q]) /\ OnRows(req2[q]))'
  BY <1>1, <1>2, <1>3, RequestMoves DEF ListInv, ListShape, Early
<1>5. ListShape'
  BY <1>1, <1>4 DEF ListInv, ListShape
<1>6. req2'[r] = w /\ \A q \in Requests : q # r => req2'[q] = req2[q]
  BY <1>1 DEF ListInv, ListShape
<1>7. Told'
  <2>1. ASSUME alone PROVE Turn(req2[r])' /\ Untold(req2[r])'
    <3>1. req2[r].title = title /\ list = "live" /\ Agreed
      BY <1>1, <2>1, AloneFinds DEF ListInv, Turn, Early, Untold
    <3>2. copy.state = "live"
      BY <3>1 DEF Agreed, ListInv, ListShape, L!Copies
    <3> QED
      BY <1>1, <1>2, <1>6, <3>1, <3>2 DEF Turn, Due, Untold, Early
  <2> QED
    BY <1>1, <1>6, <2>1, ToldStep DEF ListInv
<1> QED
  BY <1>4, <1>5, <1>7 DEF ListInv

LEMMA EditTextKeeps ==
  ASSUME ListInv, NEW r \in Requests, L!EditText(r)
  PROVE  ListInv'
<1> DEFINE w == [req2[r] EXCEPT !.at = "made", !.title = req2[r].on]
<1>1. /\ req2[r].op = "edit" /\ req2[r].at = "loaded"
      /\ UNCHANGED <<list, rank, rows, save, copy, asked, crossed, alone, edits>>
  BY DEF L!EditText, L!At
<1>2. CASE req2[r].on = req2[r].title
  BY <1>1, <1>2, EndsEarly DEF L!EditText, Early
<1>3. CASE req2[r].on # req2[r].title
  <2>1. title' = req2[r].on /\ req2' = [req2 EXCEPT ![r] = w]
    BY <1>3 DEF L!EditText
  <2>2. req2[r].on \in ListTitles
    BY <1>1 DEF ListInv, Edits
  <2>3. w \in Editing /\ w.at = "made" /\ w.op = "edit" /\ w.title = req2[r].on
        /\ w.on = req2[r].on
    BY <1>1, <2>2 DEF ListInv, ListShape, Editing
  <2> HIDE DEF w
  <2>4. Edits(w) /\ OnRows(w) /\ Fits(w)
    BY <2>2, <2>3 DEF Edits, OnRows, Fits, Adds, Moving, Early, Moves, L!Edits
  <2>5. /\ RowsOnce' /\ InRank' /\ req2' \in [Requests -> Editing]
        /\ \A q \in Requests : (Edits(req2[q]) /\ OnRows(req2[q]))'
    BY <1>1, <2>1, <2>3, <2>4, RequestMoves DEF ListInv, ListShape, Early
  <2>6. ListShape'
    BY <1>1, <2>1, <2>2, <2>5 DEF ListInv, ListShape
  <2>7. req2'[r] = w /\ \A q \in Requests : q # r => req2'[q] = req2[q]
    BY <2>1 DEF ListInv, ListShape
  <2>8. Told'
    <3>1. ASSUME alone PROVE Turn(req2[r])' /\ Untold(req2[r])'
      <4>1. list = "live" /\ Agreed
        BY <1>1, <3>1, AloneFinds DEF ListInv, Turn, Early, Untold
      <4>2. copy.state = "live"
        BY <4>1 DEF Agreed, ListInv, ListShape, L!Copies
      <4> QED
        BY <1>1, <2>1, <2>3, <2>7, <4>1, <4>2 DEF Turn, Due, Untold, Early
    <3> QED
      BY <1>1, <2>7, <3>1, ToldStep DEF ListInv
  <2> QED
    BY <2>5, <2>6, <2>8 DEF ListInv
<1> QED
  BY <1>2, <1>3

LEMMA AppendReadsKeeps ==
  ASSUME ListInv, NEW r \in Requests, L!AppendReads(r)
  PROVE  ListInv'
<1> DEFINE w == [req2[r] EXCEPT !.at = "read", !.rank = L!NextRank]
<1>1. /\ req2[r].op = "add" /\ req2[r].at = "loaded" /\ req2[r].on \in Listed
      /\ UNCHANGED <<list, title, rank, rows, save, copy, asked, crossed, alone, edits>>
  BY DEF L!AppendReads, L!At, ListInv, Edits
<1>2. CASE rank[req2[r].on] > 0
  BY <1>1, <1>2, EndsEarly DEF L!AppendReads, Early
<1>3. CASE ~(rank[req2[r].on] > 0)
  <2>1. req2' = [req2 EXCEPT ![r] = w]
    BY <1>3 DEF L!AppendReads
  <2>2. L!NextRank \in Nat /\ L!NextRank > 0 /\ \A g \in Listed : rank[g] < L!NextRank
    BY <1>1, NextRankIs DEF ListInv
  <2>3. w \in Editing /\ w.at = "read" /\ w.op = "add" /\ w.title = req2[r].title
        /\ w.on = req2[r].on /\ w.rank = L!NextRank
    BY <1>1, <2>2 DEF ListInv, ListShape, Editing
  <2> HIDE DEF w
  <2>4. Edits(w) /\ OnRows(w) /\ Fits(w)
    BY <1>1, <2>2, <2>3 DEF Edits, OnRows, Fits, Adds, Moving, Early, Moves, L!Edits
  <2>5. alone => Turn(w) /\ Agreed
    BY <1>1, <2>3, AloneFinds DEF ListInv, Turn, Early, Untold
  <2> QED
    BY <1>1, <2>1, <2>3, <2>4, <2>5, OnlyTurns DEF Early
<1> QED
  BY <1>2, <1>3

LEMMA NeighboursAre ==
  ASSUME NEW op, NEW k, NEW g \in L!Neighbours(op, k)
  PROVE  /\ g \in Listed /\ rank[g] > 0
         /\ IF op = "up" THEN rank[g] < k ELSE rank[g] > k
  BY DEF L!Neighbours

LEMMA MoveFindsKeeps ==
  ASSUME ListInv, NEW r \in Requests, L!MoveFinds(r)
  PROVE  ListInv'
<1> DEFINE next == L!Neighbours(req2[r].op, req2[r].rank)
           Found(g) == [req2[r] EXCEPT
             !.at = "read", !.other = g, !.otherRank = rank[g]]
<1>1. /\ req2[r].op \in Moves /\ req2[r].at = "loaded"
      /\ UNCHANGED <<list, title, rank, rows, save, copy, asked, crossed, alone, edits>>
  BY Zenon DEF L!MoveFinds, L!At, Moves
<1>2. req2[r].on \in Listed /\ req2[r] \in Editing
  BY <1>1 DEF ListInv, ListShape, Edits
<1>3. L!Ends(r) \/ \E g \in next : req2' = [req2 EXCEPT ![r] = Found(g)]
  BY Zenon DEF L!MoveFinds
<1> HIDE DEF next
<1>4. \A g \in next :
        /\ g \in Listed /\ rank[g] > 0 /\ rank[g] \in Nat
        /\ (IF req2[r].op = "up" THEN rank[g] < req2[r].rank ELSE rank[g] > req2[r].rank)
  BY NeighboursAre DEF ListInv, ListShape, next
<1>5. ASSUME NEW g \in next
      PROVE  /\ Found(g) \in Editing /\ Found(g).at = "read" /\ Found(g).op = req2[r].op
             /\ Found(g).title = req2[r].title /\ Found(g).on = req2[r].on
             /\ Found(g).rank = req2[r].rank /\ Found(g).other = g
             /\ Found(g).otherRank = rank[g] /\ Found(g).lost = req2[r].lost
  BY <1>2, <1>4 DEF Editing
<1> HIDE DEF Found
<1>6. CASE L!Ends(r)
  BY <1>1, <1>6, EndsEarly DEF Early
<1>7. ASSUME NEW g \in next, req2' = [req2 EXCEPT ![r] = Found(g)]
      PROVE  ListInv'
  <2>1. PICK w : w = Found(g)
    OBVIOUS
  <2>2. /\ g \in Listed /\ rank[g] > 0 /\ rank[g] \in Nat
        /\ (IF req2[r].op = "up" THEN rank[g] < req2[r].rank ELSE rank[g] > req2[r].rank)
    BY <1>4
  <2>3. /\ w \in Editing /\ w.at = "read" /\ w.op = req2[r].op /\ w.title = req2[r].title
        /\ w.on = req2[r].on /\ w.rank = req2[r].rank /\ w.other = g
        /\ w.otherRank = rank[g] /\ w.lost = req2[r].lost
    BY <1>5, <2>1
  <2>4. Edits(w)
    BY <1>1, <1>2, <2>2, <2>3 DEF Edits, Moves, L!Edits
  <2>5. OnRows(w) /\ (~crossed => Fits(w))
    <3>1. OnRows(req2[r]) /\ (~crossed => Fits(req2[r]))
      BY DEF ListInv, InRank
    <3>2. ~crossed /\ Moving(w) => rank[w.on] = w.rank /\ w.other # w.on
      BY <1>1, <1>2, <2>2, <2>3, <3>1 DEF Fits, Moving, Early, ListInv, ListShape
    <3>3. ~Adds(w)
      BY <1>1, <2>3 DEF Adds, Moves
    <3> QED
      BY <1>1, <2>2, <2>3, <3>1, <3>2, <3>3 DEF OnRows, Fits, Moving, Early
  <2>6. alone => Turn(w) /\ Agreed
    BY <1>1, <2>3, AloneFinds DEF ListInv, Turn, Early, Untold, Moves
  <2>7. req2' = [req2 EXCEPT ![r] = w]
    BY <1>7, <2>1
  <2> QED
    BY <1>1, <2>3, <2>4, <2>5, <2>6, <2>7, OnlyTurns DEF Early
<1> QED
  BY <1>3, <1>6, <1>7

LEMMA MoveSavesKeeps ==
  ASSUME ListInv, NEW r \in Requests, L!MoveSaves(r)
  PROVE  ListInv'
<1> DEFINE w == [req2[r] EXCEPT !.at = "half"]
<1>1. /\ req2[r].op \in Moves /\ req2[r].at = "read" /\ req2[r].on \in Listed
      /\ req2[r].other \in Listed
      /\ UNCHANGED <<list, title, rank, rows, save, copy, asked, crossed, alone, edits>>
  BY DEF L!MoveSaves, L!At, ListInv, Edits, Moves
<1>2. CASE req2[r].lost
  BY <1>1, <1>2, EndsEarly DEF L!MoveSaves, Early
<1>3. CASE ~req2[r].lost
  <2>1. req2' = [req2 EXCEPT ![r] = w]
    BY <1>3 DEF L!MoveSaves, L!Goes
  <2>2. /\ w \in Editing /\ w.at = "half" /\ w.op = req2[r].op /\ w.title = req2[r].title
        /\ w.on = req2[r].on /\ w.rank = req2[r].rank /\ w.other = req2[r].other
        /\ w.otherRank = req2[r].otherRank /\ w.lost = req2[r].lost
    BY <1>1 DEF ListInv, ListShape, Editing
  <2> HIDE DEF w
  <2>3. Edits(w)
    BY <1>1, <2>2 DEF Edits, Moves, L!Edits
  <2>4. OnRows(w) /\ (~crossed => Fits(w))
    <3>1. OnRows(req2[r]) /\ (~crossed => Fits(req2[r]))
      BY DEF ListInv, InRank
    <3> QED
      BY <1>1, <2>2, <3>1 DEF OnRows, Fits, Adds, Moving, Early, Moves
  <2>5. alone => Turn(w) /\ Agreed
    BY <1>1, <2>2, AloneFinds DEF ListInv, Turn, Early, Untold, Moves
  <2> QED
    BY <1>1, <2>1, <2>2, <2>3, <2>4, <2>5, OnlyTurns DEF Early
<1> QED
  BY <1>2, <1>3

LEMMA DeadlockedKeeps ==
  ASSUME ListInv, NEW r \in Requests, L!Deadlocked(r)
  PROVE  ListInv'
  BY EndsEarly DEF L!Deadlocked, L!At, Early

-----------------------------------------------------------------------------
(* The three edits that change the rows                                      *)

LEMMA AppendKeeps ==
  ASSUME ListInv, NEW r \in Requests, L!Append_(r)
  PROVE  ListInv'
<1> DEFINE w == [req2[r] EXCEPT !.at = "made"]
           f == req2[r].on
<1>1. /\ req2[r].op = "add" /\ req2[r].at = "read" /\ f \in Listed
      /\ UNCHANGED <<list, title, save, copy, crossed, alone, edits>>
  BY DEF L!Append_, L!At, ListInv, Edits
<1>2. CASE rank[f] > 0
  BY <1>1, <1>2, EndsEarly DEF L!Append_, Early
<1>3. CASE ~(rank[f] > 0)
  <2> DEFINE k == req2[r].rank
  <2>1. /\ rank' = [rank EXCEPT ![f] = k] /\ rows' = Append(rows, f)
        /\ asked' = Append(asked, f) /\ req2' = [req2 EXCEPT ![r] = w]
    BY <1>3 DEF L!Append_, L!Goes
  <2>2. /\ w \in Editing /\ w.at = "made" /\ w.op = "add" /\ w.title = req2[r].title
        /\ w.on = f
    BY <1>1 DEF ListInv, ListShape, Editing
  <2>3. k \in Nat /\ k > 0 /\ (~crossed => \A g \in Listed : rank[g] < k)
    BY <1>1 DEF ListInv, ListShape, Editing, OnRows, Adds, InRank, Fits
  <2>4. /\ rank \in [Listed -> Nat] /\ rank[f] = 0
        /\ rows \in Seq(Listed) /\ asked \in Seq(Listed)
        /\ req2 \in [Requests -> Editing]
    BY <1>1, <1>3 DEF ListInv, ListShape
  <2> HIDE DEF w, f, k
  <2>5. /\ req2'[r] = w /\ \A q \in Requests : q # r => req2'[q] = req2[q]
        /\ req2' \in [Requests -> Editing]
        /\ rank' \in [Listed -> Nat] /\ rank'[f] = k
        /\ \A g \in Listed : g # f => rank'[g] = rank[g]
    BY <1>1, <2>1, <2>2, <2>3, <2>4
  <2>6. ASSUME NEW q \in Seq(Listed), L!IsInjective(q), f \notin L!ToSet(q)
        PROVE  /\ Append(q, f) \in Seq(Listed) /\ L!IsInjective(Append(q, f))
               /\ L!ToSet(Append(q, f)) = L!ToSet(q) \cup {f}
    <3>1. /\ Append(q, f) \in Seq(Listed) /\ Len(Append(q, f)) = Len(q) + 1
          /\ Len(q) \in Nat
          /\ (\A i \in 1..Len(q) : Append(q, f)[i] = q[i])
          /\ Append(q, f)[Len(q) + 1] = f
      BY <1>1, AppendProperties, LenProperties
    <3>2. /\ DOMAIN q = 1..Len(q) /\ DOMAIN Append(q, f) = 1..Len(q) + 1
          /\ 1..Len(q) + 1 = (1..Len(q)) \cup {Len(q) + 1}
      BY <3>1
    <3>3. \A i \in 1..Len(q) : q[i] # f
      BY <2>6, <3>2 DEF L!ToSet
    <3>4. L!IsInjective(Append(q, f))
      BY <2>6, <3>1, <3>2, <3>3 DEF L!IsInjective
    <3>5. L!ToSet(Append(q, f)) = L!ToSet(q) \cup {f}
      BY <3>1, <3>2 DEF L!ToSet
    <3> QED
      BY <3>1, <3>4, <3>5
  <2>7. RowsOnce' /\ rows' \in Seq(Listed) /\ asked' \in Seq(Listed)
    <3>1. {g \in Listed : rank'[g] > 0} = {g \in Listed : rank[g] > 0} \cup {f}
      BY <1>1, <2>3, <2>4, <2>5
    <3>2. f \notin {g \in Listed : rank[g] > 0}
      BY <2>4
    <3> QED
      BY <2>1, <2>4, <2>6, <3>1, <3>2 DEF ListInv, RowsOnce
  <2>8. ListShape'
    <3>1. \E n \in Nat : \A g \in Listed : rank'[g] <= n
      <4>1. PICK n \in Nat : \A g \in Listed : rank[g] <= n
        BY DEF ListInv, ListShape
      <4>2. CASE n >= k
        BY <4>1, <4>2, <2>3, <2>5
      <4>3. CASE k >= n
        <5>1. ASSUME NEW g \in Listed PROVE rank'[g] <= k
          <6>1. rank[g] \in Nat /\ rank[g] <= n
            BY <2>4, <4>1
          <6> QED
            BY <6>1, <4>1, <4>3, <2>3, <2>5
        <5> QED
          BY <5>1, <2>3
      <4> QED
        BY <4>2, <4>3, <2>3
    <3> QED
      BY <1>1, <2>5, <2>7, <3>1 DEF ListInv, ListShape
  <2>9. ASSUME NEW q \in Requests PROVE (Edits(req2[q]) /\ OnRows(req2[q]))'
    <3>1. CASE q = r
      BY <2>2, <2>5, <3>1, <1>1 DEF Edits, OnRows, Adds, Moving, Early, Moves, L!Edits
    <3>2. CASE q # r
      <4>1. Edits(req2[q]) /\ OnRows(req2[q]) /\ req2'[q] = req2[q]
        BY <2>5, <3>2 DEF ListInv
      <4>2. Edits(req2[q])'
        BY <4>1 DEF Edits
      <4>3. Moving(req2[q]) => req2[q].on # f /\ (req2[q].at # "loaded" => req2[q].other # f)
        BY <2>4, <4>1 DEF OnRows
      <4>4. Moving(req2[q]) =>
              req2[q].on \in Listed /\ (req2[q].at # "loaded" => req2[q].other \in Listed)
        BY <4>1 DEF Moving, Edits, Early
      <4> QED
        BY <4>1, <4>2, <4>3, <4>4, <2>5 DEF OnRows, Adds, Moving
    <3> QED
      BY <3>1, <3>2
  <2>10. ASSUME ~crossed PROVE Ascending' /\ OneEach' /\ \A q \in Requests : Fits(req2[q])'
    <3>1. Ascending /\ OneEach /\ \A q \in Requests : Fits(req2[q])
      BY <2>10 DEF ListInv, InRank
    <3>2. Ascending'
      <4>1. /\ Len(asked') = Len(asked) + 1 /\ Len(asked) \in Nat
            /\ (\A i \in 1..Len(asked) : asked'[i] = asked[i])
            /\ asked'[Len(asked) + 1] = f /\ DOMAIN asked = 1..Len(asked)
            /\ DOMAIN asked' = 1..Len(asked) + 1
        BY <1>1, <2>1, <2>4, AppendProperties, LenProperties
      <4>2. \A i \in 1..Len(asked) : asked[i] \in Listed /\ asked[i] # f
        <5>1. \A i \in DOMAIN asked : asked[i] \in {g \in Listed : rank[g] > 0}
          BY DEF ListInv, RowsOnce, L!ToSet
        <5> QED
          BY <4>1, <5>1, <2>4
      <4> SUFFICES ASSUME NEW i \in 1..Len(asked) + 1, NEW j \in 1..Len(asked) + 1, i < j
                   PROVE  rank'[asked'[i]] < rank'[asked'[j]]
        BY <4>1 DEF Ascending
      <4>3. i \in 1..Len(asked) /\ asked'[i] = asked[i] /\ rank'[asked[i]] = rank[asked[i]]
        BY <4>1, <4>2, <2>5
      <4>4. CASE j \in 1..Len(asked)
        <5>1. asked'[j] = asked[j] /\ rank'[asked[j]] = rank[asked[j]]
          BY <4>1, <4>2, <4>4, <2>5
        <5> QED
          BY <4>1, <4>3, <4>4, <5>1, <3>1 DEF Ascending
      <4>5. CASE j = Len(asked) + 1
        BY <4>1, <4>2, <4>3, <4>5, <2>3, <2>5, <2>10
      <4> QED
        BY <4>1, <4>4, <4>5
    <3>3. OneEach'
      <4>1. L!Open' \subseteq L!Open /\ \A q \in L!Open' : req2'[q] = req2[q]
        BY <2>2, <2>5 DEF L!Open
      <4> QED
        BY <4>1, <3>1 DEF OneEach
    <3>4. ASSUME NEW q \in Requests PROVE Fits(req2[q])'
      <4>1. CASE q = r
        BY <2>2, <2>5, <4>1 DEF Fits, Adds, Moving, Early, Moves
      <4>2. CASE q # r
        <5>1. Edits(req2[q]) /\ OnRows(req2[q]) /\ req2'[q] = req2[q] /\ Fits(req2[q])
          BY <2>5, <3>1, <4>2 DEF ListInv
        <5>2. ~Adds(req2[q])
          <6>1. ASSUME Adds(req2[q]) PROVE q \in L!Open /\ r \in L!Open
                       /\ L!Kind(req2[q].op) = L!Kind(req2[r].op)
            BY <1>1, <6>1 DEF Adds, L!Open, L!Kind
          <6> QED
            BY <6>1, <3>1, <4>2 DEF OneEach
        <5>3. Moving(req2[q]) =>
                /\ req2[q].on \in Listed /\ req2[q].on # f
                /\ req2[q].at # "loaded" => req2[q].other \in Listed /\ req2[q].other # f
          BY <2>4, <5>1 DEF OnRows, Moving, Edits, Early
        <5> QED
          BY <5>1, <5>2, <5>3, <2>5 DEF Fits, Moving, Adds
      <4> QED
        BY <4>1, <4>2
    <3> QED
      BY <3>2, <3>3, <3>4
  <2>11. Told'
    <3>1. ASSUME alone PROVE Turn(req2[r])' /\ Untold(req2[r])'
      <4>1. req2[r].title = title /\ list = "live" /\ Agreed
        BY <1>1, <3>1, AloneFinds DEF ListInv, Turn, Early, Untold
      <4>2. copy.state = "live"
        BY <4>1 DEF Agreed, ListInv, ListShape, L!Copies
      <4> QED
        BY <1>1, <2>2, <2>5, <4>1, <4>2 DEF Turn, Due, Untold, Early
    <3> QED
      BY <1>1, <2>5, <3>1, ToldStep DEF ListInv
  <2> QED
    BY <1>1, <2>7, <2>8, <2>9, <2>10, <2>11 DEF ListInv, InRank
<1> QED
  BY <1>2, <1>3

LEMMA RemoveKeeps ==
  ASSUME ListInv, NEW r \in Requests, L!RemoveFilm(r)
  PROVE  ListInv'
<1> DEFINE w == [req2[r] EXCEPT !.at = "made"]
           f == req2[r].on
           Hits(q) == req2[q].op \in {"up", "down"} /\ f \in {req2[q].on, req2[q].other}
           After(q) == [req2[q] EXCEPT !.lost = @ \/ Hits(q)]
<1>1. /\ req2[r].op = "remove" /\ req2[r].at = "loaded" /\ f \in Listed
      /\ UNCHANGED <<list, title, save, copy, crossed, alone, edits>>
  BY DEF L!RemoveFilm, L!At, ListInv, Edits
<1>2. CASE rank[f] = 0
  BY <1>1, <1>2, EndsEarly DEF L!RemoveFilm, Early
<1>3. CASE rank[f] # 0
  <2>1. /\ rank' = [rank EXCEPT ![f] = 0] /\ rows' = L!Without(rows, f)
        /\ asked' = L!Without(asked, f)
        /\ req2' = [q \in Requests |-> IF q = r THEN w ELSE After(q)]
    BY <1>3, Zenon DEF L!RemoveFilm
  <2>2. /\ rank \in [Listed -> Nat] /\ rows \in Seq(Listed) /\ asked \in Seq(Listed)
        /\ req2 \in [Requests -> Editing]
    BY DEF ListInv, ListShape
  <2>3. /\ w \in Editing /\ w.at = "made" /\ w.op = "remove" /\ w.title = req2[r].title
        /\ w.on = f
    BY <1>1, <2>2 DEF Editing
  <2>4. ASSUME NEW q \in Requests
        PROVE  /\ After(q) \in Editing /\ After(q).at = req2[q].at
               /\ After(q).op = req2[q].op /\ After(q).on = req2[q].on
               /\ After(q).title = req2[q].title /\ After(q).rank = req2[q].rank
               /\ After(q).other = req2[q].other
               /\ After(q).otherRank = req2[q].otherRank
               /\ After(q).lost = (req2[q].lost \/ Hits(q))
    <3> HIDE DEF Hits
    <3>1. PICK b \in BOOLEAN : b = (req2[q].lost \/ Hits(q))
      OBVIOUS
    <3>2. After(q) = [req2[q] EXCEPT !.lost = b] /\ req2[q] \in Editing
      BY <2>2, <3>1
    <3> HIDE DEF After
    <3> QED
      BY <3>1, <3>2 DEF Editing
  <2>5. ASSUME NEW q \in Requests, req2[q].at = "idle" PROVE After(q) = L!Idle
    <3>1. req2[q] = L!Idle
      BY <2>5 DEF ListInv, Edits
    <3>2. L!Idle.op = "none" /\ L!Idle.lost = FALSE
      BY DEF L!Idle
    <3>3. After(q) = [L!Idle EXCEPT !.lost = FALSE]
      BY <3>1, <3>2
    <3>4. [L!Idle EXCEPT !.lost = FALSE] = L!Idle
      <4>1. \A e \in Editing : e.lost = FALSE => [e EXCEPT !.lost = FALSE] = e
        BY DEF Editing
      <4> QED
        BY <3>2, <4>1, EditingIs
    <3> QED
      BY <3>3, <3>4, Zenon
  <2> HIDE DEF w, f, After
  <2>6. /\ req2'[r] = w /\ \A q \in Requests : q # r => req2'[q] = After(q)
        /\ req2' \in [Requests -> Editing]
        /\ rank' \in [Listed -> Nat] /\ rank'[f] = 0
        /\ \A g \in Listed : g # f => rank'[g] = rank[g]
    BY <1>1, <2>1, <2>2, <2>3, <2>4
  <2>7. ASSUME NEW g \in Listed
        PROVE  rank'[g] \in Nat /\ rank[g] \in Nat /\ rank'[g] <= rank[g]
    <3>1. rank[g] \in Nat /\ (rank'[g] = 0 \/ rank'[g] = rank[g])
      BY <2>2, <2>6
    <3> QED
      BY <3>1
  <2>8. f \in L!ToSet(rows) /\ f \in L!ToSet(asked)
    BY <1>1, <1>3, <2>2 DEF ListInv, RowsOnce
  <2>9. RowsOnce' /\ rows' \in Seq(Listed) /\ asked' \in Seq(Listed)
    <3>1. {g \in Listed : rank'[g] > 0} = {g \in Listed : rank[g] > 0} \ {f}
      BY <2>6
    <3> QED
      BY <2>1, <2>2, <2>8, <3>1, WithoutKeeps DEF ListInv, RowsOnce
  <2>10. ListShape'
    <3>1. \E n \in Nat : \A g \in Listed : rank'[g] <= n
      <4>1. PICK n \in Nat : \A g \in Listed : rank[g] <= n
        BY DEF ListInv, ListShape
      <4>2. \A g \in Listed : rank'[g] <= n
        BY <2>7, <4>1
      <4> QED
        BY <4>2
    <3> QED
      BY <1>1, <2>6, <2>9, <3>1 DEF ListInv, ListShape
  <2>11. ASSUME NEW q \in Requests, q # r
         PROVE  /\ Edits(req2[q]) /\ OnRows(req2[q])
                /\ Moving(req2[q])' =>
                     /\ Moving(req2[q]) /\ req2[q].on \in Listed /\ req2[q].on # f
                     /\ req2[q].at # "loaded" => req2[q].other \in Listed /\ req2[q].other # f
    <3>1. Edits(req2[q]) /\ OnRows(req2[q]) /\ req2'[q] = After(q)
      BY <2>6, <2>11 DEF ListInv
    <3> QED
      BY <2>4, <3>1 DEF Moving, Moves, Edits, Early
  <2>12. ASSUME NEW q \in Requests PROVE (Edits(req2[q]) /\ OnRows(req2[q]))'
    <3>1. CASE q = r
      BY <1>1, <2>3, <2>6, <3>1 DEF Edits, OnRows, Adds, Moving, Early, Moves, L!Edits
    <3>2. CASE q # r
      <4>1. req2'[q] = After(q)
        BY <2>6, <3>2
      <4>2. Edits(req2[q])'
        <5>1. PICK a : a = After(q)
          OBVIOUS
        <5>2. Edits(req2[q]) /\ (a.at = "idle" => a = L!Idle)
          BY <2>4, <2>5, <2>11, <3>2, <5>1
        <5> QED
          BY <2>4, <4>1, <5>1, <5>2 DEF Edits
      <4>3. OnRows(req2[q])'
        BY <2>4, <2>6, <2>11, <3>2, <4>1 DEF OnRows, Adds, Moving
      <4> QED
        BY <4>2, <4>3
    <3> QED
      BY <3>1, <3>2
  <2>13. ASSUME ~crossed PROVE Ascending' /\ OneEach' /\ \A q \in Requests : Fits(req2[q])'
    <3>1. Ascending /\ OneEach /\ \A q \in Requests : Fits(req2[q])
      BY <2>13 DEF ListInv, InRank
    <3>2. Ascending'
      <4>1. /\ L!ToSet(asked') = L!ToSet(asked) \ {f} /\ L!ToSet(asked) \subseteq Listed
            /\ \A i, j \in DOMAIN asked' : i < j =>
                 \E k, m \in DOMAIN asked :
                   k < m /\ asked[k] = asked'[i] /\ asked[m] = asked'[j]
        BY <2>1, <2>2, <2>8, WithoutKeeps DEF ListInv, RowsOnce
      <4>2. \A i \in DOMAIN asked' : rank'[asked'[i]] = rank[asked'[i]]
        <5>1. \A i \in DOMAIN asked' : asked'[i] \in L!ToSet(asked')
          BY DEF L!ToSet
        <5> QED
          BY <2>6, <4>1, <5>1
      <4>3. ASSUME NEW i \in DOMAIN asked', NEW j \in DOMAIN asked', i < j
            PROVE  rank'[asked'[i]] < rank'[asked'[j]]
        <5>1. PICK k \in DOMAIN asked, m \in DOMAIN asked :
                k < m /\ asked[k] = asked'[i] /\ asked[m] = asked'[j]
          BY <4>1, <4>3
        <5> QED
          BY <3>1, <4>2, <5>1 DEF Ascending
      <4> QED
        BY <4>3 DEF Ascending
    <3>3. OneEach'
      <4>1. L!Open' \subseteq L!Open /\ \A q \in L!Open' : req2'[q].op = req2[q].op
        BY <2>3, <2>4, <2>6 DEF L!Open
      <4> QED
        BY <3>1, <4>1 DEF OneEach
    <3>4. ASSUME NEW q \in Requests PROVE Fits(req2[q])'
      <4>1. CASE q = r
        BY <2>3, <2>6, <4>1 DEF Fits, Adds, Moving, Early, Moves
      <4>2. CASE q # r
        <5>1. req2'[q] = After(q) /\ Fits(req2[q]) /\ req2[q].rank \in Nat
          BY <2>2, <2>6, <3>1, <4>2, EditingIs
        <5>2. Adds(req2[q])' => \A g \in Listed : rank'[g] < After(q).rank
          BY <2>4, <2>7, <5>1 DEF Fits, Adds
        <5>3. Moving(req2[q])' =>
                /\ rank'[After(q).on] = After(q).rank
                /\ After(q).at # "loaded" =>
                     /\ After(q).other # After(q).on
                     /\ rank'[After(q).other] = After(q).otherRank
          BY <2>4, <2>6, <2>11, <4>2, <5>1 DEF Fits
        <5> QED
          BY <5>1, <5>2, <5>3 DEF Fits
      <4> QED
        BY <4>1, <4>2
    <3> QED
      BY <3>2, <3>3, <3>4
  <2>14. Told'
    <3>1. ASSUME alone PROVE Turn(req2[r])' /\ Untold(req2[r])'
      <4>1. req2[r].title = title /\ list = "live" /\ Agreed
        BY <1>1, <3>1, AloneFinds DEF ListInv, Turn, Early, Untold
      <4>2. copy.state = "live"
        BY <4>1 DEF Agreed, ListInv, ListShape, L!Copies
      <4> QED
        BY <1>1, <2>3, <2>6, <4>1, <4>2 DEF Turn, Due, Untold, Early
    <3>2. \A q \in Requests : q # r => req2'[q].at = req2[q].at
      BY <2>4, <2>6
    <3> QED
      BY <1>1, <3>1, <3>2, ToldStep DEF ListInv
  <2> QED
    BY <1>1, <2>6, <2>9, <2>10, <2>12, <2>13, <2>14 DEF ListInv, InRank
<1> QED
  BY <1>2, <1>3

LEMMA MoveCommitsKeeps ==
  ASSUME ListInv, NEW r \in Requests, L!MoveCommits(r)
  PROVE  ListInv'
<1> DEFINE w == [req2[r] EXCEPT !.at = "made"]
           f == req2[r].on
           g == req2[r].other
           a == req2[r].rank
           b == req2[r].otherRank
<1>1. /\ req2[r].op \in Moves /\ req2[r].at = "half"
      /\ UNCHANGED <<list, title, rows, save, copy, crossed, alone, edits>>
  BY DEF L!MoveCommits, L!At, Moves
<1>2. CASE req2[r].lost
  BY <1>1, <1>2, EndsEarly DEF L!MoveCommits, Early
<1>3. CASE ~req2[r].lost
  <2>1. /\ rank' = [rank EXCEPT ![f] = b, ![g] = a]
        /\ asked' = [asked EXCEPT ![L!Place(asked, f)] = g, ![L!Place(asked, g)] = f]
        /\ req2' = [req2 EXCEPT ![r] = w]
    BY <1>3 DEF L!MoveCommits, L!Goes
  <2>2. /\ rank \in [Listed -> Nat] /\ asked \in Seq(Listed)
        /\ req2 \in [Requests -> Editing] /\ f \in Listed /\ g \in Listed
    BY <1>1 DEF ListInv, ListShape, Edits
  <2>3. /\ w \in Editing /\ w.at = "made" /\ w.op = req2[r].op /\ w.title = req2[r].title
        /\ w.on = f /\ w.other = g
    BY <1>1, <2>2 DEF Editing
  <2>4. /\ a \in Nat /\ b \in Nat /\ a > 0 /\ b > 0 /\ rank[f] > 0 /\ rank[g] > 0
        /\ ~crossed => rank[f] = a /\ rank[g] = b /\ f # g
    <3>1. Moving(req2[r]) /\ a \in Nat /\ b \in Nat
      BY <1>1, <1>3, <2>2, EditingIs DEF Moving, Early
    <3>2. OnRows(req2[r]) /\ (~crossed => Fits(req2[r]))
      BY DEF ListInv, InRank
    <3> QED
      BY <1>1, <3>1, <3>2 DEF OnRows, Fits
  <2> HIDE DEF w, f, g, a, b
  <2>5. /\ req2'[r] = w /\ \A q \in Requests : q # r => req2'[q] = req2[q]
        /\ req2' \in [Requests -> Editing]
    BY <2>1, <2>2, <2>3
  <2>6. /\ rank' \in [Listed -> Nat] /\ rank'[g] = a /\ (f # g => rank'[f] = b)
        /\ \A h \in Listed : h # f /\ h # g => rank'[h] = rank[h]
    BY <2>1, <2>2, <2>4
  <2>7. ASSUME NEW h \in Listed PROVE rank'[h] > 0 <=> rank[h] > 0
    <3>1. CASE h = f \/ h = g
      BY <2>4, <2>6, <3>1
    <3>2. CASE h # f /\ h # g
      BY <2>6, <3>2
    <3> QED
      BY <3>1, <3>2
  <2>8. PICK i, j : i = L!Place(asked, f) /\ j = L!Place(asked, g)
    OBVIOUS
  <2>9. /\ i \in 1..Len(asked) /\ asked[i] = f /\ j \in 1..Len(asked) /\ asked[j] = g
        /\ L!IsInjective(asked)
    <3>1. L!IsInjective(asked) /\ f \in L!ToSet(asked) /\ g \in L!ToSet(asked)
      BY <2>2, <2>4 DEF ListInv, RowsOnce
    <3> QED
      BY <2>2, <2>8, <3>1, PlaceIs
  <2>10. /\ asked' \in Seq(Listed) /\ DOMAIN asked' = DOMAIN asked
         /\ DOMAIN asked = 1..Len(asked)
         /\ \A n \in DOMAIN asked :
              asked'[n] = IF n = j THEN f ELSE IF n = i THEN g ELSE asked[n]
    <3>1. asked \in [1..Len(asked) -> Listed] /\ Len(asked) \in Nat
      BY <2>2, LenProperties
    <3>2. asked' = [asked EXCEPT ![i] = g, ![j] = f]
      BY <2>1, <2>8
    <3>3. asked' \in [1..Len(asked) -> Listed]
      BY <2>2, <3>1, <3>2
    <3>4. asked' \in Seq(Listed)
      BY <3>1, <3>3, SeqDef
    <3> QED
      BY <2>9, <3>1, <3>2, <3>3, <3>4
  <2>11. L!IsInjective(asked') /\ L!ToSet(asked') = L!ToSet(asked)
    <3>1. \A m, n \in DOMAIN asked : asked[m] = asked[n] => m = n
      BY <2>9 DEF L!IsInjective
    <3>2. L!IsInjective(asked')
      BY <2>9, <2>10, <3>1 DEF L!IsInjective
    <3>3. \A h : h \in L!ToSet(asked) <=> h \in L!ToSet(asked')
      <4>1. ASSUME NEW n \in DOMAIN asked PROVE asked[n] \in L!ToSet(asked')
        BY <2>9, <2>10 DEF L!ToSet
      <4>2. ASSUME NEW n \in DOMAIN asked' PROVE asked'[n] \in L!ToSet(asked)
        BY <2>9, <2>10 DEF L!ToSet
      <4> QED
        BY <4>1, <4>2 DEF L!ToSet
    <3> QED
      BY <3>2, <3>3
  <2>12. RowsOnce'
    <3>1. {h \in Listed : rank'[h] > 0} = {h \in Listed : rank[h] > 0}
      BY <2>7
    <3> QED
      BY <1>1, <2>11, <3>1 DEF ListInv, RowsOnce
  <2>13. ListShape'
    <3>1. PICK n \in Nat : \A h \in Listed : rank[h] <= n
      BY DEF ListInv, ListShape
    <3>2. n + a + b \in Nat
      BY <2>4
    <3>3. ASSUME NEW h \in Listed PROVE rank'[h] <= n + a + b
      <4>1. rank[h] \in Nat /\ rank[h] <= n
        BY <2>2, <3>1
      <4> QED
        BY <2>4, <2>6, <4>1
    <3> QED
      BY <1>1, <2>5, <2>6, <2>10, <3>2, <3>3 DEF ListInv, ListShape
  <2>14. ASSUME NEW q \in Requests PROVE (Edits(req2[q]) /\ OnRows(req2[q]))'
    <3>1. CASE q = r
      BY <1>1, <2>2, <2>3, <2>5, <3>1 DEF Edits, OnRows, Adds, Moving, Early, Moves, L!Edits
    <3>2. CASE q # r
      <4>1. Edits(req2[q]) /\ OnRows(req2[q]) /\ req2'[q] = req2[q]
        BY <2>5, <3>2 DEF ListInv
      <4>2. Edits(req2[q])'
        BY <4>1 DEF Edits
      <4>3. Moving(req2[q]) =>
              req2[q].on \in Listed /\ (req2[q].at # "loaded" => req2[q].other \in Listed)
        BY <4>1 DEF Moving, Edits, Early
      <4> QED
        BY <2>7, <4>1, <4>2, <4>3 DEF OnRows, Adds, Moving
    <3> QED
      BY <3>1, <3>2
  <2>15. ASSUME ~crossed PROVE Ascending' /\ OneEach' /\ \A q \in Requests : Fits(req2[q])'
    <3>1. Ascending /\ OneEach /\ \A q \in Requests : Fits(req2[q])
      BY <2>15 DEF ListInv, InRank
    <3>2. rank'[f] = rank[g] /\ rank'[g] = rank[f]
      BY <2>4, <2>6, <2>15
    <3>3. Ascending'
      <4>1. \A n \in DOMAIN asked : rank'[asked'[n]] = rank[asked[n]]
        <5> SUFFICES ASSUME NEW n \in DOMAIN asked
                     PROVE  rank'[asked'[n]] = rank[asked[n]]
          OBVIOUS
        <5>1. asked[n] \in Listed /\ (asked[n] = f => n = i) /\ (asked[n] = g => n = j)
          BY <2>2, <2>9, <2>10, ElementOfSeq DEF L!IsInjective
        <5> QED
          BY <2>6, <2>9, <2>10, <3>2, <5>1
      <4> QED
        BY <2>10, <3>1, <4>1 DEF Ascending
    <3>4. OneEach'
      <4>1. L!Open' \subseteq L!Open /\ \A q \in L!Open' : req2'[q] = req2[q]
        BY <2>3, <2>5 DEF L!Open
      <4> QED
        BY <4>1, <3>1 DEF OneEach
    <3>5. ASSUME NEW q \in Requests PROVE Fits(req2[q])'
      <4>1. CASE q = r
        BY <1>1, <2>3, <2>5, <4>1 DEF Fits, Adds, Moving, Early, Moves
      <4>2. CASE q # r
        <5>1. req2'[q] = req2[q] /\ Fits(req2[q])
          BY <2>5, <3>1, <4>2
        <5>2. ~Moving(req2[q])
          <6>1. ASSUME Moving(req2[q])
                PROVE  q \in L!Open /\ r \in L!Open /\ L!Kind(req2[q].op) = L!Kind(req2[r].op)
            BY <1>1, <6>1 DEF Moving, Moves, Early, L!Open, L!Kind
          <6> QED
            BY <6>1, <3>1, <4>2 DEF OneEach
        <5>3. Adds(req2[q]) => \A h \in Listed : rank'[h] < req2[q].rank
          <6> SUFFICES ASSUME Adds(req2[q]), NEW h \in Listed
                       PROVE  rank'[h] < req2[q].rank
            OBVIOUS
          <6>1. \A k \in Listed : rank[k] < req2[q].rank
            BY <5>1 DEF Fits
          <6>2. rank'[h] \in {rank[h], rank[f], rank[g]}
            BY <2>6, <3>2
          <6> QED
            BY <2>2, <6>1, <6>2
        <5> QED
          BY <5>1, <5>2, <5>3 DEF Fits, Moving, Adds
      <4> QED
        BY <4>1, <4>2
    <3> QED
      BY <3>3, <3>4, <3>5
  <2>16. Told'
    <3>1. ASSUME alone PROVE Turn(req2[r])' /\ Untold(req2[r])'
      <4>1. req2[r].title = title /\ list = "live" /\ Agreed
        BY <1>1, <3>1, AloneFinds DEF ListInv, Turn, Early, Untold, Moves
      <4>2. copy.state = "live"
        BY <4>1 DEF Agreed, ListInv, ListShape, L!Copies
      <4> QED
        BY <1>1, <2>3, <2>5, <4>1, <4>2 DEF Turn, Due, Untold, Early, Moves
    <3> QED
      BY <1>1, <2>5, <3>1, ToldStep DEF ListInv
  <2> QED
    BY <1>1, <2>5, <2>12, <2>13, <2>14, <2>15, <2>16 DEF ListInv, InRank
<1> QED
  BY <1>2, <1>3

-----------------------------------------------------------------------------
(* The copy and the member who saves the list                                *)

LEMMA ComposeKeeps ==
  ASSUME ListInv, NEW r \in Requests, L!Compose(r)
  PROVE  ListInv'
<1> DEFINE doc == [state |-> IF req2[r].op = "delete" THEN "gone" ELSE "live",
                   title |-> req2[r].title, rank |-> rank]
           w == [req2[r] EXCEPT !.at = "composed", !.doc = doc]
<1>1. /\ req2[r].at = "made" /\ req2[r] \in Editing /\ req2' = [req2 EXCEPT ![r] = w]
      /\ UNCHANGED <<list, title, rank, rows, save, copy, asked, crossed, alone, edits>>
  BY DEF L!Compose, ListInv, ListShape
<1>2. doc \in L!Copies
  BY <1>1 DEF ListInv, ListShape, L!Copies, Editing
<1> HIDE DEF doc
<1>3. /\ w \in Editing /\ w.at = "composed" /\ w.op = req2[r].op /\ w.on = req2[r].on
      /\ w.title = req2[r].title /\ w.doc = doc
  BY <1>1, <1>2 DEF Editing
<1> HIDE DEF w
<1>4. Edits(w) /\ OnRows(w) /\ Fits(w)
  <2>1. Edits(req2[r])
    BY DEF ListInv
  <2> QED
    BY <1>1, <1>3, <2>1 DEF Edits, OnRows, Fits, Adds, Moving, Early
<1>5. alone => Turn(w) /\ Untold(w)
  <2>1. alone => Turn(req2[r])
    BY DEF ListInv, Told
  <2> QED
    BY <1>1, <1>3, <2>1 DEF Turn, Due, Untold, Early, doc
<1> QED
  BY <1>1, <1>3, <1>4, <1>5, OnlyTurns DEF Early

\* A request that has ended asks nothing of the rows.
LEMMA EndedIs ==
  /\ L!Idle \in Editing /\ L!Idle.at = "idle" /\ L!Idle.op = "none"
  /\ Edits(L!Idle) /\ OnRows(L!Idle) /\ Fits(L!Idle) /\ Turn(L!Idle)
<1>1. L!Idle.at = "idle" /\ L!Idle.op = "none"
  BY DEF L!Idle
<1> QED
  BY <1>1, EditingIs DEF Edits, OnRows, Fits, Turn, Adds, Moving, Untold, Early, Moves

LEMMA DeliverKeeps ==
  ASSUME ListInv, NEW r \in Requests, L!Deliver(r)
  PROVE  ListInv'
<1> DEFINE w == req2[r]
           fresh == [w.doc EXCEPT !.rank = L!SyncItems(w.doc.rank)]
           dead == [copy EXCEPT !.state = IF copy.state = "none" THEN copy.state ELSE "gone"]
<1>1. /\ w.at = "composed" /\ req2' = [req2 EXCEPT ![r] = L!Idle]
      /\ UNCHANGED <<list, title, rank, rows, save, asked, crossed, alone, edits>>
      /\ w \in Editing /\ Edits(w) /\ copy \in L!Copies
  BY DEF L!Deliver, L!Ends, ListInv, ListShape
<1>2. /\ copy.state = "gone" => copy' = copy
      /\ copy.state # "gone" /\ w.doc.state = "gone" => copy' = dead
      /\ copy.state # "gone" /\ w.doc.state # "gone" => copy' = fresh
  <2> DEFINE other == [w.doc EXCEPT !.rank = L!SyncItems(@)]
             late == [copy EXCEPT !.state = IF @ = "none" THEN @ ELSE "gone"]
  <2>1. copy' = CASE copy.state = "gone" -> copy [] w.doc.state = "gone" -> late
                  [] OTHER -> other
    BY Zenon DEF L!Deliver
  <2>2. late = dead /\ other = fresh
    OBVIOUS
  <2>3. copy.state = "gone" => dead = copy
    BY <1>1 DEF L!Copies
  <2> HIDE DEF late, other, dead, fresh, w
  <2> QED
    BY <2>1, <2>2, <2>3
<1>3. /\ fresh \in L!Copies /\ fresh.state = w.doc.state /\ fresh.title = w.doc.title
      /\ fresh.rank = L!SyncItems(w.doc.rank)
  <2>1. w.doc \in L!Copies
    BY <1>1 DEF Editing
  <2>2. L!SyncItems(w.doc.rank) \in [Listed -> Nat]
    BY <2>1 DEF L!SyncItems, L!Copies
  <2> QED
    BY <2>1, <2>2 DEF L!Copies
<1>4. dead \in L!Copies /\ (copy.state # "none" => dead.state = "gone")
  BY <1>1 DEF L!Copies
<1> HIDE DEF w, fresh, dead
<1>5. copy' \in L!Copies
  BY <1>1, <1>2, <1>3, <1>4
<1>6. /\ RowsOnce' /\ InRank' /\ req2' \in [Requests -> Editing]
      /\ \A q \in Requests : (Edits(req2[q]) /\ OnRows(req2[q]))'
  BY <1>1, EndedIs, RequestMoves DEF ListInv, ListShape, Early
<1>7. ListShape'
  BY <1>1, <1>5, <1>6 DEF ListInv, ListShape
<1>8. req2'[r] = L!Idle /\ \A q \in Requests : q # r => req2'[q] = req2[q]
  BY <1>1 DEF ListInv, ListShape
<1>9. Told'
  <2>1. ASSUME alone PROVE Turn(req2[r])' /\ Agreed'
    <3>1. Turn(req2[r])'
      BY <1>1, <1>8, EndedIs DEF Turn, Untold, Early
    <3>2. Turn(w)
      BY <2>1 DEF ListInv, Told, w
    <3>3. /\ Due(w) /\ w.title = title /\ w.op \in L!Edits
          /\ w.doc.state = (IF w.op = "delete" THEN "gone" ELSE "live")
          /\ w.doc.title = w.title /\ w.doc.rank = rank
      BY <1>1, <3>2 DEF Turn, Untold, Due, Edits
    <3>4. CASE w.op = "delete"
      <4>1. list = "gone" /\ copy.state = "live" /\ copy' = dead
        BY <1>2, <3>3, <3>4 DEF Due
      <4> QED
        BY <1>1, <1>4, <3>1, <4>1 DEF Agreed
    <3>5. CASE w.op # "delete"
      <4>1. list = "live" /\ copy.state # "gone" /\ copy' = fresh
        BY <1>2, <3>3, <3>5 DEF Due
      <4>2. L!SyncItems(rank)' = L!SyncItems(rank)
        BY <1>1 DEF L!SyncItems
      <4> QED
        BY <1>1, <1>3, <3>1, <3>3, <3>5, <4>1, <4>2 DEF Agreed
    <3> QED
      BY <3>4, <3>5
  <2> QED
    BY <1>1, <1>8, <2>1, ToldStep DEF ListInv, w
<1> QED
  BY <1>6, <1>7, <1>9 DEF ListInv

LEMMA LoseKeeps ==
  ASSUME ListInv, NEW r \in Requests, L!Lose(r)
  PROVE  ListInv'
<1>1. /\ req2' = [req2 EXCEPT ![r] = L!Idle] /\ alone' = FALSE
      /\ UNCHANGED <<list, title, rank, rows, save, copy, asked, crossed, edits>>
  BY DEF L!Lose, L!Ends
<1>2. /\ RowsOnce' /\ InRank' /\ req2' \in [Requests -> Editing]
      /\ \A q \in Requests : (Edits(req2[q]) /\ OnRows(req2[q]))'
  BY <1>1, EndedIs, RequestMoves DEF ListInv, ListShape, Early
<1>3. ListShape' /\ Told'
  BY <1>1, <1>2 DEF ListInv, ListShape, Told
<1> QED
  BY <1>2, <1>3 DEF ListInv

\* What the invariant says of the list depends on no more than this.
LEMMA SameList ==
  ASSUME ListInv,
         UNCHANGED <<list, title, rank, rows, copy, asked, req2, crossed, alone>>,
         save' \in {"none", "saved", "dismissed"},
         save' = "dismissed" => list = "gone",
         edits' \in 0..MaxEdits
  PROVE  ListInv'
<1>1. ListShape' /\ RowsOnce'
  BY DEF ListInv, ListShape, RowsOnce
<1>2. InRank'
  BY DEF ListInv, InRank, Ascending, OneEach, L!Open, Fits
<1>3. Told'
  BY DEF ListInv, Told, Turn, Due, Agreed, L!SyncItems
<1>4. ASSUME NEW r \in Requests PROVE (Edits(req2[r]) /\ OnRows(req2[r]))'
  <2>1. Edits(req2[r]) /\ OnRows(req2[r])
    BY DEF ListInv
  <2> QED
    BY <2>1 DEF Edits, OnRows
<1> QED
  BY <1>1, <1>2, <1>3, <1>4 DEF ListInv

-----------------------------------------------------------------------------
LEMMA ListInit ==
  ASSUME L!Init PROVE ListInv
<1>1. /\ list = "unborn" /\ title \in ListTitles /\ rank = [f \in Listed |-> 0]
      /\ rows = <<>> /\ save = "none" /\ copy = L!Nothing /\ asked = <<>>
      /\ req2 = [r \in Requests |-> L!Idle]
      /\ crossed = FALSE /\ alone = TRUE /\ edits = 0
  BY DEF L!Init
<1>2. \A r \in Requests : req2[r] = L!Idle
  BY <1>1
<1>3. L!Nothing \in L!Copies /\ L!Nothing.state = "none"
  BY DEF L!Nothing, L!Copies
<1>4. ListShape
  <2>1. \A f \in Listed : rank[f] <= 0
    BY <1>1
  <2>2. 0 \in 0..MaxEdits
    BY SiteAssumption
  <2>3. \E n \in Nat : \A f \in Listed : rank[f] <= n
    BY <2>1
  <2>4. rank \in [Listed -> Nat] /\ req2 \in [Requests -> Editing]
    BY <1>1, EndedIs
  <2>5. rows \in Seq(Listed) /\ asked \in Seq(Listed)
    BY <1>1
  <2> QED
    BY <1>1, <1>3, <2>2, <2>3, <2>4, <2>5 DEF ListShape
<1>5. RowsOnce
  BY <1>1 DEF RowsOnce, L!IsInjective, L!ToSet
<1>6. InRank
  <2>1. L!Open = {}
    BY <1>2, EndedIs DEF L!Open
  <2>2. Ascending /\ OneEach
    BY <1>1, <2>1 DEF Ascending, OneEach
  <2> QED
    BY <1>2, <2>2, EndedIs DEF InRank
<1>7. Told
  <2>1. Agreed
    BY <1>1, <1>3 DEF Agreed
  <2> QED
    BY <1>2, <2>1, EndedIs DEF Told
<1> QED
  BY <1>2, <1>4, <1>5, <1>6, <1>7, EndedIs DEF ListInv

LEMMA ListStep ==
  ASSUME ListInv, L!Next PROVE ListInv'
<1>1. ASSUME NEW r \in Requests, NEW op \in {"add", "remove", "up", "down"},
             NEW f \in Listed, L!Load(r, op, f)
      PROVE  ListInv'
  BY <1>1, LoadKeeps DEF Moves
<1>2. ASSUME NEW r \in Requests, NEW t \in ListTitles, L!Load(r, "edit", t)
      PROVE  ListInv'
  BY <1>2, LoadKeeps
<1>3. ASSUME NEW r \in Requests, NEW op \in {"create", "delete"}, L!Load(r, op, "none")
      PROVE  ListInv'
  BY <1>3, LoadKeeps
<1>4. ASSUME NEW r \in Requests,
             \/ L!Create(r) \/ L!AppendReads(r) \/ L!Append_(r) \/ L!RemoveFilm(r)
             \/ L!MoveFinds(r) \/ L!MoveSaves(r) \/ L!MoveCommits(r)
             \/ L!Deadlocked(r) \/ L!EditText(r) \/ L!SoftDelete(r)
      PROVE  ListInv'
  BY <1>4, CreateKeeps, AppendReadsKeeps, AppendKeeps, RemoveKeeps, MoveFindsKeeps,
     MoveSavesKeeps, MoveCommitsKeeps, DeadlockedKeeps, EditTextKeeps, SoftDeleteKeeps
<1>5. ASSUME NEW r \in Requests, L!Compose(r) \/ L!Deliver(r) \/ L!Lose(r)
      PROVE  ListInv'
  BY <1>5, ComposeKeeps, DeliverKeeps, LoseKeeps
<1>6. ASSUME L!SaveList PROVE ListInv'
  <2>1. edits' \in 0..MaxEdits
    BY <1>6, SiteAssumption DEF L!SaveList, L!Counted, ListInv, ListShape
  <2> QED
    BY <1>6, <2>1, SameList DEF L!SaveList
<1>7. ASSUME L!UnsaveList \/ L!DismissNotice PROVE ListInv'
  <2>1. edits \in 0..MaxEdits
    BY DEF ListInv, ListShape
  <2> QED
    BY <1>7, <2>1, SameList DEF L!UnsaveList, L!DismissNotice
<1> QED
  BY <1>1, <1>2, <1>3, <1>4, <1>5, <1>6, <1>7 DEF L!Next

LEMMA ListsKeep == SiteSpec => [](area = "lists" => ListInv)
<1> DEFINE Good == area = "lists" => ListInv
<1>1. SiteInit => Good
  BY ListInit DEF SiteInit
<1>2. Good /\ [SiteNext]_<<vars, lists, accounts, merges, files, area>> => Good'
  <2>1. ASSUME Good, area = "lists", L!Next, UNCHANGED area PROVE Good'
    BY <2>1, ListStep
  <2>2. ASSUME Good, UNCHANGED <<lists, area>> PROVE Good'
    <3>1. ASSUME ListInv PROVE ListInv'
      BY <2>2, <3>1, SameList DEF lists, ListInv, ListShape
    <3> QED
      BY <2>2, <3>1
  <2>3. ASSUME Good, SiteNext PROVE Good'
    BY <2>1, <2>2, <2>3 DEF SiteNext
  <2> QED
    BY <2>2, <2>3
<1> QED
  BY <1>1, <1>2, PTL DEF SiteSpec

\* The ranks of a list are the order its edits asked for, whatever came between
\* an edit's reads and its writes, unless two additions or two moves overlapped;
\* and the other instance has the list as it stands when its edits came one at
\* a time and nothing sent was lost.
THEOREM OrdersAreKept == SiteSpec => []OrderKept
<1>1. ASSUME ListInv PROVE L!ListAsAsked
  <2>1. ASSUME ~crossed
        PROVE  /\ L!ToSet(asked) = L!ToSet(rows)
               /\ \A i, j \in DOMAIN asked : i < j => rank[asked[i]] < rank[asked[j]]
    BY <1>1, <2>1 DEF ListInv, RowsOnce, InRank, Ascending
  <2>2. ASSUME alone, \A r \in Requests : req2[r] = L!Idle
        PROVE  /\ list = "unborn" <=> copy.state = "none"
               /\ list = "gone" <=> copy.state = "gone"
               /\ list = "live" => /\ copy.title = title
                                   /\ \A f \in Listed : copy.rank[f] =
                                        IF f \in Known THEN rank[f] ELSE 0
    <3>1. Agreed
      BY <1>1, <2>2, EndedIs DEF ListInv, Told, Untold
    <3> QED
      BY <3>1 DEF Agreed, L!SyncItems
  <2> QED
    BY <2>1, <2>2 DEF L!ListAsAsked
<1> QED
  BY <1>1, ListsKeep, PTL DEF OrderKept

-----------------------------------------------------------------------------
(* Files: libraries and what a row is taken for                             *)

FilmRows == [tmdb : Nat, imdb : Nat, title : Titles, year : Nat]

Libraries == [films : Seq(FilmRows), watchlist : SUBSET Nat, watched : SUBSET Nat,
              rating : Seq(Ratings \cup {None}), commented : SUBSET Nat]

\* A library is as it should be, and no two films have one TMDB id.
WellKept(lib) ==
  /\ lib \in Libraries
  /\ DOMAIN lib.rating = DOMAIN lib.films
  /\ lib.watchlist \cup lib.watched \cup lib.commented \subseteq DOMAIN lib.films
  /\ lib.watchlist \cap lib.watched = {}
  /\ \A f \in DOMAIN lib.films :
       /\ lib.rating[f] # None => f \in lib.watched
       /\ \A g \in DOMAIN lib.films :
            lib.films[f].tmdb = lib.films[g].tmdb /\ lib.films[f].tmdb # 0 => f = g

\* The films that a row could be taken for, and the order of those of an IMDb id.
ByTmdb(lib, row) ==
  {f \in DOMAIN lib.films : row.tmdb # 0 /\ lib.films[f].tmdb = row.tmdb}
ByImdb(lib, row) ==
  {f \in DOMAIN lib.films : row.imdb # 0 /\ lib.films[f].imdb = row.imdb}
ByName(lib, row) ==
  {f \in DOMAIN lib.films : /\ row.year # 0 /\ lib.films[f].title = row.title
                            /\ lib.films[f].year = row.year}

Ahead(lib, f, g) ==
  IF lib.films[f].title # lib.films[g].title
  THEN lib.films[f].title < lib.films[g].title
  ELSE IF lib.films[f].year # lib.films[g].year
  THEN lib.films[g].year = 0 \/ lib.films[f].year \in 1..lib.films[g].year
  ELSE f < g

\* The one it is taken for.
Found(lib, row, f) ==
  \/ f \in ByTmdb(lib, row) /\ \A g \in ByTmdb(lib, row) : f <= g
  \/ /\ ByTmdb(lib, row) = {}
     /\ f \in ByImdb(lib, row) /\ \A g \in ByImdb(lib, row) \ {f} : Ahead(lib, f, g)
  \/ /\ ByTmdb(lib, row) = {} /\ ByImdb(lib, row) = {}
     /\ f \in ByName(lib, row) /\ \A g \in ByName(lib, row) : f <= g

LEMMA FilmsAre ==
  ASSUME NEW lib, WellKept(lib)
  PROVE  /\ DOMAIN lib.films = 1..Len(lib.films) /\ Len(lib.films) \in Nat
         /\ \A f \in DOMAIN lib.films :
              /\ f \in Nat /\ f # 0 /\ lib.films[f] \in FilmRows
              /\ lib.films[f].tmdb \in Nat /\ lib.films[f].imdb \in Nat
              /\ lib.films[f].year \in Nat
              /\ lib.films[f].title \in Nat /\ lib.films[f].title \in Titles
              /\ lib.rating[f] \in Ratings \cup {None}
<1>1. lib.films \in Seq(FilmRows) /\ lib.rating \in Seq(Ratings \cup {None})
  BY DEF WellKept, Libraries
<1>2. DOMAIN lib.films = 1..Len(lib.films) /\ Len(lib.films) \in Nat
  BY <1>1
<1>3. ASSUME NEW f \in DOMAIN lib.films
      PROVE  lib.films[f] \in FilmRows /\ f \in Nat /\ f # 0
  BY <1>1, <1>2
<1>4. \A w \in FilmRows : /\ w.tmdb \in Nat /\ w.imdb \in Nat /\ w.year \in Nat
                          /\ w.title \in Nat /\ w.title \in Titles
  BY FilesAssumption DEF FilmRows
<1>5. \A f \in DOMAIN lib.films : lib.rating[f] \in Ratings \cup {None}
  BY <1>1 DEF WellKept
<1> QED
  BY <1>2, <1>3, <1>4, <1>5

\* first() finds a film: one of the least title, of those one of the least year,
\* none last, and of those the least id; and only one comes first.
LEMMA FirstIs ==
  ASSUME NEW lib, WellKept(lib), NEW ids \in SUBSET DOMAIN lib.films, ids # {}
  PROVE  \E f \in ids :
           /\ E!FirstByImdb(lib, ids) = f
           /\ \A g \in ids \ {f} : Ahead(lib, f, g)
<1> DEFINE name(f) == lib.films[f].title
           dated(f) == lib.films[f].year
<1>1. \A f \in ids : f \in Nat /\ name(f) \in Nat /\ dated(f) \in Nat
  BY FilmsAre
<1> HIDE DEF name, dated
<1>2. PICK a \in ids : \A g \in ids : name(a) <= name(g)
  <2> DEFINE T == {name(g) : g \in ids}
  <2>1. T # {} /\ T \subseteq Nat
    BY <1>1
  <2>2. PICK n \in T : \A m \in T : n <= m
    <3> HIDE DEF T
    <3> QED
      BY <2>1, Least
  <2> QED
    BY <2>2
<1> DEFINE As == {g \in ids : name(g) = name(a)}
           Dated == {g \in As : dated(g) # 0}
<1>3. PICK b \in As : \A g \in As : dated(g) # 0 => dated(b) # 0 /\ dated(b) <= dated(g)
  <2>1. CASE Dated = {}
    BY <2>1
  <2>2. CASE Dated # {}
    <3> DEFINE T == {dated(g) : g \in Dated}
    <3>1. T # {} /\ T \subseteq Nat
      BY <1>1, <2>2
    <3>2. PICK n \in T : \A m \in T : n <= m
      <4> HIDE DEF T
      <4> QED
        BY <3>1, Least
    <3> QED
      BY <3>2
  <2> QED
    BY <2>1, <2>2
<1> DEFINE Bs == {g \in As : dated(g) = dated(b)}
<1>4. PICK c \in Bs : \A g \in Bs : c <= g
  <2>1. Bs # {} /\ Bs \subseteq Nat
    BY <1>1
  <2> HIDE DEF Bs
  <2> QED
    BY <2>1, Least
<1>5. ASSUME NEW g \in ids \ {c} PROVE Ahead(lib, c, g)
  <2>1. c \in ids /\ name(c) = name(a) /\ dated(c) = dated(b)
    OBVIOUS
  <2>2. name(c) # name(g) => name(c) < name(g)
    BY <1>1, <1>2, <2>1
  <2>3. name(c) = name(g) /\ dated(c) # dated(g) =>
          dated(g) = 0 \/ dated(c) \in 1..dated(g)
    BY <1>1, <1>3, <2>1
  <2>4. name(c) = name(g) /\ dated(c) = dated(g) => c < g
    BY <1>1, <1>4, <2>1
  <2> QED
    BY <2>2, <2>3, <2>4 DEF Ahead, name, dated
<1> DEFINE First == CHOOSE f \in ids : \A g \in ids \ {f} : Ahead(lib, f, g)
<1>6. First \in ids /\ \A g \in ids \ {First} : Ahead(lib, First, g)
  BY <1>4, <1>5
<1>7. E!FirstByImdb(lib, ids) = First
  BY DEF E!FirstByImdb, Ahead
<1> QED
  BY <1>6, <1>7

LEMMA OneIsAhead ==
  ASSUME NEW lib, WellKept(lib), NEW f \in DOMAIN lib.films,
         NEW g \in DOMAIN lib.films, Ahead(lib, f, g), Ahead(lib, g, f)
  PROVE  FALSE
  BY FilmsAre DEF Ahead

LEMMA LowestIs ==
  ASSUME NEW ids, ids \subseteq Nat, ids # {}
  PROVE  E!Lowest(ids) \in ids /\ \A g \in ids : E!Lowest(ids) <= g
  BY Least DEF E!Lowest

\* find_match finds the one film there is to find, if there is one.
LEMMA MatchIs ==
  ASSUME NEW lib, WellKept(lib), NEW row
  PROVE  LET match == E!find_match(lib, row) IN
         /\ match # None => match \in DOMAIN lib.films /\ Found(lib, row, match)
         /\ \A f \in DOMAIN lib.films : Found(lib, row, f) => match = f
         /\ match = None =>
              /\ ByTmdb(lib, row) = {} /\ ByImdb(lib, row) = {}
              /\ ByName(lib, row) = {}
<1> DEFINE match == E!find_match(lib, row)
           T == ByTmdb(lib, row)
           I1 == ByImdb(lib, row)
           N == ByName(lib, row)
<1>1. match = IF T # {} THEN E!Lowest(T)
              ELSE IF I1 # {} THEN E!FirstByImdb(lib, I1)
              ELSE IF N # {} THEN E!Lowest(N) ELSE None
  BY DEF E!find_match, E!Ids, ByTmdb, ByImdb, ByName
<1>2. /\ T \subseteq DOMAIN lib.films /\ I1 \subseteq DOMAIN lib.films
      /\ N \subseteq DOMAIN lib.films /\ DOMAIN lib.films \subseteq Nat
      /\ None \notin Nat
  BY FilmsAre, FilesAssumption DEF ByTmdb, ByImdb, ByName
<1>3. CASE T # {}
  BY <1>1, <1>2, <1>3, LowestIs DEF Found
<1>4. CASE T = {} /\ I1 # {}
  <2>1. PICK f \in I1 : /\ match = f /\ \A g \in I1 \ {f} : Ahead(lib, f, g)
    BY <1>1, <1>2, <1>4, FirstIs
  <2> QED
    BY <1>2, <1>4, <2>1, OneIsAhead DEF Found
<1>5. CASE T = {} /\ I1 = {} /\ N # {}
  BY <1>1, <1>2, <1>5, LowestIs DEF Found
<1>6. CASE T = {} /\ I1 = {} /\ N = {}
  BY <1>1, <1>6 DEF Found
<1> QED
  BY <1>3, <1>4, <1>5, <1>6

-----------------------------------------------------------------------------
(* Files: what a row does                                                    *)

\* The film that is made of a row.
MadeOf(row) ==
  [tmdb |-> row.tmdb, imdb |-> row.imdb, title |-> row.title, year |-> row.year]

\* The library that a row leaves, of the film it is taken for.
Takes(lib, row, f, new) ==
  \/ /\ E!find_match(lib, row) = None /\ f = Len(lib.films) + 1
     /\ new.films = Append(lib.films, MadeOf(row))
     /\ new.rating = Append(lib.rating, None)
  \/ /\ E!find_match(lib, row) = f /\ f \in DOMAIN lib.films
     /\ new.films = [lib.films EXCEPT ![f] = E!FilledFrom(lib.films[f], row)]
     /\ new.rating = lib.rating

\* And where it puts the film.
Shelves(mid, row, f, new) ==
  IF row.rating = None
  THEN /\ new.watched = mid.watched /\ new.rating = mid.rating
       /\ new.watchlist = IF f \in mid.watched THEN mid.watchlist
                          ELSE mid.watchlist \cup {f}
  ELSE IF mid.rating[f] # None
  THEN /\ new.watched = mid.watched /\ new.rating = mid.rating
       /\ new.watchlist = mid.watchlist
  ELSE /\ new.watched = mid.watched \cup {f} /\ new.watchlist = mid.watchlist \ {f}
       /\ new.rating = [mid.rating EXCEPT ![f] = row.rating]

\* Records of these five fields.
Five(lib) == lib = [films |-> lib.films, watchlist |-> lib.watchlist,
                    watched |-> lib.watched, rating |-> lib.rating,
                    commented |-> lib.commented]

\* A record with one field changed; the provers need it said field by field.
LEMMA Fields ==
  ASSUME NEW lib, Five(lib), NEW x
  PROVE  /\ [lib EXCEPT !.films = x] =
              [films |-> x, watchlist |-> lib.watchlist, watched |-> lib.watched,
               rating |-> lib.rating, commented |-> lib.commented]
         /\ [lib EXCEPT !.watchlist = x] =
              [films |-> lib.films, watchlist |-> x, watched |-> lib.watched,
               rating |-> lib.rating, commented |-> lib.commented]
         /\ [lib EXCEPT !.watched = x] =
              [films |-> lib.films, watchlist |-> lib.watchlist, watched |-> x,
               rating |-> lib.rating, commented |-> lib.commented]
         /\ [lib EXCEPT !.rating = x] =
              [films |-> lib.films, watchlist |-> lib.watchlist,
               watched |-> lib.watched, rating |-> x, commented |-> lib.commented]
<1> DEFINE R(F, W, D, G, C) == [films |-> F, watchlist |-> W, watched |-> D,
                                rating |-> G, commented |-> C]
<1>1. ASSUME NEW F, NEW W, NEW D, NEW G, NEW C
      PROVE  /\ [R(F, W, D, G, C) EXCEPT !.films = x] = R(x, W, D, G, C)
             /\ [R(F, W, D, G, C) EXCEPT !.watchlist = x] = R(F, x, D, G, C)
             /\ [R(F, W, D, G, C) EXCEPT !.watched = x] = R(F, W, x, G, C)
             /\ [R(F, W, D, G, C) EXCEPT !.rating = x] = R(F, W, D, x, C)
  OBVIOUS
<1>2. lib = R(lib.films, lib.watchlist, lib.watched, lib.rating, lib.commented)
  BY DEF Five
<1> HIDE DEF R
<1>3. /\ [lib EXCEPT !.films = x] =
           R(x, lib.watchlist, lib.watched, lib.rating, lib.commented)
      /\ [lib EXCEPT !.watchlist = x] =
           R(lib.films, x, lib.watched, lib.rating, lib.commented)
      /\ [lib EXCEPT !.watched = x] =
           R(lib.films, lib.watchlist, x, lib.rating, lib.commented)
      /\ [lib EXCEPT !.rating = x] =
           R(lib.films, lib.watchlist, lib.watched, x, lib.commented)
  BY <1>1, <1>2
<1> QED
  BY <1>3 DEF R

LEMMA FilledIs ==
  ASSUME NEW w \in FilmRows, NEW row
  PROVE  E!FilledFrom(w, row) =
           [tmdb |-> E!Filled(w.tmdb, row.tmdb), imdb |-> E!Filled(w.imdb, row.imdb),
            title |-> w.title, year |-> E!Filled(w.year, row.year)]
<1> DEFINE R(t, i, n, y) == [tmdb |-> t, imdb |-> i, title |-> n, year |-> y]
<1>1. ASSUME NEW t, NEW i, NEW n, NEW y, NEW x
      PROVE  /\ [R(t, i, n, y) EXCEPT !.tmdb = x] = R(x, i, n, y)
             /\ [R(t, i, n, y) EXCEPT !.imdb = x] = R(t, x, n, y)
             /\ [R(t, i, n, y) EXCEPT !.year = x] = R(t, i, n, x)
  OBVIOUS
<1>2. PICK t, i, n, y : w = R(t, i, n, y)
  BY DEF FilmRows
<1>3. w.tmdb = t /\ w.imdb = i /\ w.title = n /\ w.year = y
  BY <1>2
<1> DEFINE a == E!Filled(t, row.tmdb)
           b == E!Filled(i, row.imdb)
           c == E!Filled(y, row.year)
           one == [R(t, i, n, y) EXCEPT !.tmdb = a]
           two == [one EXCEPT !.imdb = b]
<1>4. E!FilledFrom(w, row) = [two EXCEPT !.year = c]
  BY <1>2, <1>3 DEF E!FilledFrom
<1> HIDE DEF a, b, c
<1>5. one = R(a, i, n, y)
  BY <1>1
<1> HIDE DEF one
<1>6. two = R(a, b, n, y)
  BY <1>1, <1>5
<1> HIDE DEF two
<1>7. [two EXCEPT !.year = c] = R(a, b, n, c)
  BY <1>1, <1>6
<1> QED
  BY <1>3, <1>4, <1>7 DEF R, a, b, c

LEMMA StubIs ==
  ASSUME NEW lib, WellKept(lib), NEW row
  PROVE  LET found == E!find_or_create_film_stub(lib, row) IN
         /\ Takes(lib, row, found.film, found.lib) /\ Five(found.lib)
         /\ found.lib.watchlist = lib.watchlist /\ found.lib.watched = lib.watched
         /\ found.lib.commented = lib.commented
<1> DEFINE match == E!find_match(lib, row)
           found == E!find_or_create_film_stub(lib, row)
<1>1. Five(lib)
  BY DEF WellKept, Libraries, Five
<1>2. CASE match = None
  <2> DEFINE more == [lib EXCEPT !.rating = Append(lib.rating, None)]
  <2>1. found = [film |-> Len(lib.films) + 1,
                 lib |-> [more EXCEPT !.films = Append(lib.films, MadeOf(row))]]
    BY <1>2 DEF E!find_or_create_film_stub, MadeOf
  <2>2. more = [films |-> lib.films, watchlist |-> lib.watchlist,
                watched |-> lib.watched, rating |-> Append(lib.rating, None),
                commented |-> lib.commented]
    BY <1>1, Fields
  <2> HIDE DEF more
  <2>3. Five(more)
    BY <2>2 DEF Five
  <2>4. /\ found.film = Len(lib.films) + 1
        /\ found.lib = [films |-> Append(lib.films, MadeOf(row)),
                        watchlist |-> lib.watchlist, watched |-> lib.watched,
                        rating |-> Append(lib.rating, None),
                        commented |-> lib.commented]
    <3>1. [more EXCEPT !.films = Append(lib.films, MadeOf(row))] =
            [films |-> Append(lib.films, MadeOf(row)),
             watchlist |-> more.watchlist, watched |-> more.watched,
             rating |-> more.rating, commented |-> more.commented]
      BY <2>3, Fields
    <3> HIDE DEF found
    <3> QED
      BY <2>1, <2>2, <3>1
  <2> HIDE DEF found, match
  <2>5. Takes(lib, row, found.film, found.lib)
    BY <1>2, <2>4 DEF Takes, match
  <2> QED
    BY <2>4, <2>5 DEF found, Five
<1>3. CASE match # None
  <2>1. match \in DOMAIN lib.films
    BY <1>3, MatchIs
  <2> DEFINE with == [lib.films EXCEPT ![match] = E!FilledFrom(lib.films[match], row)]
  <2>2. found = [film |-> match, lib |-> [lib EXCEPT !.films = with]]
    BY <1>3 DEF E!find_or_create_film_stub
  <2> HIDE DEF match, with
  <2>3. [lib EXCEPT !.films = with] =
          [films |-> with, watchlist |-> lib.watchlist, watched |-> lib.watched,
           rating |-> lib.rating, commented |-> lib.commented]
    BY <1>1, Fields
  <2>4. /\ found.film = match
        /\ found.lib = [films |-> with, watchlist |-> lib.watchlist,
                        watched |-> lib.watched, rating |-> lib.rating,
                        commented |-> lib.commented]
    BY <2>2, <2>3
  <2> HIDE DEF found
  <2>5. Takes(lib, row, found.film, found.lib)
    BY <2>1, <2>4 DEF Takes, match, with
  <2> QED
    BY <2>4, <2>5 DEF found, Five
<1> QED
  BY <1>2, <1>3

LEMMA RowIs ==
  ASSUME NEW lib, WellKept(lib), NEW row
  PROVE  LET new == E!import_row(lib, row) IN
         /\ row.title = None => new = lib
         /\ row.title # None =>
              /\ Five(new) /\ new.commented = lib.commented
              /\ \E f, mid : /\ Takes(lib, row, f, mid) /\ Five(mid)
                             /\ mid.watchlist = lib.watchlist
                             /\ mid.watched = lib.watched
                             /\ mid.commented = lib.commented
                             /\ new.films = mid.films /\ Shelves(mid, row, f, new)
<1> DEFINE new == E!import_row(lib, row)
<1>1. row.title = None => new = lib
  BY DEF E!import_row
<1>2. ASSUME row.title # None
      PROVE  /\ Five(new) /\ new.commented = lib.commented
             /\ \E f, mid : /\ Takes(lib, row, f, mid) /\ Five(mid)
                            /\ mid.watchlist = lib.watchlist
                            /\ mid.watched = lib.watched
                            /\ mid.commented = lib.commented
                            /\ new.films = mid.films /\ Shelves(mid, row, f, new)
  <2>1. PICK f, mid : f = E!find_or_create_film_stub(lib, row).film
                      /\ mid = E!find_or_create_film_stub(lib, row).lib
    OBVIOUS
  <2>2. /\ Takes(lib, row, f, mid) /\ Five(mid)
        /\ mid.watchlist = lib.watchlist /\ mid.watched = lib.watched
        /\ mid.commented = lib.commented
    BY <2>1, StubIs
  <2>3. new = IF row.rating = None THEN E!Shelved(mid, f)
              ELSE IF mid.rating[f] # None THEN mid
              ELSE [mid EXCEPT !.watched = @ \cup {f}, !.watchlist = @ \ {f},
                               !.rating[f] = row.rating]
    BY <1>2, <2>1 DEF E!import_row
  <2>4. Five(new) /\ new.commented = mid.commented /\ new.films = mid.films
        /\ Shelves(mid, row, f, new)
    <3>1. CASE row.rating = None /\ f \in mid.watched
      BY <2>2, <2>3, <3>1 DEF E!Shelved, Shelves
    <3>2. CASE row.rating = None /\ f \notin mid.watched
      <4>1. new = [mid EXCEPT !.watchlist = @ \cup {f}]
        BY <2>3, <3>2 DEF E!Shelved
      <4>2. [mid EXCEPT !.watchlist = @ \cup {f}] =
              [films |-> mid.films, watchlist |-> mid.watchlist \cup {f},
               watched |-> mid.watched, rating |-> mid.rating,
               commented |-> mid.commented]
        BY <2>2, Fields
      <4> HIDE DEF new
      <4> QED
        BY <3>2, <4>1, <4>2 DEF Shelves, Five
    <3>3. CASE row.rating # None /\ mid.rating[f] # None
      BY <2>2, <2>3, <3>3 DEF Shelves
    <3>4. CASE row.rating # None /\ mid.rating[f] = None
      <4> DEFINE one == [mid EXCEPT !.watched = mid.watched \cup {f}]
                 two == [one EXCEPT !.watchlist = mid.watchlist \ {f}]
                 last == [two EXCEPT !.rating = [mid.rating EXCEPT ![f] = row.rating]]
      <4>1. new = last
        BY <2>3, <3>4
      <4>2. one = [films |-> mid.films, watchlist |-> mid.watchlist,
                   watched |-> mid.watched \cup {f}, rating |-> mid.rating,
                   commented |-> mid.commented]
        BY <2>2, Fields
      <4> HIDE DEF one
      <4>3. Five(one)
        BY <4>2 DEF Five
      <4>4. two = [films |-> one.films, watchlist |-> mid.watchlist \ {f},
                   watched |-> one.watched, rating |-> one.rating,
                   commented |-> one.commented]
        BY <4>3, Fields
      <4> HIDE DEF two
      <4>5. Five(two)
        BY <4>4 DEF Five
      <4>6. last = [films |-> two.films, watchlist |-> two.watchlist,
                    watched |-> two.watched,
                    rating |-> [mid.rating EXCEPT ![f] = row.rating],
                    commented |-> two.commented]
        BY <4>5, Fields
      <4> HIDE DEF last, new
      <4> QED
        BY <3>4, <4>1, <4>2, <4>4, <4>6 DEF Shelves, Five
    <3> QED
      BY <3>1, <3>2, <3>3, <3>4
  <2> QED
    BY <2>2, <2>4
<1> QED
  BY <1>1, <1>2

-----------------------------------------------------------------------------
\* The film a row is taken for, after it: its ids, its year and its title are
\* those it had, or the row's where it had none.
LEMMA TakenIs ==
  ASSUME NEW lib, WellKept(lib), NEW row \in E!Rows, row.title # None,
         NEW f, NEW mid, Takes(lib, row, f, mid)
  PROVE  /\ mid.films \in Seq(FilmRows) /\ mid.rating \in Seq(Ratings \cup {None})
         /\ DOMAIN mid.films = DOMAIN lib.films \cup {f}
         /\ DOMAIN mid.rating = DOMAIN mid.films
         /\ \A g \in DOMAIN lib.films \ {f} : mid.films[g] = lib.films[g]
         /\ \A g \in DOMAIN lib.films : mid.rating[g] = lib.rating[g]
         /\ f \in DOMAIN lib.films =>
              /\ mid.films[f].tmdb = E!Filled(lib.films[f].tmdb, row.tmdb)
              /\ mid.films[f].imdb = E!Filled(lib.films[f].imdb, row.imdb)
              /\ mid.films[f].year = E!Filled(lib.films[f].year, row.year)
              /\ mid.films[f].title = lib.films[f].title
         /\ f \notin DOMAIN lib.films =>
              /\ mid.films[f].tmdb = row.tmdb /\ mid.films[f].imdb = row.imdb
              /\ mid.films[f].year = row.year /\ mid.films[f].title = row.title
              /\ mid.rating[f] = None
         /\ f \in DOMAIN lib.films <=> E!find_match(lib, row) # None
<1>1. /\ lib.films \in Seq(FilmRows) /\ lib.rating \in Seq(Ratings \cup {None})
      /\ DOMAIN lib.rating = DOMAIN lib.films
      /\ DOMAIN lib.films = 1..Len(lib.films) /\ Len(lib.films) \in Nat
      /\ DOMAIN lib.rating = 1..Len(lib.rating) /\ Len(lib.rating) \in Nat
  BY DEF WellKept, Libraries
<1>2. /\ row.tmdb \in Nat /\ row.imdb \in Nat /\ row.year \in Nat
      /\ row.title \in Titles /\ None \notin Nat
  BY FilesAssumption DEF E!Rows
<1>3. CASE E!find_match(lib, row) = None
  <2>1. /\ f = Len(lib.films) + 1 /\ mid.films = Append(lib.films, MadeOf(row))
        /\ mid.rating = Append(lib.rating, None)
    BY <1>1, <1>2, <1>3 DEF Takes
  <2>2. MadeOf(row) \in FilmRows /\ None \in Ratings \cup {None}
    BY <1>2 DEF MadeOf, FilmRows
  <2>3. /\ mid.films \in Seq(FilmRows) /\ mid.rating \in Seq(Ratings \cup {None})
        /\ DOMAIN mid.films = 1..Len(lib.films) + 1
        /\ DOMAIN mid.rating = 1..Len(lib.rating) + 1
        /\ \A g \in 1..Len(lib.films) : mid.films[g] = lib.films[g]
        /\ \A g \in 1..Len(lib.rating) : mid.rating[g] = lib.rating[g]
        /\ mid.films[Len(lib.films) + 1] = MadeOf(row)
        /\ mid.rating[Len(lib.rating) + 1] = None
    <3>1. /\ mid.films \in Seq(FilmRows) /\ Len(mid.films) = Len(lib.films) + 1
          /\ \A g \in 1..Len(lib.films) : mid.films[g] = lib.films[g]
          /\ mid.films[Len(lib.films) + 1] = MadeOf(row)
      BY <1>1, <2>1, <2>2, AppendProperties
    <3>2. /\ mid.rating \in Seq(Ratings \cup {None})
          /\ Len(mid.rating) = Len(lib.rating) + 1
          /\ \A g \in 1..Len(lib.rating) : mid.rating[g] = lib.rating[g]
          /\ mid.rating[Len(lib.rating) + 1] = None
      BY <1>1, <2>1, <2>2, AppendProperties
    <3> QED
      BY <3>1, <3>2, LenProperties
  <2>4. Len(lib.films) = Len(lib.rating)
    BY <1>1
  <2> QED
    BY <1>1, <1>3, <2>1, <2>3, <2>4 DEF MadeOf
<1>4. CASE E!find_match(lib, row) # None
  <2>1. /\ f = E!find_match(lib, row) /\ f \in DOMAIN lib.films
        /\ mid.films = [lib.films EXCEPT ![f] = E!FilledFrom(lib.films[f], row)]
        /\ mid.rating = lib.rating
    BY <1>4 DEF Takes
  <2>2. lib.films[f] \in FilmRows
    BY <1>1, <2>1
  <2>3. E!FilledFrom(lib.films[f], row) =
          [tmdb |-> E!Filled(lib.films[f].tmdb, row.tmdb),
           imdb |-> E!Filled(lib.films[f].imdb, row.imdb),
           title |-> lib.films[f].title,
           year |-> E!Filled(lib.films[f].year, row.year)]
    BY <2>2, FilledIs
  <2>4. E!FilledFrom(lib.films[f], row) \in FilmRows
    BY <1>2, <2>2, <2>3 DEF FilmRows, E!Filled
  <2>5. /\ mid.films \in Seq(FilmRows) /\ DOMAIN mid.films = DOMAIN lib.films
        /\ mid.films[f] = E!FilledFrom(lib.films[f], row)
        /\ \A g \in DOMAIN lib.films \ {f} : mid.films[g] = lib.films[g]
    BY <1>1, <2>1, <2>4
  <2> QED
    BY <1>1, <1>4, <2>1, <2>3, <2>5
<1> QED
  BY <1>3, <1>4

\* What a row is taken for is alike to it, and after it all the more.
LEMMA TakenIsAlike ==
  ASSUME NEW lib, WellKept(lib), NEW row \in E!Rows, row.title # None,
         NEW f, NEW mid, Takes(lib, row, f, mid)
  PROVE  /\ f \in DOMAIN lib.films => Found(lib, row, f) /\ E!Alike(lib.films[f], row)
         /\ E!Alike(mid.films[f], row)
<1>1. CASE f \in DOMAIN lib.films
  <2>1. Found(lib, row, f)
    BY <1>1, TakenIs, MatchIs DEF Takes
  <2>2. E!Alike(lib.films[f], row)
    BY <2>1 DEF Found, ByTmdb, ByImdb, ByName, E!Alike
  <2> QED
    BY <1>1, <2>1, <2>2, TakenIs DEF E!Alike, E!Filled
<1>2. CASE f \notin DOMAIN lib.films
  BY <1>2, TakenIs DEF E!Alike
<1> QED
  BY <1>1, <1>2

\* No TMDB id is given twice.
LEMMA TmdbStays ==
  ASSUME NEW lib, WellKept(lib), NEW row \in E!Rows, row.title # None,
         NEW f, NEW mid, Takes(lib, row, f, mid),
         NEW g \in DOMAIN mid.films, NEW h \in DOMAIN mid.films,
         mid.films[g].tmdb = mid.films[h].tmdb, mid.films[g].tmdb # 0
  PROVE  g = h
<1>1. \A x, y \in DOMAIN lib.films :
        lib.films[x].tmdb = lib.films[y].tmdb /\ lib.films[x].tmdb # 0 => x = y
  BY DEF WellKept
<1>2. ASSUME mid.films[f].tmdb # 0, NEW x \in DOMAIN lib.films \ {f},
             lib.films[x].tmdb = mid.films[f].tmdb
      PROVE  FALSE
  <2>1. CASE f \in DOMAIN lib.films /\ lib.films[f].tmdb # 0
    BY <1>1, <1>2, <2>1, TakenIs DEF E!Filled
  <2>2. CASE f \in DOMAIN lib.films /\ lib.films[f].tmdb = 0
    <3>1. mid.films[f].tmdb = row.tmdb
      BY <2>2, TakenIs DEF E!Filled
    <3>2. x \in ByTmdb(lib, row) /\ f \notin ByTmdb(lib, row)
      BY <1>2, <2>2, <3>1 DEF ByTmdb
    <3> QED
      BY <2>2, <3>2, TakenIsAlike DEF Found
  <2>3. CASE f \notin DOMAIN lib.films
    <3>1. mid.films[f].tmdb = row.tmdb /\ E!find_match(lib, row) = None
      BY <2>3, TakenIs
    <3>2. x \in ByTmdb(lib, row)
      BY <1>2, <3>1 DEF ByTmdb
    <3> QED
      BY <3>1, <3>2, MatchIs
  <2> QED
    BY <2>1, <2>2, <2>3
<1>3. /\ DOMAIN mid.films = DOMAIN lib.films \cup {f}
      /\ \A x \in DOMAIN lib.films \ {f} : mid.films[x] = lib.films[x]
  BY TakenIs
<1> QED
  BY <1>1, <1>2, <1>3

\* A row with a name: the film it is taken for, and what becomes of that one.
\* All others stay as they are.
LEMMA RowMoves ==
  ASSUME NEW lib, WellKept(lib), NEW row \in E!Rows, row.title # None
  PROVE  LET new == E!import_row(lib, row) IN
         \E f, mid :
           /\ Takes(lib, row, f, mid) /\ Five(new)
           /\ new.films = mid.films /\ new.commented = lib.commented
           /\ new.rating \in Seq(Ratings \cup {None})
           /\ DOMAIN new.rating = DOMAIN new.films
           /\ \A g \in DOMAIN lib.films \ {f} :
                /\ new.rating[g] = lib.rating[g]
                /\ g \in new.watched <=> g \in lib.watched
                /\ g \in new.watchlist <=> g \in lib.watchlist
           /\ f \in DOMAIN lib.films =>
                /\ lib.rating[f] # None => new.rating[f] = lib.rating[f]
                /\ f \in lib.watched => f \in new.watched
           /\ new.watchlist \cup new.watched \subseteq
                lib.watchlist \cup lib.watched \cup {f}
           /\ new.watchlist \cap new.watched = {}
           /\ new.rating[f] # None => f \in new.watched
           /\ IF row.rating = None THEN f \in new.watched \cup new.watchlist
              ELSE new.rating[f] # None
<1> DEFINE new == E!import_row(lib, row)
<1>1. Five(new) /\ new.commented = lib.commented
  BY RowIs
<1>2. PICK f, mid : /\ Takes(lib, row, f, mid) /\ Five(mid)
                    /\ mid.watchlist = lib.watchlist
                    /\ mid.watched = lib.watched
                    /\ mid.commented = lib.commented
                    /\ new.films = mid.films /\ Shelves(mid, row, f, new)
  BY RowIs
<1> HIDE DEF new
<1>3. /\ mid.rating \in Seq(Ratings \cup {None})
      /\ DOMAIN mid.films = DOMAIN lib.films \cup {f}
      /\ DOMAIN mid.rating = DOMAIN mid.films
      /\ \A g \in DOMAIN lib.films : mid.rating[g] = lib.rating[g]
      /\ f \notin DOMAIN lib.films => mid.rating[f] = None
  BY <1>2, TakenIs
<1>4. /\ lib.watchlist \cap lib.watched = {}
      /\ lib.watchlist \cup lib.watched \subseteq DOMAIN lib.films
      /\ \A g \in DOMAIN lib.films : lib.rating[g] # None => g \in lib.watched
  BY DEF WellKept
<1>5. row.rating \in Ratings \cup {None}
  BY DEF E!Rows
<1>6. CASE row.rating = None
  <2>1. /\ new.watched = mid.watched /\ new.rating = mid.rating
        /\ new.watchlist = IF f \in mid.watched THEN mid.watchlist
                           ELSE mid.watchlist \cup {f}
    BY <1>2, <1>6 DEF Shelves
  <2> QED
    BY <1>1, <1>2, <1>3, <1>4, <1>6, <2>1 DEF new
<1>7. CASE row.rating # None /\ mid.rating[f] # None
  <2>1. /\ new.watched = mid.watched /\ new.rating = mid.rating
        /\ new.watchlist = mid.watchlist
    BY <1>2, <1>7 DEF Shelves
  <2> QED
    BY <1>1, <1>2, <1>3, <1>4, <1>7, <2>1 DEF new
<1>8. CASE row.rating # None /\ mid.rating[f] = None
  <2>1. /\ new.watched = mid.watched \cup {f} /\ new.watchlist = mid.watchlist \ {f}
        /\ new.rating = [mid.rating EXCEPT ![f] = row.rating]
    BY <1>2, <1>8 DEF Shelves
  <2>2. /\ new.rating \in Seq(Ratings \cup {None})
        /\ DOMAIN new.rating = DOMAIN mid.rating /\ new.rating[f] = row.rating
        /\ \A g \in DOMAIN lib.films \ {f} : new.rating[g] = lib.rating[g]
    BY <1>3, <1>5, <2>1
  <2> QED
    BY <1>1, <1>2, <1>3, <1>4, <1>8, <2>1, <2>2 DEF new
<1> QED
  BY <1>6, <1>7, <1>8

\* What an import leaves of a library: its films, the ratings of its reviews,
\* and what is on Watched.
Keeps(lib, new) ==
  /\ DOMAIN lib.films \subseteq DOMAIN new.films
  /\ \A f \in DOMAIN lib.films : lib.rating[f] # None => new.rating[f] = lib.rating[f]
  /\ lib.watched \subseteq new.watched

LEMMA RowKeeps ==
  ASSUME NEW lib, WellKept(lib), NEW row \in E!Rows
  PROVE  WellKept(E!import_row(lib, row)) /\ Keeps(lib, E!import_row(lib, row))
<1> DEFINE new == E!import_row(lib, row)
<1>1. CASE row.title = None
  BY <1>1, RowIs DEF Keeps
<1>2. CASE row.title # None
  <2>1. PICK f, mid :
           /\ Takes(lib, row, f, mid) /\ Five(new)
           /\ new.films = mid.films /\ new.commented = lib.commented
           /\ new.rating \in Seq(Ratings \cup {None})
           /\ DOMAIN new.rating = DOMAIN new.films
           /\ \A g \in DOMAIN lib.films \ {f} :
                /\ new.rating[g] = lib.rating[g]
                /\ g \in new.watched <=> g \in lib.watched
                /\ g \in new.watchlist <=> g \in lib.watchlist
           /\ f \in DOMAIN lib.films =>
                /\ lib.rating[f] # None => new.rating[f] = lib.rating[f]
                /\ f \in lib.watched => f \in new.watched
           /\ new.watchlist \cup new.watched \subseteq
                lib.watchlist \cup lib.watched \cup {f}
           /\ new.watchlist \cap new.watched = {}
           /\ new.rating[f] # None => f \in new.watched
    BY <1>2, RowMoves
  <2> HIDE DEF new
  <2>2. /\ new.films \in Seq(FilmRows)
        /\ DOMAIN new.films = DOMAIN lib.films \cup {f}
    BY <1>2, <2>1, TakenIs
  <2>3. /\ lib.watchlist \cup lib.watched \cup lib.commented \subseteq DOMAIN lib.films
        /\ \A g \in DOMAIN lib.films : lib.rating[g] # None => g \in lib.watched
    BY DEF WellKept
  <2>4. new.watchlist \cup new.watched \cup new.commented \subseteq DOMAIN new.films
    BY <2>1, <2>2, <2>3
  <2>5. new \in Libraries
    <3>1. DOMAIN new.films \subseteq Nat
      BY <2>2
    <3> QED
      BY <2>1, <2>2, <2>4, <3>1 DEF Five, Libraries
  <2>6. \A g \in DOMAIN new.films : new.rating[g] # None => g \in new.watched
    BY <2>1, <2>2, <2>3
  <2>7. \A g, h \in DOMAIN new.films :
          new.films[g].tmdb = new.films[h].tmdb /\ new.films[g].tmdb # 0 => g = h
    BY <1>2, <2>1, TmdbStays
  <2>8. WellKept(new)
    BY <2>1, <2>4, <2>5, <2>6, <2>7 DEF WellKept
  <2>9. Keeps(lib, new)
    BY <2>1, <2>2, <2>3 DEF Keeps
  <2> QED
    BY <2>8, <2>9 DEF new
<1> QED
  BY <1>1, <1>2

-----------------------------------------------------------------------------
(* Files: rows that have nothing left to say                                 *)

\* A row that has nothing left to say: the film it leads to has its ids and its
\* year, is on a shelf, and is rated if the row rates it.
Says(lib, row, f) ==
  /\ f \in DOMAIN lib.films /\ Found(lib, row, f)
  /\ row.tmdb # 0 => lib.films[f].tmdb # 0
  /\ row.imdb # 0 => lib.films[f].imdb # 0
  /\ row.year # 0 => lib.films[f].year # 0
  /\ IF row.rating = None THEN f \in lib.watched \cup lib.watchlist
     ELSE lib.rating[f] # None

Settled(lib, row) == row.title # None => \E f : Says(lib, row, f)

LEMMA SettledIsNoOp ==
  ASSUME NEW lib, WellKept(lib), NEW row, Settled(lib, row)
  PROVE  E!import_row(lib, row) = lib
<1> DEFINE new == E!import_row(lib, row)
<1>1. CASE row.title = None
  BY <1>1, RowIs
<1>2. CASE row.title # None
  <2>1. PICK g : Says(lib, row, g)
    BY <1>2 DEF Settled
  <2>2. PICK f, mid : /\ Takes(lib, row, f, mid) /\ Five(mid) /\ Five(new)
                      /\ mid.watchlist = lib.watchlist
                      /\ mid.watched = lib.watched
                      /\ mid.commented = lib.commented
                      /\ new.commented = lib.commented
                      /\ new.films = mid.films /\ Shelves(mid, row, f, new)
    BY <1>2, RowIs
  <2> HIDE DEF new
  <2>3. E!find_match(lib, row) = g /\ g # None /\ g \in DOMAIN lib.films
    <3>1. E!find_match(lib, row) = g
      BY <2>1, MatchIs DEF Says
    <3>2. g \in Nat /\ None \notin Nat
      BY <2>1, FilmsAre, FilesAssumption DEF Says
    <3> QED
      BY <2>1, <3>1, <3>2 DEF Says
  <2>4. /\ f = g /\ mid.rating = lib.rating
        /\ mid.films = [lib.films EXCEPT ![g] = E!FilledFrom(lib.films[g], row)]
    BY <2>2, <2>3 DEF Takes
  <2>5. lib.films[g] \in FilmRows
    BY <2>3, FilmsAre
  <2>6. E!FilledFrom(lib.films[g], row) = lib.films[g]
    <3>1. E!FilledFrom(lib.films[g], row) =
            [tmdb |-> lib.films[g].tmdb, imdb |-> lib.films[g].imdb,
             title |-> lib.films[g].title, year |-> lib.films[g].year]
      BY <2>1, <2>5, FilledIs DEF Says, E!Filled
    <3> QED
      BY <2>5, <3>1 DEF FilmRows
  <2>7. mid.films = lib.films
    <3>1. \A s, x : s = [i \in DOMAIN s |-> s[i]] => [s EXCEPT ![x] = s[x]] = s
      OBVIOUS
    <3>2. lib.films = [i \in DOMAIN lib.films |-> lib.films[i]]
      BY DEF WellKept, Libraries
    <3> QED
      BY <2>4, <2>6, <3>1, <3>2
  <2>8. /\ new.watched = lib.watched /\ new.rating = lib.rating
        /\ new.watchlist = lib.watchlist
    <3>1. CASE row.rating = None
      BY <2>1, <2>2, <2>4, <3>1 DEF Shelves, Says
    <3>2. CASE row.rating # None
      BY <2>1, <2>2, <2>4, <3>2 DEF Shelves, Says
    <3> QED
      BY <3>1, <3>2
  <2>9. Five(lib)
    BY DEF WellKept, Libraries, Five
  <2> QED
    BY <2>2, <2>7, <2>8, <2>9 DEF new, Five
<1> QED
  BY <1>1, <1>2

\* What a film is among those of an IMDb id does not change for the worse when
\* it is given a year.
LEMMA FirstStays ==
  ASSUME NEW lib, WellKept(lib), NEW new, WellKept(new),
         NEW f \in DOMAIN lib.films, NEW g \in DOMAIN lib.films \ {f},
         new.films[g] = lib.films[g], new.films[f].title = lib.films[f].title,
         lib.films[f].year # 0 => new.films[f].year = lib.films[f].year,
         f \in DOMAIN new.films, Ahead(lib, f, g)
  PROVE  Ahead(new, f, g)
  BY FilmsAre DEF Ahead

\* A row that has an id or a year has said all it has to say.
LEMMA RowSettles ==
  ASSUME NEW lib, WellKept(lib), NEW row \in E!Rows,
         row.tmdb + row.imdb + row.year > 0
  PROVE  Settled(E!import_row(lib, row), row)
<1> DEFINE new == E!import_row(lib, row)
<1> SUFFICES ASSUME row.title # None PROVE \E f : Says(new, row, f)
  BY DEF Settled
<1>1. WellKept(new)
  BY RowKeeps
<1>2. PICK f, mid :
        /\ Takes(lib, row, f, mid) /\ new.films = mid.films
        /\ IF row.rating = None THEN f \in new.watched \cup new.watchlist
           ELSE new.rating[f] # None
  BY RowMoves
<1> HIDE DEF new
<1>3. /\ DOMAIN new.films = DOMAIN lib.films \cup {f}
      /\ \A g \in DOMAIN lib.films \ {f} : new.films[g] = lib.films[g]
      /\ f \in DOMAIN lib.films =>
           /\ new.films[f].tmdb = E!Filled(lib.films[f].tmdb, row.tmdb)
           /\ new.films[f].imdb = E!Filled(lib.films[f].imdb, row.imdb)
           /\ new.films[f].year = E!Filled(lib.films[f].year, row.year)
           /\ new.films[f].title = lib.films[f].title
      /\ f \notin DOMAIN lib.films =>
           /\ new.films[f].tmdb = row.tmdb /\ new.films[f].imdb = row.imdb
           /\ new.films[f].year = row.year /\ new.films[f].title = row.title
      /\ f \in DOMAIN lib.films <=> E!find_match(lib, row) # None
  BY <1>2, TakenIs
<1>4. /\ row.tmdb # 0 => new.films[f].tmdb # 0
      /\ row.imdb # 0 => new.films[f].imdb # 0
      /\ row.year # 0 => new.films[f].year # 0
  BY <1>3 DEF E!Filled
<1>5. row.tmdb \in Nat /\ row.imdb \in Nat /\ row.year \in Nat
  BY DEF E!Rows
<1>6. \A g, h \in ByTmdb(new, row) : g = h
  BY <1>1 DEF WellKept, ByTmdb
<1>7. f \in Nat /\ \A g \in DOMAIN new.films : g \in Nat
  BY <1>1, <1>3, FilmsAre
<1>8. Found(new, row, f)
  <2>1. CASE f \in ByTmdb(new, row)
    BY <1>6, <1>7, <2>1 DEF Found
  <2>2. CASE f \notin ByTmdb(new, row) /\ f \in DOMAIN lib.films
    <3>1. Found(lib, row, f)
      BY <1>2, <2>2, TakenIsAlike
    <3>2. ByTmdb(lib, row) = {} /\ ByTmdb(new, row) = {}
      BY <1>3, <2>2, <3>1 DEF Found, ByTmdb, E!Filled
    <3>3. CASE f \in ByImdb(lib, row) /\ \A g \in ByImdb(lib, row) \ {f} : Ahead(lib, f, g)
      <4>1. ByImdb(new, row) = ByImdb(lib, row)
        BY <1>3, <2>2, <3>3 DEF ByImdb, E!Filled
      <4>2. ASSUME NEW g \in ByImdb(new, row) \ {f} PROVE Ahead(new, f, g)
        <5>1. g \in DOMAIN lib.films \ {f} /\ Ahead(lib, f, g)
          BY <3>3, <4>1, <4>2 DEF ByImdb
        <5>2. lib.films[f].year # 0 => new.films[f].year = lib.films[f].year
          BY <1>3, <2>2 DEF E!Filled
        <5> QED
          BY <1>1, <1>3, <2>2, <5>1, <5>2, FirstStays
      <4> QED
        BY <3>2, <3>3, <4>1, <4>2 DEF Found
    <3>4. CASE /\ ByImdb(lib, row) = {} /\ f \in ByName(lib, row)
               /\ \A g \in ByName(lib, row) : f <= g
      <4>1. CASE f \in ByImdb(new, row)
        <5>1. ByImdb(new, row) = {f}
          BY <1>3, <2>2, <3>4, <4>1 DEF ByImdb
        <5> QED
          BY <3>2, <4>1, <5>1 DEF Found
      <4>2. CASE f \notin ByImdb(new, row)
        <5>1. ByImdb(new, row) = {}
          BY <1>3, <2>2, <3>4, <4>2 DEF ByImdb
        <5>2. ByName(new, row) = ByName(lib, row)
          BY <1>3, <2>2, <3>4 DEF ByName, E!Filled
        <5> QED
          BY <3>2, <3>4, <5>1, <5>2 DEF Found
      <4> QED
        BY <4>1, <4>2
    <3> QED
      BY <3>1, <3>2, <3>3, <3>4 DEF Found
  <2>3. CASE f \notin ByTmdb(new, row) /\ f \notin DOMAIN lib.films
    <3>1. /\ ByTmdb(lib, row) = {} /\ ByImdb(lib, row) = {}
          /\ ByName(lib, row) = {}
      BY <1>3, <2>3, MatchIs
    <3>2. ByTmdb(new, row) = {} /\ row.tmdb = 0
      BY <1>3, <2>3, <3>1 DEF ByTmdb
    <3>3. CASE row.imdb # 0
      <4>1. ByImdb(new, row) = {f}
        BY <1>3, <2>3, <3>1, <3>3 DEF ByImdb
      <4> QED
        BY <3>2, <4>1 DEF Found
    <3>4. CASE row.imdb = 0
      <4>1. row.year # 0
        BY <1>5, <3>2, <3>4
      <4>2. ByImdb(new, row) = {} /\ ByName(new, row) = {f}
        BY <1>3, <2>3, <3>1, <3>4, <4>1 DEF ByImdb, ByName
      <4> QED
        BY <1>7, <3>2, <4>2 DEF Found
    <3> QED
      BY <3>3, <3>4
  <2> QED
    BY <2>1, <2>2, <2>3
<1> QED
  BY <1>2, <1>3, <1>4, <1>8 DEF Says

\* No film is alike to two of the rows of a file that have a name.
Apart(lib, file) ==
  \A i, j \in E!NamedRows(file) : \A f \in DOMAIN lib.films :
    i # j => ~(E!Alike(lib.films[f], file[i]) /\ E!Alike(lib.films[f], file[j]))

\* Nor are two of the rows alike themselves.
Distinct(file) ==
  \A i, j \in E!NamedRows(file) : i # j => ~E!Alike(file[i], file[j])

\* What a filled film is like, it was like before, or the row is.
LEMMA ComesFromEither ==
  ASSUME NEW lib, WellKept(lib), NEW row \in E!Rows, row.title # None,
         NEW f, NEW mid, Takes(lib, row, f, mid), NEW other, E!Alike(mid.films[f], other)
  PROVE  \/ f \in DOMAIN lib.films /\ E!Alike(lib.films[f], other)
         \/ E!Alike(row, other)
<1>1. CASE f \in DOMAIN lib.films
  BY <1>1, TakenIs DEF E!Alike, E!Filled
<1>2. CASE f \notin DOMAIN lib.films
  BY <1>2, TakenIs DEF E!Alike
<1> QED
  BY <1>1, <1>2

LEMMA ApartStays ==
  ASSUME NEW lib, WellKept(lib), NEW file, \A i \in DOMAIN file : file[i] \in E!Rows,
         Apart(lib, file), Distinct(file), NEW n \in DOMAIN file
  PROVE  Apart(E!import_row(lib, file[n]), file)
<1> DEFINE row == file[n]
           new == E!import_row(lib, row)
<1>1. CASE row.title = None
  BY <1>1, RowIs
<1>2. CASE row.title # None
  <2>1. PICK f, mid : Takes(lib, row, f, mid) /\ new.films = mid.films
    BY <1>2, RowMoves
  <2> HIDE DEF new
  <2>2. n \in E!NamedRows(file)
    BY <1>2 DEF E!NamedRows
  <2>3. /\ DOMAIN new.films = DOMAIN lib.films \cup {f}
        /\ \A g \in DOMAIN lib.films \ {f} : new.films[g] = lib.films[g]
    BY <1>2, <2>1, TakenIs
  <2>4. /\ f \in DOMAIN lib.films => E!Alike(lib.films[f], row)
        /\ \A other : E!Alike(new.films[f], other) =>
             \/ f \in DOMAIN lib.films /\ E!Alike(lib.films[f], other)
             \/ E!Alike(row, other)
    BY <1>2, <2>1, TakenIsAlike, ComesFromEither
  <2> SUFFICES ASSUME NEW i \in E!NamedRows(file), NEW j \in E!NamedRows(file),
                      i # j, NEW g \in DOMAIN new.films,
                      E!Alike(new.films[g], file[i]), E!Alike(new.films[g], file[j])
               PROVE  FALSE
    BY DEF Apart, new
  <2>5. CASE g # f
    BY <2>3, <2>5 DEF Apart
  <2>6. CASE g = f
    <3>1. ASSUME NEW k \in E!NamedRows(file), k # n, E!Alike(new.films[f], file[k])
          PROVE  f \in DOMAIN lib.films /\ E!Alike(lib.films[f], file[k])
      BY <2>2, <2>4, <3>1 DEF Distinct
    <3>2. CASE i # n /\ j # n
      BY <2>6, <3>1, <3>2 DEF Apart
    <3>3. CASE i = n
      BY <2>2, <2>4, <2>6, <3>1, <3>3 DEF Apart
    <3>4. CASE j = n
      BY <2>2, <2>4, <2>6, <3>1, <3>4 DEF Apart
    <3> QED
      BY <3>2, <3>3, <3>4
  <2> QED
    BY <2>5, <2>6
<1> QED
  BY <1>1, <1>2

\* A row that has said all leaves it at that while others are read.
LEMMA SettledStays ==
  ASSUME NEW lib, WellKept(lib), NEW file, \A i \in DOMAIN file : file[i] \in E!Rows,
         Apart(lib, file), Distinct(file), NEW n \in DOMAIN file,
         NEW k \in DOMAIN file, k # n, Settled(lib, file[k])
  PROVE  Settled(E!import_row(lib, file[n]), file[k])
<1> DEFINE row == file[n]
           old == file[k]
           new == E!import_row(lib, row)
<1>1. CASE row.title = None
  BY <1>1, RowIs
<1>2. CASE row.title # None
  <2> SUFFICES ASSUME old.title # None PROVE \E f : Says(new, old, f)
    BY DEF Settled
  <2>1. PICK h : Says(lib, old, h)
    BY DEF Settled
  <2>2. PICK f, mid :
           /\ Takes(lib, row, f, mid) /\ new.films = mid.films
           /\ \A g \in DOMAIN lib.films \ {f} :
                /\ new.rating[g] = lib.rating[g]
                /\ g \in new.watched <=> g \in lib.watched
                /\ g \in new.watchlist <=> g \in lib.watchlist
    BY <1>2, RowMoves
  <2>3. Apart(new, file)
    BY ApartStays
  <2> HIDE DEF new
  <2>4. n \in E!NamedRows(file) /\ k \in E!NamedRows(file)
    BY <1>2 DEF E!NamedRows
  <2>5. /\ DOMAIN new.films = DOMAIN lib.films \cup {f}
        /\ \A g \in DOMAIN lib.films \ {f} : new.films[g] = lib.films[g]
    BY <1>2, <2>2, TakenIs
  <2>6. /\ f \in DOMAIN lib.films => ~E!Alike(lib.films[f], old)
        /\ ~E!Alike(new.films[f], old)
    BY <1>2, <2>2, <2>3, <2>4, <2>5, TakenIsAlike DEF Apart
  <2>7. /\ f \notin ByTmdb(lib, old) /\ f \notin ByImdb(lib, old)
        /\ f \notin ByName(lib, old)
    BY <2>6 DEF ByTmdb, ByImdb, ByName, E!Alike
  <2>8. /\ f \notin ByTmdb(new, old) /\ f \notin ByImdb(new, old)
        /\ f \notin ByName(new, old)
    BY <2>6 DEF ByTmdb, ByImdb, ByName, E!Alike
  <2>9. /\ ByTmdb(new, old) = ByTmdb(lib, old)
        /\ ByImdb(new, old) = ByImdb(lib, old)
        /\ ByName(new, old) = ByName(lib, old)
    <3>1. ByTmdb(new, old) = ByTmdb(lib, old)
      BY <2>5, <2>7, <2>8 DEF ByTmdb
    <3>2. ByImdb(new, old) = ByImdb(lib, old)
      BY <2>5, <2>7, <2>8 DEF ByImdb
    <3>3. ByName(new, old) = ByName(lib, old)
      BY <2>5, <2>7, <2>8 DEF ByName
    <3> QED
      BY <3>1, <3>2, <3>3
  <2>10. h # f /\ h \in DOMAIN lib.films \ {f} /\ new.films[h] = lib.films[h]
    BY <2>1, <2>5, <2>7 DEF Says, Found
  <2>11. Found(new, old, h)
    <3>1. \A g \in ByImdb(lib, old) \ {h} :
            h \in ByImdb(lib, old) /\ Ahead(lib, h, g) => Ahead(new, h, g)
      <4>1. ByImdb(lib, old) \subseteq DOMAIN lib.films \ {f}
        BY <2>7 DEF ByImdb
      <4> QED
        BY <2>5, <2>10, <4>1 DEF Ahead
    <3> QED
      BY <2>1, <2>9, <3>1 DEF Says, Found
  <2> QED
    BY <2>1, <2>2, <2>5, <2>10, <2>11 DEF Says
<1> QED
  BY <1>1, <1>2

-----------------------------------------------------------------------------
(* Files: a whole file                                                       *)

\* What FoldLeft computes import_film_csv with: over the first n rows there is
\* such a function, since what it gives for a set of them is given by the set
\* without the last.
Folded(lib, file, n, iter) ==
  iter = [s \in SUBSET (1..n) |->
            IF s = {} THEN lib
            ELSE E!import_row(iter[s \ {E!Max(s)}], file[E!Max(s)])]

LEMMA MaxIs ==
  ASSUME NEW n \in Nat, NEW s \in SUBSET (1..n + 1), n + 1 \in s
  PROVE  E!Max(s) = n + 1
<1>1. \A y \in s : y \in Nat /\ n + 1 >= y
  OBVIOUS
<1>2. \A x \in s : (\A y \in s : x >= y) => x = n + 1
  BY <1>1
<1> QED
  BY <1>1, <1>2 DEF E!Max

LEMMA FoldExists ==
  ASSUME NEW lib, NEW file
  PROVE  \A n \in Nat : \E iter : Folded(lib, file, n, iter)
<1> DEFINE T == {n \in Nat : \E iter : Folded(lib, file, n, iter)}
<1>1. 0 \in T
  <2> DEFINE iter == [s \in SUBSET (1..0) |-> lib]
  <2>1. 1..0 = {}
    OBVIOUS
  <2>2. iter = [s \in SUBSET (1..0) |->
                  IF s = {} THEN lib
                  ELSE E!import_row(iter[s \ {E!Max(s)}], file[E!Max(s)])]
    BY <2>1
  <2> QED
    BY <2>2 DEF Folded
<1>2. ASSUME NEW n \in T PROVE n + 1 \in T
  <2>1. PICK before : Folded(lib, file, n, before)
    OBVIOUS
  <2> DEFINE iter == [s \in SUBSET (1..n + 1) |->
                        IF n + 1 \in s
                        THEN E!import_row(before[s \ {n + 1}], file[n + 1])
                        ELSE before[s]]
  <2>2. ASSUME NEW s \in SUBSET (1..n + 1)
        PROVE  iter[s] = IF s = {} THEN lib
                         ELSE E!import_row(iter[s \ {E!Max(s)}], file[E!Max(s)])
    <3>1. CASE n + 1 \in s
      <4>1. E!Max(s) = n + 1
        BY <3>1, MaxIs
      <4>2. s \ {n + 1} \in SUBSET (1..n + 1) /\ n + 1 \notin s \ {n + 1}
        OBVIOUS
      <4>3. iter[s \ {n + 1}] = before[s \ {n + 1}]
        BY <4>2
      <4>4. iter[s] = E!import_row(before[s \ {n + 1}], file[n + 1])
        BY <3>1
      <4> HIDE DEF iter
      <4> QED
        BY <3>1, <4>1, <4>3, <4>4
    <3>2. CASE n + 1 \notin s
      <4>1. s \in SUBSET (1..n) /\ iter[s] = before[s]
        BY <3>2
      <4>2. before[s] = IF s = {} THEN lib
              ELSE E!import_row(before[s \ {E!Max(s)}], file[E!Max(s)])
        BY <2>1, <4>1 DEF Folded
      <4>3. iter[s \ {E!Max(s)}] = before[s \ {E!Max(s)}]
        <5>1. /\ s \ {E!Max(s)} \in SUBSET (1..n + 1)
              /\ n + 1 \notin s \ {E!Max(s)}
          BY <3>2
        <5> QED
          BY <5>1
      <4> HIDE DEF iter
      <4> QED
        BY <4>1, <4>2, <4>3
    <3> QED
      BY <3>1, <3>2
  <2>3. iter = [s \in SUBSET (1..n + 1) |-> iter[s]]
    OBVIOUS
  <2> HIDE DEF iter
  <2>4. Folded(lib, file, n + 1, iter)
    BY <2>2, <2>3 DEF Folded
  <2> QED
    BY <2>4
<1> HIDE DEF T
<1>3. T \subseteq Nat
  BY DEF T
<1>4. T = Nat
  BY <1>1, <1>2, <1>3, Induct
<1> QED
  BY <1>4 DEF T

\* The libraries between the rows of an import.
Between(lib, file, n, s) ==
  /\ s[0] = lib
  /\ \A k \in 1..n : s[k] = E!import_row(s[k - 1], file[k])
  /\ E!import_film_csv(lib, file) = s[n]

LEMMA ImportIs ==
  ASSUME NEW lib, NEW n \in Nat, NEW file, DOMAIN file = 1..n
  PROVE  \E s : Between(lib, file, n, s)
<1> DEFINE iter == CHOOSE iter : Folded(lib, file, n, iter)
<1>1. Folded(lib, file, n, iter)
  BY FoldExists
<1>2. E!import_film_csv(lib, file) = iter[1..n]
  BY DEF E!import_film_csv, E!FoldLeft, E!MapThenFoldSet, Folded
<1> HIDE DEF iter
<1> DEFINE s == [k \in 0..n |-> iter[1..k]]
<1>3. s[0] = lib
  <2>1. 1..0 = {} /\ 1..0 \in SUBSET (1..n)
    OBVIOUS
  <2>2. iter[1..0] = lib
    BY <1>1, <2>1 DEF Folded
  <2> QED
    BY <2>2
<1>4. ASSUME NEW k \in 1..n PROVE s[k] = E!import_row(s[k - 1], file[k])
  <2>1. /\ k - 1 \in 0..n /\ k \in 0..n /\ (k - 1) + 1 = k /\ k - 1 \in Nat
        /\ k \in 1..k
    OBVIOUS
  <2>4. 1..k \subseteq 1..n
    OBVIOUS
  <2>5. (1..k) \ {k} = 1..(k - 1)
    OBVIOUS
  <2>2. E!Max(1..k) = k
    <3> DEFINE m == k - 1
    <3>1. m \in Nat /\ m + 1 \in 1..k /\ m + 1 = k
      BY <2>1
    <3> HIDE DEF m
    <3> QED
      BY <3>1, MaxIs
  <2>3. iter[1..k] = E!import_row(iter[(1..k) \ {E!Max(1..k)}], file[E!Max(1..k)])
    BY <1>1, <2>1, <2>4 DEF Folded
  <2> QED
    BY <2>1, <2>2, <2>3, <2>5
<1>5. s[n] = iter[1..n]
  OBVIOUS
<1> HIDE DEF s
<1> QED
  BY <1>2, <1>3, <1>4, <1>5 DEF Between

\* What holds before the first row, and after a row if before it, holds at the end.
LEMMA Along ==
  ASSUME NEW n \in Nat, NEW T, 0 \in T, \A k \in 1..n : k - 1 \in T => k \in T
  PROVE  n \in T
<1> DEFINE U == {k \in Nat : k <= n => k \in T}
<1>1. 0 \in U /\ U \subseteq Nat
  OBVIOUS
<1>2. ASSUME NEW k \in U PROVE k + 1 \in U
  <2>1. k + 1 \in Nat /\ (k + 1) - 1 = k
    OBVIOUS
  <2>2. ASSUME k + 1 <= n PROVE k + 1 \in T
    BY <2>1, <2>2
  <2> QED
    BY <2>1, <2>2
<1> HIDE DEF U
<1>3. U = Nat
  BY <1>1, <1>2, Induct
<1> QED
  BY <1>3 DEF U

\* A file of rows that have nothing left to say changes nothing.
LEMMA ImportOfSettled ==
  ASSUME NEW lib, WellKept(lib), NEW n \in Nat, NEW file, DOMAIN file = 1..n,
         \A i \in DOMAIN file : Settled(lib, file[i])
  PROVE  E!import_film_csv(lib, file) = lib
<1>0. PICK s : Between(lib, file, n, s)
  BY ImportIs
<1>1. /\ s[0] = lib
      /\ \A k \in 1..n : s[k] = E!import_row(s[k - 1], file[k])
      /\ E!import_film_csv(lib, file) = s[n]
  BY <1>0 DEF Between
<1> DEFINE T == {k \in 0..n : s[k] = lib}
<1>2. 0 \in T
  BY <1>1
<1>3. ASSUME NEW k \in 1..n, k - 1 \in T PROVE k \in T
  BY <1>1, <1>3, SettledIsNoOp
<1>4. n \in T
  <2> HIDE DEF T
  <2> QED
    BY <1>2, <1>3, Along
<1> QED
  BY <1>1, <1>4

\* No file spoils a library, a rating or Watched.
LEMMA ImportKeeps ==
  ASSUME NEW lib, WellKept(lib), NEW n \in Nat, NEW file, DOMAIN file = 1..n,
         \A i \in 1..n : file[i] \in E!Rows
  PROVE  LET new == E!import_film_csv(lib, file) IN WellKept(new) /\ Keeps(lib, new)
<1>0. PICK s : Between(lib, file, n, s)
  BY ImportIs
<1>2. /\ s[0] = lib
      /\ \A k \in 1..n : s[k] = E!import_row(s[k - 1], file[k])
      /\ E!import_film_csv(lib, file) = s[n]
  BY <1>0 DEF Between
<1> DEFINE T == {k \in 0..n : WellKept(s[k]) /\ Keeps(lib, s[k])}
<1>3. 0 \in T
  BY <1>2 DEF Keeps
<1>4. ASSUME NEW k \in 1..n, k - 1 \in T PROVE k \in T
  <2>1. WellKept(s[k - 1]) /\ Keeps(lib, s[k - 1]) /\ s[k] = E!import_row(s[k - 1], file[k])
    BY <1>2, <1>4
  <2>2. WellKept(s[k]) /\ Keeps(s[k - 1], s[k])
    BY <2>1, RowKeeps
  <2>3. Keeps(lib, s[k])
    BY <2>1, <2>2 DEF Keeps
  <2> QED
    BY <2>2, <2>3
<1>5. n \in T
  <2> HIDE DEF T
  <2> QED
    BY <1>3, <1>4, Along
<1> QED
  BY <1>2, <1>5

\* After row k each of the first k rows has nothing left to say, if the rows are
\* told apart; so the file has nothing to say a second time.
LEMMA ImportSettles ==
  ASSUME NEW lib, WellKept(lib), NEW n \in Nat, NEW file, DOMAIN file = 1..n,
         \A i \in 1..n : file[i] \in E!Rows, Apart(lib, file), Distinct(file),
         \A i \in E!NamedRows(file) : file[i].tmdb + file[i].imdb + file[i].year > 0
  PROVE  LET once == E!import_film_csv(lib, file) IN
         E!import_film_csv(once, file) = once
<1>0. PICK s : Between(lib, file, n, s)
  BY ImportIs
<1>2. /\ s[0] = lib
      /\ \A k \in 1..n : s[k] = E!import_row(s[k - 1], file[k])
      /\ E!import_film_csv(lib, file) = s[n]
  BY <1>0 DEF Between
<1> DEFINE T == {k \in 0..n : /\ WellKept(s[k]) /\ Apart(s[k], file)
                              /\ \A i \in 1..k : Settled(s[k], file[i])}
<1>3. 0 \in T
  BY <1>2
<1>4. ASSUME NEW k \in 1..n, k - 1 \in T PROVE k \in T
  <2>1. /\ WellKept(s[k - 1]) /\ Apart(s[k - 1], file)
        /\ \A i \in 1..(k - 1) : Settled(s[k - 1], file[i])
        /\ s[k] = E!import_row(s[k - 1], file[k])
    BY <1>2, <1>4
  <2>2. WellKept(s[k])
    BY <2>1, RowKeeps
  <2>3. Apart(s[k], file)
    BY <2>1, ApartStays
  <2>4. ASSUME NEW i \in 1..k, i # k PROVE Settled(s[k], file[i])
    <3>1. i \in 1..(k - 1) /\ i \in DOMAIN file /\ k \in DOMAIN file
      BY <2>4
    <3> QED
      BY <2>1, <2>4, <3>1, SettledStays
  <2>5. Settled(s[k], file[k])
    <3>1. CASE file[k].title = None
      BY <3>1 DEF Settled
    <3>2. CASE file[k].title # None
      <4>1. file[k].tmdb + file[k].imdb + file[k].year > 0
        BY <3>2 DEF E!NamedRows
      <4> QED
        BY <2>1, <4>1, RowSettles
    <3> QED
      BY <3>1, <3>2
  <2> QED
    BY <2>2, <2>3, <2>4, <2>5
<1>5. n \in T
  <2> HIDE DEF T
  <2> QED
    BY <1>3, <1>4, Along
<1> QED
  BY <1>2, <1>5, ImportOfSettled

LEMMA CardinalityIs ==
  ASSUME NEW S
  PROVE  E!Cardinality(S) = Cardinality(S)
  BY DEF E!Cardinality, Cardinality

-----------------------------------------------------------------------------
\* The rows of an export are in an order that exists.
InOrderOf(lib, s) ==
  \A i, j \in DOMAIN s : i < j => E!Precedes(lib, s[i], s[j])

LEMMA OneIsFirst ==
  ASSUME NEW lib, WellKept(lib), NEW ids \in SUBSET DOMAIN lib.films, ids # {}
  PROVE  \E f \in ids : \A g \in ids \ {f} : E!Precedes(lib, f, g)
<1> DEFINE name(f) == lib.films[f].title
           dated(f) == lib.films[f].year
<1>1. \A f \in ids : f \in Nat /\ name(f) \in Nat /\ dated(f) \in Nat
  BY FilmsAre
<1> HIDE DEF name, dated
<1>2. PICK a \in ids : \A g \in ids : name(a) <= name(g)
  <2> DEFINE T == {name(g) : g \in ids}
  <2>1. T # {} /\ T \subseteq Nat
    BY <1>1
  <2>2. PICK n \in T : \A m \in T : n <= m
    <3> HIDE DEF T
    <3> QED
      BY <2>1, Least
  <2> QED
    BY <2>2
<1> DEFINE As == {g \in ids : name(g) = name(a)}
<1>3. PICK b \in As : \A g \in As : dated(b) <= dated(g)
  <2> DEFINE T == {dated(g) : g \in As}
  <2>1. T # {} /\ T \subseteq Nat
    BY <1>1
  <2>2. PICK n \in T : \A m \in T : n <= m
    <3> HIDE DEF T
    <3> QED
      BY <2>1, Least
  <2> QED
    BY <2>2
<1> DEFINE Bs == {g \in As : dated(g) = dated(b)}
<1>4. PICK c \in Bs : \A g \in Bs : c <= g
  <2>1. Bs # {} /\ Bs \subseteq Nat
    BY <1>1
  <2> HIDE DEF Bs
  <2> QED
    BY <2>1, Least
<1>5. ASSUME NEW g \in ids \ {c} PROVE E!Precedes(lib, c, g)
  <2>1. c \in ids /\ name(c) = name(a) /\ dated(c) = dated(b)
    OBVIOUS
  <2>2. name(c) # name(g) => name(c) < name(g)
    BY <1>1, <1>2, <2>1
  <2>3. name(c) = name(g) /\ dated(c) # dated(g) => dated(c) < dated(g)
    BY <1>1, <1>3, <2>1
  <2>4. name(c) = name(g) /\ dated(c) = dated(g) => c < g
    BY <1>1, <1>4, <2>1
  <2> QED
    BY <2>2, <2>3, <2>4 DEF E!Precedes, name, dated
<1> QED
  BY <1>4, <1>5

LEMMA SortedExist ==
  ASSUME NEW lib, WellKept(lib)
  PROVE  \A n \in Nat : \A S \in SUBSET DOMAIN lib.films :
           IsFiniteSet(S) /\ Cardinality(S) = n =>
             \E s \in [1..n -> S] : InOrderOf(lib, s)
<1> DEFINE Sorted(n) ==
      \A S \in SUBSET DOMAIN lib.films :
        IsFiniteSet(S) /\ Cardinality(S) = n =>
          \E s \in [1..n -> S] : InOrderOf(lib, s)
    T == {n \in Nat : Sorted(n)}
<1>1. 0 \in T
  <2> SUFFICES ASSUME NEW S \in SUBSET DOMAIN lib.films
               PROVE  \E s \in [1..0 -> S] : InOrderOf(lib, s)
    OBVIOUS
  <2> DEFINE s == [i \in 1..0 |-> 0]
  <2>1. s \in [1..0 -> S] /\ DOMAIN s = {}
    OBVIOUS
  <2> QED
    BY <2>1 DEF InOrderOf
<1>2. ASSUME NEW n \in T PROVE n + 1 \in T
  <2> SUFFICES ASSUME NEW S \in SUBSET DOMAIN lib.films, IsFiniteSet(S),
                      Cardinality(S) = n + 1
               PROVE  \E s \in [1..n + 1 -> S] : InOrderOf(lib, s)
    OBVIOUS
  <2>1. S # {} /\ n \in Nat
    BY FS_EmptySet
  <2>2. PICK f \in S : \A g \in S \ {f} : E!Precedes(lib, f, g)
    BY <2>1, OneIsFirst
  <2>3. IsFiniteSet(S \ {f}) /\ Cardinality(S \ {f}) = n
    BY <2>1, FS_RemoveElement
  <2>4. PICK s \in [1..n -> S \ {f}] : InOrderOf(lib, s)
    BY <2>3
  <2> DEFINE t == [i \in 1..n + 1 |-> IF i = 1 THEN f ELSE s[i - 1]]
  <2>5. t \in [1..n + 1 -> S]
    BY <2>1
  <2>6. ASSUME NEW i \in 1..n + 1, NEW j \in 1..n + 1, i < j
        PROVE  E!Precedes(lib, t[i], t[j])
    <3>1. j - 1 \in 1..n /\ t[j] = s[j - 1]
      BY <2>1, <2>6
    <3>2. CASE i = 1
      BY <2>2, <3>1, <3>2
    <3>3. CASE i # 1
      <4>1. i - 1 \in 1..n /\ t[i] = s[i - 1] /\ i - 1 < j - 1
        BY <2>1, <2>6, <3>3
      <4> QED
        BY <2>4, <3>1, <4>1 DEF InOrderOf
    <3> QED
      BY <3>2, <3>3
  <2> QED
    BY <2>5, <2>6 DEF InOrderOf
<1> HIDE DEF T
<1>3. T \subseteq Nat
  BY DEF T
<1>4. T = Nat
  BY <1>1, <1>2, <1>3, Induct
<1> QED
  BY <1>4 DEF T

\* Each row of an export is of a film that is in it.
LEMMA ExportIs ==
  ASSUME NEW lib, WellKept(lib)
  PROVE  \E n \in Nat : LET file == E!export_film_csv(lib) IN
           /\ DOMAIN file = 1..n
           /\ \A i \in 1..n : \E f \in E!all_films(lib) : file[i] = E!RowOf(lib, f)
<1> DEFINE S == E!all_films(lib)
           n == Cardinality(S)
<1>1. S \subseteq DOMAIN lib.films
  BY DEF E!all_films, WellKept
<1>2. IsFiniteSet(S) /\ n \in Nat
  <2>1. IsFiniteSet(DOMAIN lib.films)
    BY FilmsAre, FS_Interval
  <2> QED
    BY <1>1, <2>1, FS_Subset, FS_CardinalityType
<1>3. PICK s \in [1..n -> S] : InOrderOf(lib, s)
  <2> HIDE DEF S
  <2> QED
    BY <1>1, <1>2, SortedExist
<1>4. \A i, j \in 1..n : i < j => s[i] # s[j]
  <2> SUFFICES ASSUME NEW i \in 1..n, NEW j \in 1..n, i < j, s[i] = s[j] PROVE FALSE
    OBVIOUS
  <2>1. s[i] \in DOMAIN lib.films /\ E!Precedes(lib, s[i], s[i])
    BY <1>1, <1>3 DEF InOrderOf
  <2> QED
    BY <2>1, FilmsAre DEF E!Precedes
<1>5. \A i, j \in 1..n : i # j => s[i] # s[j]
  <2>1. \A i, j \in 1..n : i # j => i < j \/ j < i
    BY <1>2
  <2> QED
    BY <1>4, <2>1
<1>6. s \in E!SetToSeqs(S)
  BY <1>3, <1>5, CardinalityIs DEF E!SetToSeqs
<1> DEFINE order == CHOOSE t \in E!SetToSeqs(S) :
                      \A i, j \in DOMAIN t : i < j => E!Precedes(lib, t[i], t[j])
<1>7. order \in E!SetToSeqs(S)
  BY <1>3, <1>6 DEF InOrderOf
<1>8. order \in [1..n -> S]
  <2> HIDE DEF order
  <2> QED
    BY <1>7, CardinalityIs DEF E!SetToSeqs
<1>9. E!export_film_csv(lib) = [i \in DOMAIN order |-> E!RowOf(lib, order[i])]
  BY DEF E!export_film_csv
<1> HIDE DEF order, n
<1>10. /\ DOMAIN E!export_film_csv(lib) = 1..n
       /\ \A i \in 1..n : E!export_film_csv(lib)[i] = E!RowOf(lib, order[i])
                          /\ order[i] \in S
  BY <1>8, <1>9
<1> QED
  BY <1>2, <1>10

-----------------------------------------------------------------------------
(* Files: the library as it is reached                                       *)

LEMMA LibIs ==
  /\ E!Lib.films = films /\ E!Lib.watchlist = watchlist /\ E!Lib.watched = watched
  /\ E!Lib.rating = rating /\ E!Lib.commented = commented /\ Five(E!Lib)
  BY DEF E!Lib, Five

\* A row of the export leads back to its film, and has nothing left to say.
LEMMA ExportedIsSettled ==
  ASSUME WellKept(E!Lib), NEW f \in DOMAIN films, E!LeadsBack(f),
         f \in watchlist \cup watched
  PROVE  Settled(E!Lib, E!RowOf(E!Lib, f))
<1> DEFINE row == E!RowOf(E!Lib, f)
<1>1. /\ row.tmdb = films[f].tmdb /\ row.imdb = films[f].imdb
      /\ row.year = films[f].year /\ row.rating = rating[f]
      /\ films[f].title \notin Formulas => row.title = films[f].title
  BY LibIs DEF E!RowOf, E!guard_formula
<1> HIDE DEF row
<1>2. f \in Nat /\ E!Lib.films = films
  BY FilmsAre, LibIs
<1>3. Found(E!Lib, row, f)
  <2>1. CASE films[f].tmdb # 0
    <3>1. ByTmdb(E!Lib, row) = {f}
      BY <1>1, <1>2, <2>1 DEF ByTmdb, WellKept
    <3> QED
      BY <1>2, <3>1 DEF Found
  <2>2. CASE /\ films[f].tmdb = 0 /\ films[f].imdb # 0
             /\ \A g \in DOMAIN films \ {f} : films[g].imdb # films[f].imdb
    <3>1. ByTmdb(E!Lib, row) = {} /\ ByImdb(E!Lib, row) = {f}
      BY <1>1, <1>2, <2>2 DEF ByTmdb, ByImdb
    <3> QED
      BY <3>1 DEF Found
  <2>3. CASE /\ films[f].tmdb = 0 /\ films[f].imdb = 0
             /\ films[f].year # 0 /\ films[f].title \notin Formulas
             /\ \A g \in DOMAIN films \ {f} :
                  films[g].title # films[f].title \/ films[g].year # films[f].year
    <3>1. /\ ByTmdb(E!Lib, row) = {} /\ ByImdb(E!Lib, row) = {}
          /\ ByName(E!Lib, row) = {f}
      BY <1>1, <1>2, <2>3 DEF ByTmdb, ByImdb, ByName
    <3> QED
      BY <1>2, <3>1 DEF Found
  <2> QED
    BY <2>1, <2>2, <2>3 DEF E!LeadsBack
<1> QED
  BY <1>1, <1>3, LibIs DEF Settled, Says, row

LEMMA ReimportHolds == WellKept(E!Lib) => E!ReimportIsNoOp
<1> SUFFICES ASSUME WellKept(E!Lib),
                    \A f \in E!all_films(E!Lib) :
                      E!LeadsBack(f) /\ f \in watchlist \cup watched
             PROVE  E!import_film_csv(E!Lib, E!export_film_csv(E!Lib)) = E!Lib
  BY DEF E!ReimportIsNoOp
<1> DEFINE file == E!export_film_csv(E!Lib)
<1>1. PICK n \in Nat :
        /\ DOMAIN file = 1..n
        /\ \A i \in 1..n : \E f \in E!all_films(E!Lib) : file[i] = E!RowOf(E!Lib, f)
  BY ExportIs
<1> HIDE DEF file
<1>2. \A f \in E!all_films(E!Lib) : f \in DOMAIN films
  BY LibIs DEF E!all_films, WellKept
<1>3. \A i \in 1..n : Settled(E!Lib, file[i])
  BY <1>1, <1>2, ExportedIsSettled
<1>4. E!import_film_csv(E!Lib, file) = E!Lib
  BY <1>1, <1>3, ImportOfSettled
<1> QED
  BY <1>4 DEF file

LEMMA FileIs ==
  ASSUME NEW file \in Files
  PROVE  \E n \in Nat : DOMAIN file = 1..n /\ \A i \in 1..n : file[i] \in E!Rows
  BY FilesAssumption

LEMMA ImportsHold == WellKept(E!Lib) => E!ImportsSettle
<1> SUFFICES ASSUME WellKept(E!Lib), NEW file \in Files
             PROVE  LET once == E!import_film_csv(E!Lib, file) IN
                    /\ \A f \in DOMAIN films :
                         rating[f] # None => once.rating[f] = rating[f]
                    /\ watched \subseteq once.watched
                    /\ E!ClearRows(file) => E!import_film_csv(once, file) = once
  BY DEF E!ImportsSettle
<1>1. PICK n \in Nat : DOMAIN file = 1..n /\ \A i \in 1..n : file[i] \in E!Rows
  BY FileIs
<1>2. Keeps(E!Lib, E!import_film_csv(E!Lib, file))
  BY <1>1, ImportKeeps
<1>3. ASSUME E!ClearRows(file)
      PROVE  LET once == E!import_film_csv(E!Lib, file) IN
             E!import_film_csv(once, file) = once
  <2>1. Apart(E!Lib, file) /\ Distinct(file)
    BY <1>3, LibIs DEF E!ClearRows, Apart, Distinct
  <2>2. \A i \in E!NamedRows(file) : file[i].tmdb + file[i].imdb + file[i].year > 0
    BY <1>3 DEF E!ClearRows
  <2> QED
    BY <1>1, <2>1, <2>2, ImportSettles
<1> QED
  BY <1>2, <1>3, LibIs DEF Keeps

LEMMA FilesInit == E!Init => WellKept(E!Lib)
<1> SUFFICES ASSUME E!Init PROVE WellKept(E!Lib)
  OBVIOUS
<1>1. /\ films = <<>> /\ rating = <<>> /\ watchlist = {} /\ watched = {}
      /\ commented = {}
  BY DEF E!Init
<1>2. /\ films \in Seq(FilmRows) /\ rating \in Seq(Ratings \cup {None})
      /\ DOMAIN films = {} /\ DOMAIN rating = {}
  BY <1>1
<1>3. E!Lib \in Libraries
  BY <1>1, <1>2 DEF E!Lib, Libraries
<1> QED
  BY <1>1, <1>2, <1>3, LibIs DEF WellKept

\* The same of the variables.
FilesKept ==
  /\ films \in Seq(FilmRows) /\ rating \in Seq(Ratings \cup {None})
  /\ watchlist \subseteq Nat /\ watched \subseteq Nat /\ commented \subseteq Nat
  /\ DOMAIN rating = DOMAIN films
  /\ watchlist \cup watched \cup commented \subseteq DOMAIN films
  /\ watchlist \cap watched = {}
  /\ \A f \in DOMAIN films :
       /\ rating[f] # None => f \in watched
       /\ \A g \in DOMAIN films :
            films[f].tmdb = films[g].tmdb /\ films[f].tmdb # 0 => f = g

LEMMA WellKeptIs == WellKept(E!Lib) <=> FilesKept
<1>1. E!Lib \in Libraries <=>
        /\ films \in Seq(FilmRows) /\ rating \in Seq(Ratings \cup {None})
        /\ watchlist \subseteq Nat /\ watched \subseteq Nat /\ commented \subseteq Nat
  BY DEF E!Lib, Libraries
<1> QED
  BY <1>1, LibIs DEF WellKept, FilesKept

LEMMA WellKeptNext == FilesKept' => WellKept(E!Lib)'
  BY WellKeptIs, PTL

LEMMA NewFilmKept ==
  ASSUME WellKept(E!Lib), NEW shape \in Shapes, E!NewFilm(shape)
  PROVE  WellKept(E!Lib)'
<1>1. /\ films \in Seq(FilmRows) /\ rating \in Seq(Ratings \cup {None})
      /\ DOMAIN rating = DOMAIN films
  BY WellKeptIs, WellKeptNext DEF FilesKept
<1>2. shape \in FilmRows
  BY FilesAssumption DEF FilmRows
<1>3. /\ films' = Append(films, shape) /\ rating' = Append(rating, None)
      /\ UNCHANGED <<watchlist, watched, commented>>
      /\ \A f \in DOMAIN films : shape.tmdb # 0 => films[f].tmdb # shape.tmdb
  BY DEF E!NewFilm
<1>4. /\ films' \in Seq(FilmRows) /\ Len(films') = Len(films) + 1
      /\ \A g \in 1..Len(films) : films'[g] = films[g]
      /\ films'[Len(films) + 1] = shape
  BY <1>1, <1>2, <1>3, AppendProperties
<1>5. /\ rating' \in Seq(Ratings \cup {None}) /\ Len(rating') = Len(rating) + 1
      /\ \A g \in 1..Len(rating) : rating'[g] = rating[g]
      /\ rating'[Len(rating) + 1] = None
  BY <1>1, <1>3, AppendProperties
<1>6. /\ DOMAIN films = 1..Len(films) /\ Len(films) \in Nat
      /\ DOMAIN rating = 1..Len(rating) /\ Len(rating) \in Nat
      /\ DOMAIN films' = 1..Len(films') /\ DOMAIN rating' = 1..Len(rating')
  BY <1>1, <1>4, <1>5, LenProperties
<1>7. /\ Len(rating) = Len(films) /\ DOMAIN rating' = DOMAIN films'
      /\ DOMAIN films' = DOMAIN films \cup {Len(films) + 1}
      /\ Len(films) + 1 \notin DOMAIN films
  BY <1>1, <1>4, <1>5, <1>6
<1>8. \A f \in DOMAIN films' : rating'[f] # None => f \in watched'
  BY <1>3, <1>5, <1>6, <1>7, WellKeptIs, WellKeptNext DEF FilesKept
<1>9. \A f, g \in DOMAIN films' :
        films'[f].tmdb = films'[g].tmdb /\ films'[f].tmdb # 0 => f = g
  BY <1>3, <1>4, <1>6, <1>7, WellKeptIs, WellKeptNext DEF FilesKept
<1> QED
  BY <1>3, <1>4, <1>5, <1>7, <1>8, <1>9, WellKeptIs, WellKeptNext DEF FilesKept

LEMMA BecomesIs ==
  ASSUME NEW lib, Five(lib), E!Becomes(lib)
  PROVE  E!Lib' = lib
  BY DEF E!Becomes, E!Lib, Five

LEMMA FilesStep == WellKept(E!Lib) /\ E!Next => WellKept(E!Lib)'
<1> SUFFICES ASSUME WellKept(E!Lib), E!Next PROVE WellKept(E!Lib)'
  OBVIOUS
<1>1. /\ films \in Seq(FilmRows) /\ rating \in Seq(Ratings \cup {None})
      /\ DOMAIN rating = DOMAIN films /\ DOMAIN films \subseteq Nat
  BY WellKeptIs, WellKeptNext DEF FilesKept
<1>2. CASE \E shape \in Shapes : E!NewFilm(shape)
  BY <1>2, NewFilmKept
<1>3. ASSUME NEW f \in DOMAIN films, E!Shelve(f) PROVE WellKept(E!Lib)'
  <2>1. CASE f \in watched
    <3>1. E!Becomes(E!Lib)
      BY <1>3, <2>1, LibIs DEF E!Shelve, E!Shelved
    <3> QED
      BY <3>1, LibIs, BecomesIs
  <2>2. CASE f \notin watched
    <3> DEFINE new == [E!Lib EXCEPT !.watchlist = watchlist \cup {f}]
    <3>1. E!Becomes(new)
      BY <1>3, <2>2, LibIs DEF E!Shelve, E!Shelved
    <3>2. new = [films |-> films, watchlist |-> watchlist \cup {f},
                 watched |-> watched, rating |-> rating, commented |-> commented]
      BY LibIs, Fields
    <3> HIDE DEF new
    <3>3. /\ films' = films /\ rating' = rating /\ commented' = commented
          /\ watched' = watched /\ watchlist' = watchlist \cup {f}
      BY <3>1, <3>2 DEF E!Becomes
    <3> QED
      BY <1>1, <2>2, <3>3, WellKeptIs, WellKeptNext DEF FilesKept
  <2> QED
    BY <2>1, <2>2
<1>4. ASSUME NEW f \in DOMAIN films, E!Unshelve(f) PROVE WellKept(E!Lib)'
  BY <1>1, <1>4, WellKeptIs, WellKeptNext DEF FilesKept, E!Unshelve
<1>5. ASSUME NEW f \in DOMAIN films, NEW stars \in Ratings, E!Finish(f, stars)
      PROVE  WellKept(E!Lib)'
  <2>1. /\ films' = films /\ commented' = commented
        /\ watched' = watched \cup {f} /\ watchlist' = watchlist \ {f}
        /\ rating' = [rating EXCEPT ![f] = stars]
    BY <1>5, LibIs DEF E!Finish, E!Becomes, E!Lib
  <2>2. /\ rating' \in Seq(Ratings \cup {None}) /\ DOMAIN rating' = DOMAIN rating
        /\ \A g \in DOMAIN rating \ {f} : rating'[g] = rating[g]
    BY <1>1, <2>1
  <2> QED
    BY <1>1, <2>1, <2>2, WellKeptIs, WellKeptNext DEF FilesKept
<1>6. ASSUME NEW f \in DOMAIN films, E!DeleteReview(f) PROVE WellKept(E!Lib)'
  <2>1. /\ UNCHANGED <<films, watchlist, watched, commented>>
        /\ rating' = [rating EXCEPT ![f] = None]
    BY <1>6 DEF E!DeleteReview
  <2>2. /\ rating' \in Seq(Ratings \cup {None}) /\ DOMAIN rating' = DOMAIN rating
        /\ rating'[f] = None
        /\ \A g \in DOMAIN rating \ {f} : rating'[g] = rating[g]
    BY <1>1, <2>1
  <2> QED
    BY <1>1, <2>1, <2>2, WellKeptIs, WellKeptNext DEF FilesKept
<1>7. ASSUME NEW f \in DOMAIN films, E!Comment(f) PROVE WellKept(E!Lib)'
  BY <1>1, <1>7, WellKeptIs, WellKeptNext DEF FilesKept, E!Comment
<1>8. ASSUME NEW file \in Files, E!Import(file) PROVE WellKept(E!Lib)'
  <2>1. WellKept(E!import_film_csv(E!Lib, file))
    BY FileIs, ImportKeeps
  <2>2. Five(E!import_film_csv(E!Lib, file))
    BY <2>1 DEF WellKept, Libraries, Five
  <2>3. E!Lib' = E!import_film_csv(E!Lib, file)
    BY <1>8, <2>2, BecomesIs DEF E!Import
  <2> QED
    BY <2>1, <2>3
<1> QED
  BY <1>2, <1>3, <1>4, <1>5, <1>6, <1>7, <1>8 DEF E!Next

LEMMA FilesKeep == SiteSpec => [](area = "files" => WellKept(E!Lib))
<1> DEFINE Kept == area = "files" => WellKept(E!Lib)
<1>1. SiteInit => Kept
  BY FilesInit DEF SiteInit
<1>2. Kept /\ [SiteNext]_<<vars, lists, accounts, merges, files, area>> => Kept'
  <2>1. ASSUME Kept, area = "files", E!Next, UNCHANGED area PROVE Kept'
    BY <2>1, FilesStep
  <2>2. ASSUME Kept, UNCHANGED <<files, area>> PROVE Kept'
    <3>1. E!Lib' = E!Lib
      BY <2>2 DEF files, E!Lib
    <3> QED
      BY <2>2, <3>1
  <2>3. ASSUME Kept, SiteNext PROVE Kept'
    BY <2>1, <2>2, <2>3 DEF SiteNext
  <2> QED
    BY <2>2, <2>3
<1> QED
  BY <1>1, <1>2, PTL DEF SiteSpec

\* What a member exports can be imported again, a file can be imported twice, and
\* no import changes a rating or takes a film off Watched: of any library and for
\* any file, however long, of which the property makes its promise.
THEOREM FilesHold == SiteSpec => []FilesAreSafe
<1>1. (area = "files" => WellKept(E!Lib)) => FilesAreSafe
  BY ReimportHolds, ImportsHold DEF FilesAreSafe, E!FilesAreSafe
<1> QED
  BY <1>1, FilesKeep, PTL

-----------------------------------------------------------------------------
(* Types                                                                     *)

\* What the types say of the rows of films: a TMDB id is on one, and an id
\* without a row has nothing.
Rowed ==
  /\ \A f, g \in live : key[f] = key[g] /\ key[f] # None => f = g
  /\ \A f \in Films \ live : rows3[f] = {} /\ key[f] = None
  /\ lapses \subseteq {"revived", "crossed"} /\ begun \in 0..MaxBegun

LEMMA RowedInit == M!Init => Rowed
  BY SiteAssumption DEF M!Init, Rowed

LEMMA PutsAreRowed ==
  ASSUME MergeInv, Rowed, NEW r \in Requests, NEW places \in SUBSET M!Places,
         M!Puts(r, places)
  PROVE  Rowed'
<1>1. rows3 \in [Films -> SUBSET M!Places]
  BY DEF MergeInv, MergeShape
<1>2. PICK f : f = req3[r].film
  OBVIOUS
<1>3. \/ M!Fails(r)
      \/ /\ f \in live /\ rows3' = [rows3 EXCEPT ![f] = rows3[f] \cup places]
         /\ UNCHANGED <<live, key, lapses>>
  BY <1>2 DEF M!Puts
<1>4. begun' = begun
  BY DEF M!Puts
<1> QED
  BY <1>1, <1>3, <1>4 DEF M!Fails, Rowed

LEMMA RowedStep ==
  ASSUME MergeInv, Rowed, M!Next PROVE Rowed'
<1>1. /\ MergeShape /\ live \subseteq Films /\ key \in [Films -> Keys \cup {None}]
      /\ rows3 \in [Films -> SUBSET M!Places]
      /\ req3 \in [Requests -> Wishes] /\ \A q \in Requests : Merging(req3[q])
  BY DEF MergeInv, MergeShape
<1>2. \A n : n = begun + 1 /\ begun < MaxBegun => n \in 0..MaxBegun
  BY SiteAssumption DEF Rowed
<1>3. ASSUME NEW r \in Requests, M!shelve(r) \/ M!film_block(r) PROVE Rowed'
  <2>1. {"watchlist"} \in SUBSET M!Places /\ {"block"} \in SUBSET M!Places
    BY DEF M!Places
  <2> QED
    BY <1>3, <2>1, PutsAreRowed DEF M!shelve, M!film_block
<1>4. ASSUME NEW r \in Requests, M!mark_watched(r) PROVE Rowed'
  <2>1. PICK f : f = req3[r].film
    OBVIOUS
  <2>2. \/ M!Fails(r)
        \/ /\ f \in live
           /\ rows3' = [rows3 EXCEPT ![f] =
                (rows3[f] \ {"watchlist"}) \cup {"watched", "review"}]
           /\ lapses' \subseteq lapses \cup {"crossed"}
           /\ UNCHANGED <<live, key>>
    BY <1>4, <2>1 DEF M!mark_watched
  <2>3. begun' = begun
    BY <1>4 DEF M!mark_watched
  <2> QED
    BY <1>1, <2>2, <2>3 DEF M!Fails, Rowed
<1>5. ASSUME NEW r \in Requests, M!TakesOff(r) PROVE Rowed'
  <2>1. PICK f, p : f = req3[r].film /\ rows3' = [rows3 EXCEPT ![f] = rows3[f] \ {p}]
                    /\ lapses' \subseteq lapses \cup {"crossed"}
                    /\ UNCHANGED <<live, key, begun>>
    BY <1>5 DEF M!TakesOff
  <2>2. \A g \in Films : rows3[g] = {} => rows3'[g] = {}
    BY <1>1, <2>1
  <2> QED
    BY <2>1, <2>2 DEF Rowed
<1>6. ASSUME NEW r \in Requests,
             \/ \E id \in Films : M!Opens(r, id)
             \/ \E gone \in SUBSET Films, c \in Films : M!merge_films(r, gone, c)
             \/ \E f \in Films, k \in Keys \cup {None} : M!FillLoads(r, f, k)
      PROVE  Rowed'
  <2>1. M!Begins(r) /\ UNCHANGED <<live, key, rows3, lapses>>
    <3>1. \A id : M!Opens(r, id) => M!Begins(r) /\ UNCHANGED <<live, key, rows3, lapses>>
      BY DEF M!Opens
    <3>2. \A gone, c : M!merge_films(r, gone, c) =>
            M!Begins(r) /\ UNCHANGED <<live, key, rows3, lapses>>
      BY DEF M!merge_films
    <3>3. \A f, k : M!FillLoads(r, f, k) =>
            M!Begins(r) /\ UNCHANGED <<live, key, rows3, lapses>>
      BY DEF M!FillLoads
    <3> QED
      BY <1>6, <3>1, <3>2, <3>3
  <2>2. begun' \in 0..MaxBegun
    BY <1>2, <2>1 DEF M!Begins
  <2> QED
    BY <2>1, <2>2 DEF Rowed
<1>7. ASSUME NEW r \in Requests, M!Repoint(r) \/ M!Rollback(r) PROVE Rowed'
  <2>1. UNCHANGED <<live, key, rows3, lapses, begun>>
    BY <1>7 DEF M!Repoint, M!Rollback, M!Fails
  <2> QED
    BY <2>1 DEF Rowed
<1>8. ASSUME NEW r \in Requests, M!Commit(r) PROVE Rowed'
  <2>1. PICK c, gone, k : c = req3[r].film /\ gone = req3[r].absorbed
                          /\ k = req3[r].key
    OBVIOUS
  <2>2. /\ live' = (live \ gone) \cup {c}
        /\ key' = [f \in Films |-> IF f = c THEN k
                                   ELSE IF f \in gone THEN None ELSE key[f]]
        /\ \A f \in Films : f # c =>
             rows3'[f] = IF f \in gone THEN {} ELSE rows3[f]
        /\ lapses' \subseteq lapses \cup {"revived", "crossed"}
        /\ ~M!Taken(k, gone \cup {c}) /\ UNCHANGED begun
    BY <1>8, <2>1 DEF M!Commit
  <2>3. c \in Films /\ c \notin gone /\ gone \subseteq Films
    BY <1>1, <1>8, <2>1 DEF M!Commit, M!At, Merging, Wishes
  <2>4. \A f, g \in live' : key'[f] = key'[g] /\ key'[f] # None => f = g
    BY <1>1, <2>2, <2>3 DEF M!Taken, Rowed
  <2>5. \A f \in Films \ live' : rows3'[f] = {} /\ key'[f] = None
    BY <1>1, <2>2, <2>3 DEF Rowed
  <2> QED
    BY <2>2, <2>4, <2>5 DEF Rowed
<1>9. ASSUME NEW r \in Requests, M!FillSaves(r) PROVE Rowed'
  <2>1. PICK f, k : f = req3[r].film /\ k = req3[r].key
    OBVIOUS
  <2>2. f \in Films
    BY <1>1, <1>9, <2>1 DEF M!FillSaves, M!At, Merging
  <2>3. \/ M!Fails(r)
        \/ /\ ~M!Taken(k, {f})
           /\ live' = live \cup {f} /\ key' = [key EXCEPT ![f] = k]
           /\ lapses' \subseteq lapses \cup {"revived"} /\ UNCHANGED rows3
    BY <1>9, <2>1 DEF M!FillSaves
  <2>4. begun' = begun
    BY <1>9 DEF M!FillSaves
  <2>5. CASE M!Fails(r)
    BY <2>4, <2>5 DEF M!Fails, Rowed
  <2>6. CASE ~M!Fails(r)
    <3>1. \A g \in Films : key'[g] = IF g = f THEN k ELSE key[g]
      BY <1>1, <2>2, <2>3, <2>6
    <3>2. k # None => \A g \in live \ {f} : key[g] # k
      BY <2>3, <2>6 DEF M!Taken
    <3>3. \A g, h \in live' : key'[g] = key'[h] /\ key'[g] # None => g = h
      BY <1>1, <2>2, <2>3, <2>6, <3>1, <3>2 DEF Rowed
    <3>4. \A g \in Films \ live' : rows3'[g] = {} /\ key'[g] = None
      BY <2>3, <2>6, <3>1 DEF Rowed
    <3> QED
      BY <2>3, <2>4, <2>6, <3>3, <3>4 DEF Rowed
  <2> QED
    BY <2>5, <2>6
<1>10. ASSUME NEW f \in Films, NEW k \in Keys \cup {None}, M!NewFilm(f, k)
       PROVE  Rowed'
  BY <1>1, <1>10 DEF M!NewFilm, M!Taken, Rowed
<1> QED
  BY <1>3, <1>4, <1>5, <1>6, <1>7, <1>8, <1>9, <1>10 DEF M!Next

LEMMA RowedKeeps == SiteSpec => [](area = "merges" => Rowed)
<1> DEFINE Before == area = "merges" => MergeInv
           Good == area = "merges" => Rowed
<1>1. SiteInit => Good
  BY RowedInit DEF SiteInit
<1>2. Before /\ Good
      /\ [SiteNext]_<<vars, lists, accounts, merges, files, area>> => Good'
  <2>1. ASSUME Before, Good, area = "merges", M!Next, UNCHANGED area PROVE Good'
    BY <2>1, RowedStep
  <2>2. ASSUME Good, UNCHANGED <<merges, area>> PROVE Good'
    BY <2>2 DEF merges, Rowed
  <2>3. ASSUME Before, Good, SiteNext PROVE Good'
    BY <2>1, <2>2, <2>3 DEF SiteNext
  <2> QED
    BY <2>2, <2>3
<1> QED
  BY <1>1, <1>2, MergesKeep, PTL DEF SiteSpec

\* In every reachable state of every area, each variable has the values that its
\* module gives it.
THEOREM SiteIsTyped == SiteSpec => []SiteTyped
<1>1. ListInv => L!TypeOK
  BY DEF ListInv, ListShape, RowsOnce, Editing, L!TypeOK
<1>2. AccountInv => A!TypeOK
  <2>1. ASSUME AccountInv, NEW r \in Requests
        PROVE  /\ req1[r].op \in {"none", "resend", "reset", "verify", "redeem",
                                  "profile", "admin"}
               /\ req1[r].at \in {"idle", "checked", "minting"}
               /\ req1[r].on \in A!Links \cup Addresses \cup {"none"}
               /\ req1[r].saw \in A!Rows \cup {A!NoRow}
               /\ req1[r].takes \subseteq {t \in A!Links : link[t].state # "unborn"}
    <3>1. PICK j \in Asking : j = req1[r] /\ Sensible(j)
      BY <2>1 DEF AccountInv, AccountShape
    <3> QED
      BY <3>1 DEF Asking, Sensible
  <2> QED
    BY <2>1 DEF AccountInv, AccountShape, Token, A!TypeOK
<1>3. MergeInv /\ Rowed => M!TypeOK
  BY DEF MergeInv, MergeShape, Wishes, Rowed, M!TypeOK
<1>4. WellKept(E!Lib) => E!TypeOK
  <2> SUFFICES ASSUME FilesKept PROVE E!TypeOK
    BY WellKeptIs
  <2>1. rating \in [DOMAIN films -> Ratings \cup {None}]
    <3>1. rating \in [DOMAIN rating -> Ratings \cup {None}]
      BY DEF FilesKept
    <3> QED
      BY <3>1 DEF FilesKept
  <2> QED
    BY <2>1, FilesAssumption DEF FilesKept, FilmRows, E!TypeOK
<1>5. SiteSpec => Spec
  <2>1. SiteInit => Init
    BY DEF SiteInit
  <2>2. [SiteNext]_<<vars, lists, accounts, merges, files, area>> => [Next]_vars
    BY DEF SiteNext, vars
  <2> QED
    BY <2>1, <2>2, PTL DEF SiteSpec, Spec
<1> QED
  BY <1>1, <1>2, <1>3, <1>4, <1>5, BudgetsHold, ListsKeep, AccountsKeep, MergesKeep,
     RowedKeeps, FilesKeep, PTL DEF SiteTyped
=============================================================================
