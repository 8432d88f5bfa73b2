------------------------------ MODULE Joining ------------------------------
(* The ways an account comes to be: the first-run setup, open sign-up, an    *)
(* invite; and the budgets that slow down whoever guesses at the door.       *)
(*                                                                           *)
(* A form is checked against the accounts there are, and the account is      *)
(* made afterwards; the unique name decides between two.  An invite's row is *)
(* locked from its check to the commit that spends it.                       *)
EXTENDS Naturals, FiniteSets

CONSTANTS
  Requests,  \* requests that can be open at once
  Names,     \* names and addresses an account can take
  Invites,   \* invites there can be
  Limit      \* attempts from one source before it is refused

\* How an account came to be can be told from the invites, and a limit lets one
\* attempt through.
ASSUME JoiningAssumption ==
  /\ Invites \cap {"none", "setup", "open"} = {}
  /\ IsFiniteSet(Requests)
  /\ Limit \in Nat \ {0}

VARIABLES
  invite,  \* each invite: "unborn", "live", "used" or "expired"
  via,     \* each name: "none", or how its account came to be
  tries,   \* attempts of the one source in the window, by surface
  req,     \* each request: what it does and what it names
  met      \* history: whether two setups have overlapped

vars == <<invite, via, tries, req, met>>

Surfaces == {"signup", "login"}
Forms == {"setup", "open", "invite"}

Idle == [op |-> "none", at |-> "idle", name |-> "none", code |-> "none"]

\* The budget is read before what it counts is written, so that it is exceeded
\* by the requests that are past the check, and by no more.
TypeOK ==
  /\ invite \in [Invites -> {"unborn", "live", "used", "expired"}]
  /\ via \in [Names -> {"none", "setup", "open"} \cup Invites]
  /\ tries \in [Surfaces -> 0..(Limit + Cardinality(Requests) - 1)]
  /\ req \in [Requests -> [op : Forms \cup {"login", "none"},
                           at : {"idle", "posted", "valid", "locked"},
                           name : Names \cup {"none"},
                           code : Invites \cup {"none"}]]
  /\ met \in BOOLEAN

Init ==
  /\ invite = [i \in Invites |-> "unborn"]
  /\ via = [n \in Names |-> "none"]
  /\ tries = [s \in Surfaces |-> 0]
  /\ req = [r \in Requests |-> Idle]
  /\ met = FALSE

Accounts == {n \in Names : via[n] # "none"}
HasAdmin == \E n \in Names : via[n] = "setup"

At(r, op, at) == req[r].op = op /\ req[r].at = at
Ends(r) == req' = [req EXCEPT ![r] = Idle]
Goes(r, op, at, name, code) ==
  req' = [req EXCEPT ![r] = [op |-> op, at |-> at, name |-> name,
                             code |-> code]]

\* Slip: one attempt more than the limit.
Blocked_OffByOne(surface) == tries[surface] > Limit

Blocked(surface) == tries[surface] >= Limit
Record(surface) == tries' = [tries EXCEPT ![surface] = @ + 1]

-----------------------------------------------------------------------------
(* The forms                                                                 *)

\* setup asks whether there is an admin; a name is free in a valid form.
Setup(r, n) ==
  /\ req[r] = Idle
  /\ ~HasAdmin /\ via[n] = "none"
  /\ Goes(r, "setup", "valid", n, "none")
  /\ met' = (met \/ \E q \in Requests : At(q, "setup", "valid"))
  /\ UNCHANGED <<invite, via, tries>>

\* signup looks at the budget...
Signup(r, n) ==
  /\ req[r] = Idle
  /\ HasAdmin /\ ~Blocked("signup")
  /\ Goes(r, "open", "posted", n, "none")
  /\ UNCHANGED <<invite, via, tries, met>>

\* ...and counts the form once it has been told whether the name is free.
ValidateSignup(r) ==
  /\ At(r, "open", "posted")
  /\ Record("signup")
  /\ IF req[r].name \in Accounts
       THEN Ends(r) ELSE Goes(r, "open", "valid", req[r].name, "none")
  /\ UNCHANGED <<invite, via, met>>

\* An invite's page takes any code there is; what is spent is told later.
AcceptInvite(r, i, n) ==
  /\ req[r] = Idle
  /\ invite[i] # "unborn" /\ via[n] = "none"
  /\ Goes(r, "invite", "valid", n, i)
  /\ UNCHANGED <<invite, via, tries, met>>

\* Slip: the invite is read without its lock.
LockLive_NoLock(r) ==
  /\ At(r, "invite", "valid")
  /\ LET i == req[r].code IN
     IF invite[i] = "live" THEN Goes(r, "invite", "locked", req[r].name, i)
                           ELSE Ends(r)
  /\ UNCHANGED <<invite, via, tries, met>>

\* Invite.lock_live waits for the transaction that holds the row.
LockLive(r) ==
  /\ At(r, "invite", "valid")
  /\ LET i == req[r].code IN
     /\ \A q \in Requests : ~(At(q, "invite", "locked") /\ req[q].code = i)
     /\ IF invite[i] = "live" THEN Goes(r, "invite", "locked", req[r].name, i)
                              ELSE Ends(r)
  /\ UNCHANGED <<invite, via, tries, met>>

\* create_user, once per name: the later of two is a 500, and gives an invite it
\* holds back.  The account and the invite's redemption commit as one.
CreateUser(r) ==
  /\ \/ req[r].op \in {"setup", "open"} /\ req[r].at = "valid"
     \/ At(r, "invite", "locked")
  /\ LET n == req[r].name
         made == n \notin Accounts
         how == IF req[r].op = "invite" THEN req[r].code ELSE req[r].op
     IN /\ via' = IF made THEN [via EXCEPT ![n] = how] ELSE via
        /\ invite' = IF made /\ how \in Invites
                       THEN [invite EXCEPT ![how] = "used"] ELSE invite
  /\ Ends(r)
  /\ UNCHANGED <<tries, met>>

\* The worker dies: an open transaction is rolled back.
Crash(r) ==
  /\ req[r].at \in {"posted", "valid", "locked"}
  /\ Ends(r)
  /\ UNCHANGED <<invite, via, tries, met>>

\* Invite.mint, for any member who may.
InviteCreate(i) ==
  /\ Accounts # {} /\ invite[i] = "unborn"
  /\ invite' = [invite EXCEPT ![i] = "live"]
  /\ UNCHANGED <<via, tries, req, met>>

InviteExpires(i) ==
  /\ invite[i] = "live"
  /\ invite' = [invite EXCEPT ![i] = "expired"]
  /\ UNCHANGED <<via, tries, req, met>>

-----------------------------------------------------------------------------
(* Signing in                                                                *)

LoginPosts(r) ==
  /\ req[r] = Idle
  /\ ~Blocked("login")
  /\ Goes(r, "login", "posted", "none", "none")
  /\ UNCHANGED <<invite, via, tries, met>>

LoginFails(r) ==
  /\ At(r, "login", "posted")
  /\ Record("login")
  /\ Ends(r)
  /\ UNCHANGED <<invite, via, met>>

\* A success clears its source's attempts.
LoginSucceeds(r) ==
  /\ At(r, "login", "posted") /\ Accounts # {}
  /\ tries' = [tries EXCEPT !["login"] = 0]
  /\ Ends(r)
  /\ UNCHANGED <<invite, via, met>>

\* An attempt leaves the window.
Forget(s) ==
  /\ tries[s] > 0
  /\ tries' = [tries EXCEPT ![s] = @ - 1]
  /\ UNCHANGED <<invite, via, req, met>>

-----------------------------------------------------------------------------
Next ==
  \/ \E r \in Requests :
       \/ \E n \in Names : Setup(r, n) \/ Signup(r, n)
       \/ \E i \in Invites, n \in Names : AcceptInvite(r, i, n)
       \/ ValidateSignup(r)
       \/ LockLive(r)
       \/ CreateUser(r)
       \/ Crash(r)
       \/ LoginPosts(r)
       \/ LoginFails(r)
       \/ LoginSucceeds(r)
  \/ \E i \in Invites : InviteCreate(i) \/ InviteExpires(i)
  \/ \E s \in Surfaces : Forget(s)

Spec == Init /\ [][Next]_vars

-----------------------------------------------------------------------------
(* Properties *)

\* Each way in opens once.  An invite is spent when one account was made by it,
\* and by no failed or overtaken sign-up, through double submits, taken names and
\* workers that die; and the first-run page makes one admin, unless it was
\* posted twice at once.
OneAccountPerDoor ==
  /\ \A i \in Invites : Cardinality({n \in Names : via[n] = i}) =
                          IF invite[i] = "used" THEN 1 ELSE 0
  /\ ~met => Cardinality({n \in Names : via[n] = "setup"}) <= 1
=============================================================================
