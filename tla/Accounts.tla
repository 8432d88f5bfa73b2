------------------------------ MODULE Accounts ------------------------------
(* One member's account: its address, its password, and the links mailed to  *)
(* that address.                                                             *)
(*                                                                           *)
(* A link is minted by a task, and clicked; minting a new one        *)
(* supersedes the live one of its kind, and clicking it spends it.  Most     *)
(* requests write the columns they decide.  The member's profile page and    *)
(* the admin's account page save the whole row they loaded.                  *)
EXTENDS Naturals

CONSTANTS
  Requests,       \* requests that can be open at once
  Verifications,  \* the verification links there can be
  Resets,         \* the reset links there can be
  Addresses,      \* addresses the account can have
  MaxUnasked      \* bound: failed mails, expiries, admin and moderator acts

VARIABLES
  account,  \* the committed row
  meant,    \* history: the row as each operation's own columns make it
  link,     \* each token: its state and the address it was minted for
  recent,   \* tokens that keep their address in the resend cooldown
  spent,    \* history: how often each token was accepted, 2 for more
  req,      \* each request: what it does and what it has read
  met,      \* history: the overlaps there have been
  unasked   \* bound's counter

vars == <<account, meant, link, recent, spent, req, met, unasked>>

Links == Verifications \cup Resets
Kind(t) == IF t \in Resets THEN Resets ELSE Verifications

Rows == [email : Addresses, proven : Addresses \cup {"none"},
         password : Resets \cup {"first", "admin"}, barred : BOOLEAN]

\* email_verified compares the two addresses, so a change of address undoes it.
EmailVerified(row) == row.proven = row.email
CanSignIn(row) == EmailVerified(row) /\ ~row.barred

\* Used, superseded and expired links are all "dead".
Live(kind) == {t \in kind : link[t].state = "live"}

\* A request at rest.  `saw` is the row it loaded, `takes` the live tokens its
\* open transaction supersedes.
NoRow == [email |-> "none", proven |-> "none", password |-> "first",
          barred |-> FALSE]
Idle == [op |-> "none", at |-> "idle", on |-> "none", saw |-> NoRow,
         takes |-> {}]

TypeOK ==
  /\ account \in Rows /\ meant \in Rows
  /\ link \in [Links -> [state : {"unborn", "live", "dead"},
                         to : Addresses \cup {"none"}]]
  /\ recent \subseteq {t \in Links : link[t].state # "unborn"}
  /\ spent \in [Links -> 0..2]
  /\ \A r \in Requests :
       /\ req[r].op \in {"none", "resend", "reset", "verify", "redeem",
                         "profile", "admin"}
       /\ req[r].at \in {"idle", "checked", "minting"}
       /\ req[r].on \in Links \cup Addresses \cup {"none"}
       /\ req[r].saw \in Rows \cup {NoRow}
       /\ req[r].takes \subseteq {t \in Links : link[t].state # "unborn"}
  /\ met \subseteq {"stale_row", "two_resets"}
  /\ unasked \in 0..MaxUnasked

\* An account as sign-up leaves it: one link minted.
Init ==
  \E a \in Addresses, v \in Verifications :
    /\ account = [email |-> a, proven |-> "none", password |-> "first",
                  barred |-> FALSE]
    /\ meant = account
    /\ link = [t \in Links |-> IF t = v THEN [state |-> "live", to |-> a]
                               ELSE [state |-> "unborn", to |-> "none"]]
    /\ recent = {v}
    /\ spent = [t \in Links |-> 0]
    /\ req = [r \in Requests |-> Idle]
    /\ met = {}
    /\ unasked = 0

At(r, op, at) == req[r].op = op /\ req[r].at = at
Ends(r) == req' = [req EXCEPT ![r] = Idle]
Unasked == unasked < MaxUnasked /\ unasked' = unasked + 1
Goes(r, op, at, on, saw, takes) ==
  req' = [req EXCEPT ![r] = [op |-> op, at |-> at, on |-> on, saw |-> saw,
                             takes |-> takes]]

\* Row locks on tokens: a click holds its own, a mint those it supersedes.
Locked(t) == \E r \in Requests :
  \/ req[r].op \in {"verify", "redeem"} /\ req[r].on = t
  \/ t \in req[r].takes

\* The lock on the account's row, which a resend holds while it mints.
RowLocked == \E r \in Requests : At(r, "resend", "minting")

\* An operation's own columns, in the row and in what was meant.
Writes(columns) == account' = columns[account] /\ meant' = columns[meant]

\* A whole row as it was loaded, with the operation's own columns changed.
SavesRow(saw, columns) ==
  /\ account' = columns[saw]
  /\ meant' = columns[meant]
  /\ met' = IF saw = account THEN met ELSE met \cup {"stale_row"}

-----------------------------------------------------------------------------
(* Minting and mailing                                                       *)

InCooldown(kind) == \E t \in kind \cap recent : link[t].to = account.email

\* SingleUseToken.mint: the live tokens it saw are superseded, the new one is
\* for the address on the row it was given.
Minted(new, to, takes) ==
  /\ \A t \in new : link[t].state = "unborn"
  /\ link' = [t \in Links |->
       IF t \in new THEN [state |-> "live", to |-> to]
       ELSE IF t \in takes THEN [link[t] EXCEPT !.state = "dead"] ELSE link[t]]
  /\ recent' = recent \cup new

\* request_resend looks at the cooldown under the account's lock.
RequestResend(r) ==
  /\ req[r] = Idle
  /\ ~RowLocked
  /\ ~InCooldown(Verifications)
  /\ \A t \in Live(Verifications) : ~Locked(t)
  /\ Goes(r, "resend", "minting", "none", account, Live(Verifications))
  /\ UNCHANGED <<account, meant, link, recent, spent, met, unasked>>

\* request_reset looks at the account, its verified address and the cooldown
\* with no lock at all.
RequestReset(r) ==
  /\ req[r] = Idle
  /\ EmailVerified(account)
  /\ ~InCooldown(Resets)
  /\ Goes(r, "reset", "checked", "none", account, {})
  /\ UNCHANGED <<account, meant, link, recent, spent, met, unasked>>

\* The mint's UPDATE: it sees committed tokens only.
Supersede(r) ==
  /\ At(r, "reset", "checked")
  /\ \A t \in Live(Resets) : ~Locked(t)
  /\ Goes(r, "reset", "minting", "none", req[r].saw, Live(Resets))
  /\ met' = IF \E q \in Requests : At(q, "reset", "minting")
              THEN met \cup {"two_resets"} ELSE met
  /\ UNCHANGED <<account, meant, link, recent, spent, unasked>>

\* Slip: the tokens that were live stay live.
Mint_KeepsOld(r, new) ==
  /\ req[r].at = "minting"
  /\ new \in IF req[r].op = "reset" THEN Resets ELSE Verifications
  /\ Minted({new}, req[r].saw.email, {})
  /\ Ends(r)
  /\ UNCHANGED <<account, meant, spent, met, unasked>>

\* The mint commits, and its mail is enqueued.
Mint(r, new) ==
  /\ req[r].at = "minting"
  /\ new \in IF req[r].op = "reset" THEN Resets ELSE Verifications
  /\ Minted({new}, req[r].saw.email, req[r].takes)
  /\ Ends(r)
  /\ UNCHANGED <<account, meant, spent, met, unasked>>

\* The queue runs a task at least once, and the task asks nothing of the token:
\* the link is there to click from its minting on, early, late or never.  An
\* attempt that failed is noted on the token, and its cooldown ends.
MailFails(t) ==
  /\ t \in recent /\ Unasked
  /\ recent' = recent \ {t}
  /\ UNCHANGED <<account, meant, link, spent, req, met>>

Expires(t) ==
  /\ t \in Live(Links)
  /\ Unasked
  /\ link' = [link EXCEPT ![t].state = "dead"]
  /\ UNCHANGED <<account, meant, recent, spent, req, met>>

-----------------------------------------------------------------------------
(* Clicking                                                                  *)

\* lock_live: the token's row, if the token is live.
LockLive(t) == t \in Live(Links) /\ ~Locked(t)

Spend(t) ==
  /\ link' = [link EXCEPT ![t].state = "dead"]
  /\ spent' = [spent EXCEPT ![t] = IF @ = 0 THEN 1 ELSE 2]

\* Either link is for the address it was sent to: elsewhere it does nothing.
Click(r, t) ==
  /\ req[r] = Idle
  /\ LockLive(t)
  /\ link[t].to = account.email
  /\ Goes(r, IF t \in Resets THEN "redeem" ELSE "verify", "checked", t,
          account, {})
  /\ UNCHANGED <<account, meant, link, recent, spent, met, unasked>>

\* EmailVerificationToken.consume saves the token and two columns.
Consume(r) ==
  /\ At(r, "verify", "checked") /\ ~RowLocked
  /\ Spend(req[r].on)
  /\ Writes([row \in Rows |-> [row EXCEPT !.proven = link[req[r].on].to]])
  /\ Ends(r)
  /\ UNCHANGED <<recent, met, unasked>>

\* Slip: set_password saves the row it was given.
CompleteReset_WholeRow(r) ==
  /\ At(r, "redeem", "checked") /\ ~RowLocked
  /\ Spend(req[r].on)
  /\ account' = [req[r].saw EXCEPT !.password = req[r].on]
  /\ meant' = [meant EXCEPT !.password = req[r].on]
  /\ Ends(r)
  /\ UNCHANGED <<recent, met, unasked>>

\* complete_reset: set_password saves one column, then the token is used.
CompleteReset(r) ==
  /\ At(r, "redeem", "checked") /\ ~RowLocked
  /\ Spend(req[r].on)
  /\ Writes([row \in Rows |-> [row EXCEPT !.password = req[r].on]])
  /\ Ends(r)
  /\ UNCHANGED <<recent, met, unasked>>

-----------------------------------------------------------------------------
(* The pages that save the whole row, and the moderator                      *)

\* The session's user is loaded if it may still sign in.
ProfilePage(r) ==
  /\ req[r] = Idle
  /\ CanSignIn(account)
  /\ Goes(r, "profile", "checked", "none", account, {})
  /\ UNCHANGED <<account, meant, link, recent, spent, met, unasked>>

SaveProfile(r) ==
  /\ At(r, "profile", "checked") /\ ~RowLocked
  /\ SavesRow(req[r].saw, [row \in Rows |-> row])
  /\ Ends(r)
  /\ UNCHANGED <<link, recent, spent, unasked>>

\* An admin submits the account's page, with this address.
AdminPage(r, address) ==
  /\ req[r] = Idle /\ Unasked
  /\ Goes(r, "admin", "checked", address, account, {})
  /\ UNCHANGED <<account, meant, link, recent, spent, met>>

\* The address and the password that an admin's page decides.
Moves(r) == req[r].on # req[r].saw.email
Decides(r, typed) == [row \in Rows |->
  [row EXCEPT !.email = IF Moves(r) THEN req[r].on ELSE row.email,
              !.password = IF typed THEN "admin" ELSE row.password]]

\* save_model: the row; then change_email, which supersedes the verification
\* links of the old address and leaves the reset links; then the new password,
\* if one was typed; then a new verification link, if one was asked for and the
\* address is not verified.  The row's lock makes them one step.
AdminSaves(r, typed, sent) ==
  /\ At(r, "admin", "checked") /\ ~RowLocked
  /\ SavesRow(req[r].saw, Decides(r, typed))
  /\ sent # {} => ~EmailVerified(Decides(r, typed)[req[r].saw])
  /\ LET closed == IF Moves(r) \/ sent # {} THEN Live(Verifications) ELSE {}
     IN /\ \A t \in closed : ~Locked(t)
        /\ Minted(sent, req[r].on, closed)
  /\ Ends(r)
  /\ UNCHANGED <<spent, unasked>>

\* A suspension or a ban, and their lifting, save their own columns.
Moderate ==
  /\ ~RowLocked /\ Unasked
  /\ Writes([row \in Rows |-> [row EXCEPT !.barred = ~account.barred]])
  /\ UNCHANGED <<link, recent, spent, req, met>>

-----------------------------------------------------------------------------
Next ==
  \/ \E r \in Requests :
       \/ RequestResend(r)
       \/ RequestReset(r)
       \/ Supersede(r)
       \/ \E t \in Links : Mint(r, t) \/ Click(r, t)
       \/ Consume(r)
       \/ CompleteReset(r)
       \/ ProfilePage(r)
       \/ SaveProfile(r)
       \/ \E a \in Addresses : AdminPage(r, a)
       \/ \E typed \in BOOLEAN, sent \in {{}} \cup {{v} : v \in Verifications} :
            AdminSaves(r, typed, sent)
  \/ \E t \in Links : MailFails(t) \/ Expires(t)
  \/ Moderate

Spec == Init /\ [][Next]_vars

-----------------------------------------------------------------------------
(* Properties *)

\* A link works once, and only the newest of its kind works, through late mail,
\* double clicks and admins who send one more, unless two reset requests minted
\* at once: neither then saw the other's token.  And the account counts as
\* verified at no address but one where such a link was clicked.
LinksAreSound ==
  /\ \A t \in Links : spent[t] <= 1
  /\ \A s, t \in Live(Verifications) : s = t
  /\ "two_resets" \notin met => \A s, t \in Live(Resets) : s = t
  /\ account.proven # "none" =>
       \E t \in Verifications : spent[t] = 1 /\ link[t].to = account.proven

\* What a request decided about the account stands until another decides it
\* anew: no reset, verification, change of address or suspension takes another's
\* outcome back, unless a profile or an admin page saved a row that had changed
\* since it was loaded.
DecisionsStand == "stale_row" \notin met => account = meant
=============================================================================
