---------------------------- MODULE DomainBlocks ----------------------------
(* Blocking a remote server, refusing one remote account, and the door that  *)
(* both are meant to close.                                                  *)
(*                                                                           *)
(* A block is a row and a sweep: it suspends every mirror held from the host *)
(* in one transaction.  Lifting it restores what that sweep, and no other    *)
(* rule, hid.  Each moderator request reads the accounts first and saves     *)
(* what it read, whole fields at a time; nothing is locked.  Meanwhile       *)
(* deliveries and lookups make first contact: they look, fetch a document    *)
(* over the network, and then save a mirror.                                 *)
EXTENDS Naturals, FiniteSets

CONSTANTS
  Requests,  \* requests that can be open at once, each used again and again
  Domains,   \* hosts a moderator blocks
  Accounts,  \* remote accounts
  Under      \* for each domain, the accounts whose host is it or a subdomain

ASSUME DomainBlocksAssumption == Under \in [Domains -> SUBSET Accounts]

VARIABLES
  blocked,     \* committed DomainBlock rows, by domain
  held,        \* accounts with a mirror row
  suspension,  \* each mirror's suspension_origin, or "none"
  byHand,      \* history: mirrors a moderator unsuspended since their last hiding
  req,         \* each request: what it does and what it has read
  met          \* history: which kinds of request have overlapped

vars == <<blocked, held, suspension, byHand, req, met>>

Origins == {"none", "local", "domain_block"}
OnDomains == {"block", "unblock"}
OnAccounts == {"refuse", "unsuspend", "deliver", "lookup"}
Steps == {"read", "fetching", "checked", "found", "idle"}

\* The overlaps that the properties below except.
Clashes == {{"unblock"}, {"block", "unblock"}, {"block", "contact"},
            {"block", "refuse"}, {"unblock", "refuse"}}

\* A request at rest.  `saw` is what its reads decided: the mirrors to save, or
\* for a delivery the sender if it was suspended at the door.  `row` is whether
\* the block row an unblock loaded is still there.
Idle == [op |-> "none", on |-> "none", at |-> "idle", saw |-> {}, row |-> FALSE]

TypeOK ==
  /\ blocked \subseteq Domains
  /\ held \subseteq Accounts
  /\ suspension \in [Accounts -> Origins]
  /\ \A a \in Accounts \ held : suspension[a] = "none"
  /\ byHand \subseteq {a \in held : suspension[a] = "none"}
  /\ req \in [Requests ->
       [op : OnDomains \cup OnAccounts \cup {"none"},
        on : Domains \cup Accounts \cup {"none"},
        at : Steps, saw : SUBSET Accounts, row : BOOLEAN]]
  /\ met \subseteq Clashes

Init ==
  /\ blocked = {}
  /\ held = {}
  /\ suspension = [a \in Accounts |-> "none"]
  /\ byHand = {}
  /\ req = [r \in Requests |-> Idle]
  /\ met = {}

\* blocked_domain_for: a rule covers its own host and every host below it.
Covered(rules) == UNION {Under[d] : d \in rules}

Kind(op) == IF op \in {"deliver", "lookup"} THEN "contact" ELSE op

Busy == {r \in Requests : req[r].op # "none"}
At(r, op, at) == req[r].op = op /\ req[r].at = at
Goes(r, at, saw) == req' = [req EXCEPT ![r].at = at, ![r].saw = saw]
Ends(r) == req' = [req EXCEPT ![r] = Idle]

\* A request's first read: it ends there, or goes on with what it has seen.
Begins(r, op, on, goesOn, at, saw) ==
  /\ r \notin Busy
  /\ goesOn
  /\ req' = [req EXCEPT ![r] = [op |-> op, on |-> on, at |-> at, saw |-> saw,
                               row |-> op = "unblock"]]
  /\ met' = met \cup ({{Kind(op), Kind(req[q].op)} : q \in Busy} \cap Clashes)
  /\ UNCHANGED <<blocked, held, suspension, byHand>>

\* User.suspend and User.unsuspend save the three suspension columns of the
\* rows that were read, whatever they hold by now.
SaveAll(who, origin) ==
  /\ suspension' = [a \in Accounts |-> IF a \in who THEN origin ELSE suspension[a]]
  /\ byHand' = byHand \ who

-----------------------------------------------------------------------------
(* The block and its lifting, each one transaction.                          *)

\* Refused when the domain is blocked.  The row of another open transaction
\* makes the insert wait.  The sweep reads every mirror, then asks for each
\* that is not suspended whether any rule covers it.
BlockReads(r, d) ==
  /\ \A q \in Requests : At(q, "block", "read") => req[q].on # d
  /\ Begins(r, "block", d, d \notin blocked, "read",
            {a \in held \cap Covered(blocked \cup {d}) : suspension[a] = "none"})

BlockCommits(r) ==
  /\ At(r, "block", "read")
  /\ blocked' = blocked \cup {req[r].on}
  /\ SaveAll(req[r].saw, "domain_block")
  /\ Ends(r)
  /\ UNCHANGED <<held, met>>

\* Slip: the block that is lifted counts as a rule that stays.
Lifted_CountsItself(d) ==
  {a \in Under[d] \ Covered(blocked) : suspension[a] = "domain_block"}

\* Slip: the origin is not looked at.
Lifted_AnyOrigin(d) ==
  {a \in Under[d] \ Covered(blocked \ {d}) : suspension[a] # "none"}

\* Slip: the rules that stay are not looked at.
Lifted_OtherRules(d) == {a \in Under[d] : suspension[a] = "domain_block"}

\* What lifting d restores: what a block hid, under d and under no other rule.
Lifted(d) == {a \in Under[d] \ Covered(blocked \ {d}) :
                suspension[a] = "domain_block"}

UnblockReads(r, d) ==
  Begins(r, "unblock", d, d \in blocked, "read", Lifted(d))

\* The row is deleted by its key: once another request has deleted it, a block
\* made again of the same domain is another row and stays.
UnblockCommits(r) ==
  /\ At(r, "unblock", "read")
  /\ blocked' = IF req[r].row THEN blocked \ {req[r].on} ELSE blocked
  /\ SaveAll(req[r].saw, "none")
  /\ req' = [q \in Requests |->
       IF q = r THEN Idle
       ELSE IF req[q].on = req[r].on /\ req[r].row
         THEN [req[q] EXCEPT !.row = FALSE] ELSE req[q]]
  /\ UNCHANGED <<held, met>>

-----------------------------------------------------------------------------
(* One account: refused from a report, unsuspended from its profile.         *)

\* The account is loaded; nothing is done to one already (not) suspended.
LoadAccount(r, op, a) ==
  Begins(r, op, a,
         \/ op = "refuse" /\ a \in held /\ suspension[a] = "none"
         \/ op = "unsuspend" /\ suspension[a] # "none",
         "read", {a})

Refuse(r) ==
  /\ At(r, "refuse", "read")
  /\ SaveAll(req[r].saw, "local")
  /\ Ends(r)
  /\ UNCHANGED <<blocked, held, met>>

Unsuspend(r) ==
  /\ At(r, "unsuspend", "read")
  /\ suspension' = [suspension EXCEPT ![req[r].on] = "none"]
  /\ byHand' = byHand \cup {req[r].on}
  /\ Ends(r)
  /\ UNCHANGED <<blocked, held, met>>

-----------------------------------------------------------------------------
(* A delivery's sender, or an actor a member looks up or follows.            *)

\* _resolve_actor turns a blocked host away and takes a mirror that is not
\* suspended; one that is suspended is not found, and is fetched like a new one.
Door(r, a) ==
  IF a \in held /\ suspension[a] = "none"
    THEN Begins(r, "deliver", a, a \notin Covered(blocked), "found", {})
    ELSE Begins(r, "deliver", a, a \notin Covered(blocked), "fetching", {a} \cap held)

\* ensure_mirror has no door: any mirror held is the answer.
Lookup(r, a) ==
  Begins(r, "lookup", a, TRUE, IF a \in held THEN "found" ELSE "fetching", {})

FetchFails(r) ==
  /\ req[r].at = "fetching"
  /\ Ends(r)
  /\ UNCHANGED <<blocked, held, suspension, byHand, met>>

\* mirror_user_from_person: the mirror that is held, whatever its suspension;
\* or else the creation door.
Fetched(r) ==
  /\ req[r].at = "fetching"
  /\ LET a == req[r].on IN
     IF a \in held THEN Goes(r, "found", req[r].saw)
     ELSE IF a \in Covered(blocked) THEN Ends(r)
     ELSE Goes(r, "checked", {})
  /\ UNCHANGED <<blocked, held, suspension, byHand, met>>

\* The unique name makes the later of two first contacts fail.
SaveMirror(r) ==
  /\ req[r].at = "checked"
  /\ IF req[r].on \in held THEN Ends(r) ELSE Goes(r, "found", {})
  /\ held' = held \cup {req[r].on}
  /\ UNCHANGED <<blocked, suspension, byHand, met>>

\* The activity is processed, or the page shown.
Served(r) ==
  /\ req[r].at = "found"
  /\ Ends(r)
  /\ UNCHANGED <<blocked, held, suspension, byHand, met>>

-----------------------------------------------------------------------------
Next ==
  \E r \in Requests :
    \/ \E d \in Domains : BlockReads(r, d) \/ UnblockReads(r, d)
    \/ \E op \in OnAccounts, a \in Accounts : LoadAccount(r, op, a)
    \/ \E a \in Accounts : Door(r, a) \/ Lookup(r, a)
    \/ BlockCommits(r)
    \/ UnblockCommits(r)
    \/ Refuse(r)
    \/ Unsuspend(r)
    \/ FetchFails(r)
    \/ Fetched(r)
    \/ SaveMirror(r)
    \/ Served(r)

Spec == Init /\ [][Next]_vars

-----------------------------------------------------------------------------
(* Properties *)

Apart(clashes) == met \cap clashes = {}

\* Overlapping rules in any order leave nothing hidden behind: an account a block
\* hid is under a rule that stands, unless an unblock ran at once with another,
\* each counting on the other's row, or with a block, whose sweep counted on the
\* row the unblock took away.
HiddenHasARule ==
  Apart({{"unblock"}, {"block", "unblock"}}) =>
    \A a \in Accounts : suspension[a] = "domain_block" => a \in Covered(blocked)

\* Every mirror under a rule is hidden unless a moderator showed it by hand, or
\* the block ran at once with an unblock or with the first contact.
RuleHides ==
  Apart({{"block", "unblock"}, {"block", "contact"}}) =>
    \A a \in held \cap Covered(blocked) : suspension[a] # "none" \/ a \in byHand

\* A moderator's refusal of one account is ended by a moderator's hand on that
\* account and by nothing that happens to its server, unless a block or unblock
\* ran at once with the refusal.
RefusalOutlivesBlocks ==
  [][Apart({{"block", "refuse"}, {"unblock", "refuse"}}) =>
       \A a \in Accounts :
         suspension[a] = "local" /\ suspension'[a] # "local" =>
           \E r \in Requests : At(r, "unsuspend", "read") /\ req[r].on = a]_vars

-----------------------------------------------------------------------------
(* What documents say and the code does otherwise.                           *)

\* activitypub/mirrors.py:411-415: "A suspended account never resolves (R102)
\* ... their activity is refused at the door with a 401": no sender who was
\* suspended when the delivery came, and still is, is taken for its sender.
SuspendedNeverResolves ==
  \A r \in Requests :
    At(r, "deliver", "found") /\ req[r].saw # {} => suspension[req[r].on] = "none"
=============================================================================
