------------------------- MODULE DomainBlocksProofs -------------------------
(* The three promises of domain blocks and refusals, and the types, for any  *)
(* hosts, accounts and number of requests open at once.                      *)
(*                                                                           *)
(* Each promise rests on what an open request has read still being so when   *)
(* it commits, or else on the overlap that changed it having been noted      *)
(* (`BlocksNoted`).  There is one such statement for each promise:           *)
(* `RefusalsStay`, `HiddenStay` and `RulesStay`.  The types rest on requests *)
(* having read of mirrors that are held (`MirrorsOnly`).                     *)
EXTENDS DomainBlocks, TLAPS

ReqType == [op : OnDomains \cup OnAccounts \cup {"none"},
            on : Domains \cup Accounts \cup {"none"},
            at : Steps, saw : SUBSET Accounts, row : BOOLEAN]

Contacts == {"deliver", "lookup"}

BlocksTyped ==
  /\ blocked \subseteq Domains
  /\ held \subseteq Accounts
  /\ suspension \in [Accounts -> Origins]
  /\ req \in [Requests -> ReqType]
  /\ \A r \in Requests :
       /\ req[r].op \in OnDomains => req[r].on \in Domains
       /\ req[r].op \in OnAccounts => req[r].on \in Accounts
       /\ req[r].at \in {"fetching", "checked", "found"} => req[r].op \in Contacts

\* The overlaps of what is open have been noted.
BlocksNoted ==
  \A q, r \in Requests : q # r =>
    /\ req[q].op = "block" /\ req[r].op = "refuse" => {"block", "refuse"} \in met
    /\ req[q].op = "unblock" /\ req[r].op = "refuse"
         => {"unblock", "refuse"} \in met
    /\ req[q].op = "unblock" /\ req[r].op = "unblock" => {"unblock"} \in met
    /\ req[q].op = "block" /\ req[r].op = "unblock" => {"block", "unblock"} \in met
    /\ req[q].op = "block" /\ req[r].op \in Contacts => {"block", "contact"} \in met

\* What a block or unblock is about to save over is not a refusal.
RefusalsStay ==
  {"block", "refuse"} \notin met /\ {"unblock", "refuse"} \notin met =>
    \A r \in Requests : req[r].op \in OnDomains =>
      \A a \in req[r].saw : suspension[a] # "local"

\* What is hidden, or about to be, has a rule that stands; and an unblock has
\* seen all that only its own rule hides.
HiddenStay ==
  {"unblock"} \notin met /\ {"block", "unblock"} \notin met =>
    /\ \A a \in Accounts : suspension[a] = "domain_block" => a \in Covered(blocked)
    /\ \A r \in Requests : req[r].op = "block" =>
         \A a \in req[r].saw : a \in Covered(blocked) \/ a \in Covered({req[r].on})
    /\ \A r \in Requests : req[r].op = "unblock" =>
         /\ req[r].row
         /\ \A a \in Accounts : suspension[a] = "domain_block" =>
              a \in req[r].saw \/ a \in Covered(blocked \ {req[r].on})

\* Whatever a rule covers is hidden or shown by hand; a block has seen all that
\* it must hide, an unblock nothing that another rule covers, and what is about
\* to be mirrored is under no rule.
RulesStay ==
  {"block", "unblock"} \notin met /\ {"block", "contact"} \notin met =>
    /\ \A a \in held : a \in Covered(blocked) => suspension[a] # "none" \/ a \in byHand
    /\ \A r \in Requests : req[r].op = "block" =>
         \A a \in held : a \in Covered({req[r].on}) /\ suspension[a] = "none" =>
           a \in byHand \/ a \in req[r].saw
    /\ \A r \in Requests : req[r].op = "unblock" =>
         /\ \A a \in req[r].saw : a \notin Covered(blocked \ {req[r].on})
         /\ req[r].row \/ req[r].on \notin blocked
    /\ \A r \in Requests : req[r].at = "checked" => req[r].on \notin Covered(blocked)

BlocksInv == BlocksTyped /\ BlocksNoted /\ RefusalsStay /\ HiddenStay /\ RulesStay

-----------------------------------------------------------------------------
LEMMA CoveredBy ==
  ASSUME NEW rules, NEW a
  PROVE  a \in Covered(rules) <=> \E d \in rules : a \in Under[d]
  BY DEF Covered

LEMMA CoveredGrows ==
  /\ \A s, t, a : s \subseteq t /\ a \in Covered(s) => a \in Covered(t)
  /\ \A s, t, a : a \in Covered(s \cup t) <=> a \in Covered(s) \/ a \in Covered(t)
  /\ \A s, d, a : a \in Covered(s) => a \in Covered(s \ {d}) \/ a \in Covered({d})
  /\ \A d, a : a \in Covered({d}) <=> a \in Under[d]
  BY DEF Covered

\* A request that begins changes nothing but what is open and what is noted.
LEMMA BlockBegun ==
  ASSUME BlocksTyped, NEW r \in Requests, NEW op \in OnDomains \cup OnAccounts,
         NEW on, NEW at \in Steps, NEW saw \in SUBSET Accounts, NEW goesOn,
         op \in OnDomains => on \in Domains,
         op \in OnAccounts => on \in Accounts,
         at \in {"fetching", "checked", "found"} => op \in Contacts,
         Begins(r, op, on, goesOn, at, saw)
  PROVE  /\ BlocksTyped' /\ goesOn
         /\ req'[r].op = op /\ req'[r].on = on /\ req'[r].at = at
         /\ req'[r].saw = saw /\ (op = "unblock" => req'[r].row)
         /\ \A q \in Requests \ {r} : req'[q] = req[q]
         /\ UNCHANGED <<blocked, held, suspension, byHand>>
<1>1. UNCHANGED <<blocked, held, suspension, byHand>> /\ goesOn
  BY DEF Begins
<1>2. (op = "unblock") \in BOOLEAN
  OBVIOUS
<1>3. req' = [req EXCEPT ![r] = [op |-> op, on |-> on, at |-> at, saw |-> saw,
                                row |-> op = "unblock"]]
  BY DEF Begins
<1>4. [op |-> op, on |-> on, at |-> at, saw |-> saw, row |-> op = "unblock"]
        \in ReqType
  BY <1>2 DEF ReqType
<1>5. req' \in [Requests -> ReqType]
  BY <1>3, <1>4 DEF BlocksTyped
<1>6. req'[r] = [op |-> op, on |-> on, at |-> at, saw |-> saw,
                 row |-> op = "unblock"]
      /\ \A q \in Requests \ {r} : req'[q] = req[q]
  BY <1>3 DEF BlocksTyped
<1>7. BlocksTyped'
  BY <1>1, <1>5, <1>6 DEF BlocksTyped
<1>8. req'[r].row = (op = "unblock")
  BY <1>6
<1>9. op = "unblock" => req'[r].row
  BY <1>8
<1>10. req'[r].op = op /\ req'[r].on = on /\ req'[r].at = at /\ req'[r].saw = saw
  BY <1>6
<1> QED
  BY <1>1, <1>6, <1>7, <1>9, <1>10

LEMMA BlockBegunNoted ==
  ASSUME BlocksTyped, BlocksNoted, NEW r \in Requests,
         NEW op \in OnDomains \cup OnAccounts, NEW on, NEW at, NEW saw, NEW goesOn,
         Begins(r, op, on, goesOn, at, saw),
         req'[r].op = op, \A q \in Requests \ {r} : req'[q] = req[q]
  PROVE  BlocksNoted' /\ met \subseteq met'
<1>1. met \subseteq met'
  BY DEF Begins
<1>2. ASSUME NEW q \in Requests, req[q].op # "none",
             {Kind(op), Kind(req[q].op)} \in Clashes
      PROVE  {Kind(op), Kind(req[q].op)} \in met'
  BY <1>2 DEF Begins, Busy
<1>3. /\ {"block", "refuse"} \in Clashes /\ {"unblock", "refuse"} \in Clashes
      /\ {"unblock"} \in Clashes /\ {"block", "unblock"} \in Clashes
      /\ {"block", "contact"} \in Clashes
  BY DEF Clashes
<1>4. /\ {"refuse", "block"} = {"block", "refuse"}
      /\ {"refuse", "unblock"} = {"unblock", "refuse"}
      /\ {"unblock", "block"} = {"block", "unblock"}
      /\ {"contact", "block"} = {"block", "contact"}
      /\ {"unblock", "unblock"} = {"unblock"}
  OBVIOUS
<1>5. Kind("block") = "block" /\ Kind("unblock") = "unblock"
      /\ Kind("refuse") = "refuse" /\ \A c \in Contacts : Kind(c) = "contact"
  BY DEF Kind, Contacts
<1>6. ASSUME NEW q \in Requests, q # r
      PROVE  /\ req[q].op = "block" /\ op = "refuse" => {"block", "refuse"} \in met'
             /\ req[q].op = "refuse" /\ op = "block" => {"block", "refuse"} \in met'
             /\ req[q].op = "unblock" /\ op = "refuse"
                  => {"unblock", "refuse"} \in met'
             /\ req[q].op = "refuse" /\ op = "unblock"
                  => {"unblock", "refuse"} \in met'
             /\ req[q].op = "unblock" /\ op = "unblock" => {"unblock"} \in met'
             /\ req[q].op = "block" /\ op = "unblock"
                  => {"block", "unblock"} \in met'
             /\ req[q].op = "unblock" /\ op = "block"
                  => {"block", "unblock"} \in met'
             /\ req[q].op = "block" /\ op \in Contacts
                  => {"block", "contact"} \in met'
             /\ req[q].op \in Contacts /\ op = "block"
                  => {"block", "contact"} \in met'
  BY <1>2, <1>3, <1>4, <1>5 DEF Contacts
<1>7. BlocksNoted'
  BY <1>1, <1>6 DEF BlocksNoted
<1> QED
  BY <1>1, <1>7

\* A step that only ends requests or moves them on leaves no overlap unnoted.
LEMMA StillNoted ==
  ASSUME BlocksNoted, met' = met,
         \A q \in Requests : req'[q].op # "none" => req'[q].op = req[q].op
  PROVE  BlocksNoted'
  BY DEF BlocksNoted, Contacts

-----------------------------------------------------------------------------
(* Requests that begin                                                       *)

LEMMA BlockReadsKeeps ==
  ASSUME BlocksInv, NEW r \in Requests, NEW d \in Domains, BlockReads(r, d)
  PROVE  BlocksInv'
<1> DEFINE saw == {a \in held \cap Covered(blocked \cup {d}) : suspension[a] = "none"}
<1>1. /\ BlocksTyped' /\ req'[r].op = "block" /\ req'[r].on = d /\ req'[r].at = "read"
      /\ req'[r].saw = saw
      /\ \A q \in Requests \ {r} : req'[q] = req[q]
      /\ UNCHANGED <<blocked, held, suspension, byHand>>
  <2>1. saw \in SUBSET Accounts
    BY DEF BlocksInv, BlocksTyped
  <2>2. Begins(r, "block", d, d \notin blocked, "read", saw)
    BY DEF BlockReads
  <2> HIDE DEF saw
  <2> QED
    BY <2>1, <2>2, BlockBegun DEF BlocksInv, OnDomains, OnAccounts, Steps
<1>2. BlocksNoted' /\ met \subseteq met'
  BY <1>1, BlockBegunNoted DEF BlockReads, BlocksInv, OnDomains
<1>3. RefusalsStay'
  BY <1>1, <1>2 DEF BlocksInv, RefusalsStay
<1>4. HiddenStay'
  <2>1. \A a \in saw : a \in Covered(blocked) \/ a \in Covered({d})
    BY CoveredGrows
  <2> QED
    BY <1>1, <1>2, <2>1 DEF BlocksInv, HiddenStay
<1>5. RulesStay'
  BY <1>1, <1>2, CoveredGrows DEF BlocksInv, RulesStay
<1> QED
  BY <1>1, <1>2, <1>3, <1>4, <1>5 DEF BlocksInv

LEMMA UnblockReadsKeeps ==
  ASSUME BlocksInv, NEW r \in Requests, NEW d \in Domains, UnblockReads(r, d)
  PROVE  BlocksInv'
<1>1. /\ BlocksTyped' /\ req'[r].op = "unblock" /\ req'[r].on = d /\ req'[r].at = "read"
      /\ req'[r].saw = Lifted(d) /\ req'[r].row
      /\ \A q \in Requests \ {r} : req'[q] = req[q]
      /\ UNCHANGED <<blocked, held, suspension, byHand>>
  <2>1. Lifted(d) \in SUBSET Accounts
    BY DomainBlocksAssumption DEF Lifted
  <2> QED
    BY <2>1, BlockBegun DEF UnblockReads, BlocksInv, OnDomains, OnAccounts, Steps
<1>2. BlocksNoted' /\ met \subseteq met'
  BY <1>1, BlockBegunNoted DEF UnblockReads, BlocksInv, OnDomains
<1>3. RefusalsStay'
  BY <1>1, <1>2 DEF BlocksInv, RefusalsStay, Lifted
<1>4. HiddenStay'
  <2>1. \A a \in Covered(blocked) : suspension[a] = "domain_block" =>
          a \in Lifted(d) \/ a \in Covered(blocked \ {d})
    BY CoveredGrows DEF Lifted
  <2> QED
    BY <1>1, <1>2, <2>1 DEF BlocksInv, HiddenStay
<1>5. RulesStay'
  BY <1>1, <1>2 DEF BlocksInv, RulesStay, Lifted
<1> QED
  BY <1>1, <1>2, <1>3, <1>4, <1>5 DEF BlocksInv

\* Requests on one account have read nothing the promises rest on.
LEMMA OnAccountsKeeps ==
  ASSUME BlocksInv, NEW r \in Requests, NEW a \in Accounts, NEW op \in OnAccounts,
         NEW at \in {"read", "fetching", "found"}, NEW saw \in SUBSET Accounts,
         NEW goesOn, at # "read" => op \in Contacts,
         Begins(r, op, a, goesOn, at, saw)
  PROVE  BlocksInv'
<1>1. /\ BlocksTyped' /\ req'[r].op = op /\ req'[r].at = at
      /\ \A q \in Requests \ {r} : req'[q] = req[q]
      /\ UNCHANGED <<blocked, held, suspension, byHand>>
  <2>1. at \in Steps /\ op \in OnDomains \cup OnAccounts /\ op \notin OnDomains
    BY DEF Steps, OnDomains, OnAccounts
  <2> QED
    BY <2>1, BlockBegun DEF BlocksInv
<1>2. BlocksNoted' /\ met \subseteq met'
  BY <1>1, BlockBegunNoted DEF BlocksInv
<1>3. op \notin OnDomains
  BY DEF OnAccounts, OnDomains
<1>4. RefusalsStay'
  BY <1>1, <1>2, <1>3 DEF BlocksInv, RefusalsStay
<1>5. HiddenStay'
  BY <1>1, <1>2, <1>3 DEF BlocksInv, HiddenStay, OnDomains
<1>6. RulesStay'
  BY <1>1, <1>2, <1>3 DEF BlocksInv, RulesStay, OnDomains
<1> QED
  BY <1>1, <1>2, <1>4, <1>5, <1>6 DEF BlocksInv

LEMMA LoadsKeep ==
  ASSUME BlocksInv, NEW r \in Requests, NEW a \in Accounts,
         (\E op \in OnAccounts : LoadAccount(r, op, a)) \/ Door(r, a) \/ Lookup(r, a)
  PROVE  BlocksInv'
<1> USE DEF OnAccounts, Contacts
<1>1. ASSUME NEW op \in OnAccounts, LoadAccount(r, op, a) PROVE BlocksInv'
  BY <1>1, OnAccountsKeeps DEF LoadAccount
<1>2. CASE Door(r, a)
  <2>1. {a} \cap held \in SUBSET Accounts /\ {} \in SUBSET Accounts
    OBVIOUS
  <2> QED
    BY <1>2, <2>1, OnAccountsKeeps DEF Door
<1>3. CASE Lookup(r, a)
  <2>1. CASE a \in held
    BY <1>3, <2>1, OnAccountsKeeps DEF Lookup
  <2>2. CASE a \notin held
    BY <1>3, <2>2, OnAccountsKeeps DEF Lookup
  <2> QED
    BY <2>1, <2>2
<1> QED
  BY <1>1, <1>2, <1>3

-----------------------------------------------------------------------------
(* Requests that commit                                                      *)

LEMMA BlockCommitsKeeps ==
  ASSUME BlocksInv, NEW r \in Requests, BlockCommits(r)
  PROVE  BlocksInv'
<1>1. PICK d \in Domains, saw \in SUBSET Accounts :
        d = req[r].on /\ saw = req[r].saw
  BY DEF BlockCommits, At, BlocksInv, BlocksTyped, ReqType, OnDomains
<1>2. /\ req[r].op = "block" /\ blocked' = blocked \cup {d} /\ held' = held
      /\ suspension' = [a \in Accounts |-> IF a \in saw THEN "domain_block"
                                                        ELSE suspension[a]]
      /\ byHand' = byHand \ saw /\ met' = met
      /\ req' = [req EXCEPT ![r] = Idle]
  BY <1>1 DEF BlockCommits, At, SaveAll, Ends
<1>3. /\ req'[r] = Idle /\ \A q \in Requests \ {r} : req'[q] = req[q]
      /\ Idle.op = "none" /\ Idle.at = "idle"
  BY <1>2 DEF BlocksInv, BlocksTyped, Idle
<1>4. BlocksTyped'
  BY <1>1, <1>2, <1>3 DEF BlocksInv, BlocksTyped, ReqType, Idle, Origins, OnDomains,
     OnAccounts, Steps
<1>5. BlocksNoted'
  BY <1>2, <1>3, StillNoted DEF BlocksInv
<1>6. RefusalsStay'
  BY <1>2, <1>3 DEF BlocksInv, RefusalsStay, OnDomains, BlocksTyped, ReqType
<1>7. ASSUME {"unblock"} \notin met, {"block", "unblock"} \notin met
      PROVE  \A q \in Requests \ {r} : req[q].op # "unblock"
  BY <1>7, <1>2 DEF BlocksInv, BlocksNoted
<1>8. HiddenStay'
  <2> SUFFICES ASSUME {"unblock"} \notin met, {"block", "unblock"} \notin met
               PROVE  HiddenStay'
    BY <1>2 DEF HiddenStay
  <2>1. \A a : a \in Covered(blocked) \/ a \in Covered({d}) => a \in Covered(blocked')
    BY <1>2, CoveredGrows
  <2>2. \A a \in saw : a \in Covered(blocked')
    BY <1>1, <1>2, <2>1 DEF BlocksInv, HiddenStay
  <2>3. \A a \in Accounts :
          suspension'[a] = "domain_block" => a \in Covered(blocked')
    BY <1>2, <2>1, <2>2 DEF BlocksInv, HiddenStay
  <2>4. \A q \in Requests : req'[q].op = "block" =>
          \A a \in req'[q].saw : a \in Covered(blocked') \/ a \in Covered({req'[q].on})
    BY <1>3, <2>1 DEF BlocksInv, HiddenStay
  <2>5. \A q \in Requests : req'[q].op # "unblock"
    BY <1>3, <1>7
  <2> QED
    BY <2>3, <2>4, <2>5 DEF HiddenStay
<1>9. ASSUME {"block", "unblock"} \notin met, {"block", "contact"} \notin met
      PROVE  \A q \in Requests \ {r} : req[q].op # "unblock" /\ req[q].at # "checked"
  BY <1>9, <1>2 DEF BlocksInv, BlocksNoted, BlocksTyped
<1>10. RulesStay'
  <2> SUFFICES ASSUME {"block", "unblock"} \notin met, {"block", "contact"} \notin met
               PROVE  RulesStay'
    BY <1>2 DEF RulesStay
  <2>1. \A a \in Accounts : a \in saw => suspension'[a] # "none"
    BY <1>2
  <2>2. \A a \in Accounts : a \notin saw =>
          suspension'[a] = suspension[a] /\ (a \in byHand => a \in byHand')
    BY <1>2
  <2>3. \A a \in held : suspension[a] = "none" /\ a \in Covered({d}) =>
          a \in byHand \/ a \in saw
    BY <1>1, <1>2 DEF BlocksInv, RulesStay
  <2>4. \A a \in held : a \in Covered(blocked) => suspension[a] # "none" \/ a \in byHand
    BY DEF BlocksInv, RulesStay
  <2>5. \A a \in held : a \in Covered(blocked') =>
          suspension'[a] # "none" \/ a \in byHand'
    <3>1. ASSUME NEW a \in held, a \in Covered(blocked')
          PROVE  a \in Covered(blocked) \/ a \in Covered({d})
      BY <3>1, <1>2, CoveredGrows
    <3> QED
      BY <2>1, <2>2, <2>3, <2>4, <3>1 DEF BlocksInv, BlocksTyped
  <2>6. \A q \in Requests : req'[q].op = "block" =>
          \A a \in held : a \in Covered({req'[q].on}) /\ suspension'[a] = "none" =>
            a \in byHand' \/ a \in req'[q].saw
    BY <1>3, <2>1, <2>2 DEF BlocksInv, RulesStay, BlocksTyped
  <2> QED
    BY <1>2, <1>3, <1>9, <2>5, <2>6 DEF RulesStay
<1> QED
  BY <1>4, <1>5, <1>6, <1>8, <1>10 DEF BlocksInv

LEMMA UnblockCommitsKeeps ==
  ASSUME BlocksInv, NEW r \in Requests, UnblockCommits(r)
  PROVE  BlocksInv'
<1>1. PICK d \in Domains, saw \in SUBSET Accounts :
        d = req[r].on /\ saw = req[r].saw
  BY DEF UnblockCommits, At, BlocksInv, BlocksTyped, ReqType, OnDomains
<1>2. /\ req[r].op = "unblock" /\ held' = held
      /\ blocked' = IF req[r].row THEN blocked \ {d} ELSE blocked
      /\ suspension' = [a \in Accounts |-> IF a \in saw THEN "none"
                                                        ELSE suspension[a]]
      /\ byHand' = byHand \ saw /\ met' = met
  BY <1>1 DEF UnblockCommits, At, SaveAll
<1>3. /\ req'[r] = Idle /\ Idle.op = "none" /\ Idle.at = "idle"
      /\ req' \in [Requests -> ReqType]
      /\ \A q \in Requests \ {r} :
           /\ req'[q].op = req[q].op /\ req'[q].on = req[q].on
           /\ req'[q].at = req[q].at /\ req'[q].saw = req[q].saw
           /\ req'[q] = req[q] \/ (req[q].on = d /\ req[r].row)
  <2>1. req' = [q \in Requests |->
          IF q = r THEN Idle
          ELSE IF req[q].on = d /\ req[r].row THEN [req[q] EXCEPT !.row = FALSE]
          ELSE req[q]]
    BY <1>1 DEF UnblockCommits
  <2>2. Idle \in ReqType /\ Idle.op = "none" /\ Idle.at = "idle"
    BY DEF Idle, ReqType, Steps
  <2>3. ASSUME NEW q \in Requests
        PROVE  LET new == [req[q] EXCEPT !.row = FALSE] IN
               /\ new \in ReqType /\ new.op = req[q].op /\ new.on = req[q].on
               /\ new.at = req[q].at /\ new.saw = req[q].saw
    BY DEF BlocksInv, BlocksTyped, ReqType
  <2>4. \A q \in Requests : req'[q] =
          IF q = r THEN Idle
          ELSE IF req[q].on = d /\ req[r].row THEN [req[q] EXCEPT !.row = FALSE]
          ELSE req[q]
    BY <2>1
  <2>5. req' \in [Requests -> ReqType]
    BY <2>1, <2>2, <2>3 DEF BlocksInv, BlocksTyped
  <2>6. ASSUME NEW q \in Requests \ {r}
        PROVE  /\ req'[q].op = req[q].op /\ req'[q].on = req[q].on
               /\ req'[q].at = req[q].at /\ req'[q].saw = req[q].saw
               /\ req'[q] = req[q] \/ (req[q].on = d /\ req[r].row)
    <3>1. CASE req[q].on = d /\ req[r].row
      BY <3>1, <2>3, <2>4
    <3>2. CASE ~(req[q].on = d /\ req[r].row)
      BY <3>2, <2>4
    <3> QED
      BY <3>1, <3>2
  <2> QED
    BY <2>2, <2>4, <2>5, <2>6
<1>4. BlocksTyped'
  BY <1>1, <1>2, <1>3 DEF BlocksInv, BlocksTyped, Origins, OnDomains, OnAccounts
<1>5. BlocksNoted'
  BY <1>2, <1>3, StillNoted DEF BlocksInv
<1>6. RefusalsStay'
  <2>1. \A a \in Accounts : suspension'[a] = "local" => suspension[a] = "local"
    BY <1>2
  <2>2. \A q \in Requests : req[q].saw \subseteq Accounts
    BY DEF BlocksInv, BlocksTyped, ReqType
  <2> QED
    BY <1>2, <1>3, <2>1, <2>2 DEF BlocksInv, RefusalsStay, OnDomains
<1>7. ASSUME {"unblock"} \notin met, {"block", "unblock"} \notin met
      PROVE  \A q \in Requests \ {r} : req[q].op # "unblock" /\ req[q].op # "block"
  BY <1>7, <1>2 DEF BlocksInv, BlocksNoted
<1>8. HiddenStay'
  <2> SUFFICES ASSUME {"unblock"} \notin met, {"block", "unblock"} \notin met
               PROVE  HiddenStay'
    BY <1>2 DEF HiddenStay
  <2>1. /\ blocked' = blocked \ {d}
        /\ \A a \in Accounts : suspension[a] = "domain_block" =>
             a \in saw \/ a \in Covered(blocked \ {d})
    BY <1>1, <1>2 DEF BlocksInv, HiddenStay
  <2>2. \A a \in Accounts : suspension'[a] = "domain_block" =>
          suspension[a] = "domain_block" /\ a \notin saw
    BY <1>2
  <2>3. \A q \in Requests : req'[q].op # "unblock" /\ req'[q].op # "block"
    BY <1>3, <1>7
  <2> QED
    BY <2>1, <2>2, <2>3 DEF HiddenStay
<1>9. ASSUME {"block", "unblock"} \notin met
      PROVE  \A q \in Requests \ {r} : req[q].op # "block"
  BY <1>9, <1>2 DEF BlocksInv, BlocksNoted
<1>10. RulesStay'
  <2> SUFFICES ASSUME {"block", "unblock"} \notin met, {"block", "contact"} \notin met
               PROVE  RulesStay'
    BY <1>2 DEF RulesStay
  <2>1. /\ blocked' \subseteq blocked /\ d \notin blocked'
        /\ blocked' \subseteq blocked \ {d}
    BY <1>1, <1>2 DEF BlocksInv, RulesStay
  <2>2. \A a \in saw : a \notin Covered(blocked')
    <3>1. \A a \in saw : a \notin Covered(blocked \ {d})
      BY <1>1, <1>2 DEF BlocksInv, RulesStay
    <3> QED
      BY <2>1, <3>1, CoveredGrows
  <2>3. \A a \in Accounts : a \notin saw =>
          suspension'[a] = suspension[a] /\ (a \in byHand => a \in byHand')
    BY <1>2
  <2>4. \A a \in held : a \in Covered(blocked') =>
          suspension'[a] # "none" \/ a \in byHand'
    BY <2>1, <2>2, <2>3, CoveredGrows DEF BlocksInv, RulesStay, BlocksTyped
  <2>5. ASSUME NEW q \in Requests, req'[q].op = "unblock"
        PROVE  /\ \A a \in req'[q].saw : a \notin Covered(blocked' \ {req'[q].on})
               /\ req'[q].row \/ req'[q].on \notin blocked'
    <3>1. q # r /\ req[q].op = "unblock"
      BY <1>3, <2>5
    <3>2. /\ \A a \in req[q].saw : a \notin Covered(blocked \ {req[q].on})
          /\ req[q].row \/ req[q].on \notin blocked
      BY <3>1 DEF BlocksInv, RulesStay
    <3>3. blocked' \ {req[q].on} \subseteq blocked \ {req[q].on}
      BY <2>1
    <3>4. \A a \in req[q].saw : a \notin Covered(blocked' \ {req[q].on})
      BY <3>2, <3>3, CoveredGrows
    <3>5. req'[q].row \/ req'[q].on \notin blocked'
      <4>1. CASE req'[q] = req[q]
        BY <4>1, <3>2, <2>1
      <4>2. CASE req[q].on = d
        BY <4>2, <3>1, <1>3, <2>1
      <4> QED
        BY <4>1, <4>2, <3>1, <1>3
    <3> QED
      BY <3>1, <3>4, <3>5, <1>3
  <2>6. \A q \in Requests : req'[q].op # "block"
    BY <1>3, <1>9
  <2>7. \A q \in Requests : req'[q].at = "checked" =>
          req'[q].on \notin Covered(blocked')
    BY <1>3, <2>1, CoveredGrows DEF BlocksInv, RulesStay
  <2> QED
    BY <1>2, <2>4, <2>5, <2>6, <2>7 DEF RulesStay
<1> QED
  BY <1>4, <1>5, <1>6, <1>8, <1>10 DEF BlocksInv

\* A refusal lands on nothing that a block or unblock has read, or is noted.
LEMMA RefuseKeeps ==
  ASSUME BlocksInv, NEW r \in Requests, Refuse(r)
  PROVE  BlocksInv'
<1>1. PICK saw \in SUBSET Accounts : saw = req[r].saw
  BY DEF BlocksInv, BlocksTyped, ReqType
<1>2. /\ req[r].op = "refuse" /\ blocked' = blocked /\ held' = held
      /\ suspension' = [a \in Accounts |-> IF a \in saw THEN "local"
                                                        ELSE suspension[a]]
      /\ byHand' = byHand \ saw /\ met' = met
      /\ req' = [req EXCEPT ![r] = Idle]
  BY <1>1 DEF Refuse, At, SaveAll, Ends
<1>3. /\ req'[r] = Idle /\ \A q \in Requests \ {r} : req'[q] = req[q]
      /\ Idle.op = "none" /\ Idle.at = "idle"
  BY <1>2 DEF BlocksInv, BlocksTyped, Idle
<1>4. BlocksTyped'
  BY <1>1, <1>2, <1>3 DEF BlocksInv, BlocksTyped, ReqType, Idle, Origins, OnDomains,
     OnAccounts, Steps
<1>5. BlocksNoted'
  BY <1>2, <1>3, StillNoted DEF BlocksInv
<1>6. ASSUME {"block", "refuse"} \notin met, {"unblock", "refuse"} \notin met
      PROVE  \A q \in Requests : req[q].op \notin OnDomains
  BY <1>6, <1>2 DEF BlocksInv, BlocksNoted, OnDomains
<1>7. RefusalsStay'
  BY <1>2, <1>3, <1>6 DEF RefusalsStay, OnDomains
<1>8. HiddenStay'
  BY <1>2, <1>3 DEF BlocksInv, HiddenStay
<1>9. RulesStay'
  BY <1>1, <1>2, <1>3 DEF BlocksInv, RulesStay, BlocksTyped
<1> QED
  BY <1>4, <1>5, <1>7, <1>8, <1>9 DEF BlocksInv

LEMMA UnsuspendKeeps ==
  ASSUME BlocksInv, NEW r \in Requests, Unsuspend(r)
  PROVE  BlocksInv'
<1>1. PICK x \in Accounts : x = req[r].on
  BY DEF Unsuspend, At, BlocksInv, BlocksTyped, OnAccounts
<1>2. /\ blocked' = blocked /\ held' = held
      /\ suspension' = [suspension EXCEPT ![x] = "none"]
      /\ byHand' = byHand \cup {x} /\ met' = met
      /\ req' = [req EXCEPT ![r] = Idle]
  BY <1>1 DEF Unsuspend, Ends
<1>3. /\ req'[r] = Idle /\ \A q \in Requests \ {r} : req'[q] = req[q]
      /\ Idle.op = "none" /\ Idle.at = "idle"
  BY <1>2 DEF BlocksInv, BlocksTyped, Idle
<1>4. BlocksTyped'
  BY <1>1, <1>2, <1>3 DEF BlocksInv, BlocksTyped, ReqType, Idle, Origins, OnDomains,
     OnAccounts, Steps
<1>5. BlocksNoted'
  BY <1>2, <1>3, StillNoted DEF BlocksInv
<1>6. RefusalsStay'
  BY <1>2, <1>3 DEF BlocksInv, RefusalsStay, OnDomains, BlocksTyped, ReqType
<1>7. HiddenStay'
  BY <1>2, <1>3 DEF BlocksInv, HiddenStay, BlocksTyped
<1>8. RulesStay'
  BY <1>2, <1>3 DEF BlocksInv, RulesStay, BlocksTyped
<1> QED
  BY <1>4, <1>5, <1>6, <1>7, <1>8 DEF BlocksInv

\* A mirror is saved while no rule covers it, or is noted.
LEMMA ContactKeeps ==
  ASSUME BlocksInv, NEW r \in Requests,
         FetchFails(r) \/ Fetched(r) \/ SaveMirror(r) \/ Served(r)
  PROVE  BlocksInv'
<1>1. /\ blocked' = blocked /\ suspension' = suspension /\ byHand' = byHand
      /\ met' = met
      /\ req' = [req EXCEPT ![r] = Idle]
         \/ \E at \in {"found", "checked"}, saw \in SUBSET Accounts :
              req' = [req EXCEPT ![r].at = at, ![r].saw = saw]
  BY DEF FetchFails, Fetched, SaveMirror, Served, Ends, Goes, BlocksInv, BlocksTyped, ReqType
<1>2. req[r].op \in Contacts /\ req[r].on \in Accounts
  BY DEF FetchFails, Fetched, SaveMirror, Served, BlocksInv, BlocksTyped, OnAccounts, Contacts
<1> DEFINE Moved ==
      /\ \A q \in Requests \ {r} : req'[q] = req[q]
      /\ req'[r].op \in {req[r].op, "none"}
      /\ req'[r].at = "checked" => req'[r].on = req[r].on
      /\ req' \in [Requests -> ReqType]
      /\ req'[r].op # "none" => req'[r].on = req[r].on
      /\ req'[r].at \in {"found", "checked"} => req'[r].op = req[r].op
      /\ req'[r].at \in {"found", "checked", "idle"}
<1>3. Moved
  <2>1. CASE req' = [req EXCEPT ![r] = Idle]
    BY <2>1, <1>2 DEF BlocksInv, BlocksTyped, ReqType, Idle, OnDomains, OnAccounts, Steps
  <2>2. ASSUME NEW at \in {"found", "checked"}, NEW saw \in SUBSET Accounts,
               req' = [req EXCEPT ![r].at = at, ![r].saw = saw]
        PROVE  Moved
    <3>1. req'[r] = [op |-> req[r].op, on |-> req[r].on, at |-> at, saw |-> saw,
                     row |-> req[r].row]
      <4>1. PICK w \in ReqType : w = req[r]
        BY DEF BlocksInv, BlocksTyped
      <4>2. req'[r] = [w EXCEPT !.at = at, !.saw = saw]
        BY <2>2, <4>1 DEF BlocksInv, BlocksTyped
      <4> QED
        BY <4>1, <4>2 DEF ReqType
    <3>2. req'[r] \in ReqType
      BY <3>1 DEF BlocksInv, BlocksTyped, ReqType, Steps
    <3>3. \A q \in Requests \ {r} : req'[q] = req[q]
      BY <2>2 DEF BlocksInv, BlocksTyped
    <3>4. req' \in [Requests -> ReqType]
      BY <2>2, <3>2, <3>3 DEF BlocksInv, BlocksTyped
    <3> QED
      BY <3>1, <3>3, <3>4
  <2> QED
    BY <1>1, <2>1, <2>2
<1>4. held' = held \/ held' = held \cup {req[r].on}
  BY DEF FetchFails, Fetched, SaveMirror, Served
<1>5. held' # held => req[r].at = "checked"
  BY DEF FetchFails, Fetched, SaveMirror, Served
<1>6. req'[r].at = "checked" => req[r].on \notin Covered(blocked)
  BY DEF FetchFails, Fetched, SaveMirror, Served, Ends, Goes, Idle, BlocksInv, BlocksTyped,
     ReqType
<1>7. BlocksTyped'
  BY <1>1, <1>2, <1>3, <1>4 DEF BlocksInv, BlocksTyped, OnDomains, OnAccounts, Contacts
<1>8. BlocksNoted'
  BY <1>1, <1>3, StillNoted DEF BlocksInv
<1>9. req'[r].op \notin OnDomains
  BY <1>2, <1>3 DEF Contacts, OnDomains
<1>10. RefusalsStay'
  BY <1>1, <1>3, <1>9 DEF BlocksInv, RefusalsStay
<1>11. HiddenStay'
  BY <1>1, <1>3, <1>9 DEF BlocksInv, HiddenStay, OnDomains
<1>12. ASSUME {"block", "contact"} \notin met
       PROVE  \A q \in Requests : req[q].op # "block"
  BY <1>12, <1>2 DEF BlocksInv, BlocksNoted, Contacts
<1>13. RulesStay'
  BY <1>1, <1>3, <1>4, <1>5, <1>6, <1>9, <1>12 DEF BlocksInv, RulesStay, OnDomains
<1> QED
  BY <1>7, <1>8, <1>10, <1>11, <1>13 DEF BlocksInv

-----------------------------------------------------------------------------
LEMMA BlocksInit == Init => BlocksInv
<1> SUFFICES ASSUME Init PROVE BlocksInv
  OBVIOUS
<1>1. /\ \A r \in Requests : req[r] = Idle
      /\ Idle.op = "none" /\ Idle.at = "idle" /\ Idle \in ReqType
  BY DEF Init, Idle, ReqType, Steps
<1>2. BlocksTyped
  BY <1>1 DEF Init, BlocksTyped, Origins, OnDomains, OnAccounts
<1>3. BlocksNoted /\ RefusalsStay
  BY <1>1 DEF BlocksNoted, RefusalsStay, OnDomains, Contacts
<1>4. HiddenStay /\ RulesStay
  BY <1>1 DEF Init, HiddenStay, RulesStay
<1> QED
  BY <1>2, <1>3, <1>4 DEF BlocksInv

LEMMA BlocksStep == BlocksInv /\ [Next]_vars => BlocksInv'
<1> SUFFICES ASSUME BlocksInv, [Next]_vars PROVE BlocksInv'
  OBVIOUS
<1>1. CASE UNCHANGED vars
  BY <1>1 DEF vars, BlocksInv, BlocksTyped, BlocksNoted, RefusalsStay, HiddenStay, RulesStay
<1> QED
  BY <1>1, BlockReadsKeeps, UnblockReadsKeeps, LoadsKeep, BlockCommitsKeeps,
     UnblockCommitsKeeps, RefuseKeeps, UnsuspendKeeps, ContactKeeps DEF Next

\* An account a block hid is under a rule that stands, whatever blocks, unblocks,
\* refusals and deliveries came before, unless an unblock overlapped with
\* another or with a block.
THEOREM HiddenHolds == Spec => []HiddenHasARule
<1>1. BlocksInv => HiddenHasARule
  BY DEF BlocksInv, HiddenStay, HiddenHasARule, Apart
<1> QED
  BY <1>1, BlocksInit, BlocksStep, PTL DEF Spec

\* Every mirror under a rule is hidden or was shown by a moderator's hand, unless
\* the block overlapped with an unblock or with the first contact.
THEOREM RuleHidesHolds == Spec => []RuleHides
<1>1. BlocksInv => RuleHides
  BY DEF BlocksInv, RulesStay, RuleHides, Apart
<1> QED
  BY <1>1, BlocksInit, BlocksStep, PTL DEF Spec

\* A refusal is ended by a moderator's hand on the account and by nothing that
\* happens to its server, unless a block or unblock overlapped with it.
THEOREM RefusalHolds == Spec => RefusalOutlivesBlocks
<1> DEFINE Outlived ==
      Apart({{"block", "refuse"}, {"unblock", "refuse"}}) =>
        \A a \in Accounts : suspension[a] = "local" /\ suspension'[a] # "local" =>
          \E r \in Requests : At(r, "unsuspend", "read") /\ req[r].on = a
<1>1. BlocksInv /\ [Next]_vars => [Outlived]_vars
  <2> SUFFICES ASSUME BlocksInv, Next,
                      {"block", "refuse"} \notin met, {"unblock", "refuse"} \notin met,
                      NEW a \in Accounts,
                      suspension[a] = "local", suspension'[a] # "local"
               PROVE  \E r \in Requests :
                        At(r, "unsuspend", "read") /\ req[r].on = a
    BY DEF Apart
  <2>1. PICK r \in Requests :
          BlockCommits(r) \/ UnblockCommits(r) \/ Refuse(r) \/ Unsuspend(r)
    BY DEF Next, BlockReads, UnblockReads, LoadAccount, Door, Lookup, Begins,
       FetchFails, Fetched, SaveMirror, Served
  <2>2. CASE BlockCommits(r) \/ UnblockCommits(r)
    <3>1. req[r].op \in OnDomains /\ a \in req[r].saw
      BY <2>2 DEF BlockCommits, UnblockCommits, SaveAll, At, OnDomains
    <3> QED
      BY <3>1 DEF BlocksInv, RefusalsStay
  <2>3. CASE Refuse(r)
    BY <2>3 DEF Refuse, SaveAll
  <2>4. CASE Unsuspend(r)
    BY <2>4 DEF Unsuspend, BlocksInv, BlocksTyped
  <2> QED
    BY <2>1, <2>2, <2>3, <2>4
<1> QED
  BY <1>1, BlocksInit, BlocksStep, PTL DEF Spec, RefusalOutlivesBlocks
-----------------------------------------------------------------------------
(* Types                                                                     *)

\* Only mirrors that are held are hidden or shown, or read to be.
MirrorsOnly ==
  /\ met \subseteq Clashes
  /\ \A a \in Accounts \ held : suspension[a] = "none"
  /\ byHand \subseteq held /\ \A a \in byHand : suspension[a] = "none"
  /\ \A r \in Requests :
       /\ req[r].op \in {"block", "unblock", "refuse"} => req[r].saw \subseteq held
       /\ req[r].op = "unsuspend" => req[r].on \in held

\* A request that begins has read of mirrors only.
LEMMA BeginMirrors ==
  ASSUME BlocksTyped, MirrorsOnly, NEW r \in Requests, NEW op, NEW on, NEW at,
         NEW saw, NEW goesOn, Begins(r, op, on, goesOn, at, saw),
         op \in {"block", "unblock", "refuse"} => saw \subseteq held,
         op = "unsuspend" => on \in held
  PROVE  MirrorsOnly'
<1>1. /\ UNCHANGED <<held, suspension, byHand>>
      /\ met' \subseteq Clashes
  BY DEF Begins, MirrorsOnly
<1>2. req' = [req EXCEPT ![r] = [op |-> op, on |-> on, at |-> at, saw |-> saw,
                                row |-> op = "unblock"]]
  BY DEF Begins
<1>3. /\ req'[r].op = op /\ req'[r].on = on /\ req'[r].saw = saw
      /\ \A q \in Requests \ {r} : req'[q] = req[q]
  BY <1>2 DEF BlocksTyped
<1> QED
  BY <1>1, <1>3 DEF MirrorsOnly

LEMMA BeginningsMirrors ==
  ASSUME BlocksTyped, MirrorsOnly, NEW r \in Requests,
         \/ \E d \in Domains : BlockReads(r, d) \/ UnblockReads(r, d)
         \/ \E op \in OnAccounts, a \in Accounts : LoadAccount(r, op, a)
         \/ \E a \in Accounts : Door(r, a) \/ Lookup(r, a)
  PROVE  MirrorsOnly'
<1>1. ASSUME NEW d \in Domains, BlockReads(r, d) PROVE MirrorsOnly'
  BY <1>1, BeginMirrors DEF BlockReads
<1>2. ASSUME NEW d \in Domains, UnblockReads(r, d) PROVE MirrorsOnly'
  <2>1. Lifted(d) \subseteq held
    BY DomainBlocksAssumption DEF Lifted, MirrorsOnly
  <2> QED
    BY <1>2, <2>1, BeginMirrors DEF UnblockReads
<1>3. ASSUME NEW op \in OnAccounts, NEW a \in Accounts, LoadAccount(r, op, a)
      PROVE  MirrorsOnly'
  <2>1. op \in {"refuse", "unsuspend"} /\ a \in held
    BY <1>3 DEF LoadAccount, Begins, MirrorsOnly
  <2> QED
    BY <1>3, <2>1, BeginMirrors DEF LoadAccount
<1>4. ASSUME NEW a \in Accounts, Door(r, a) PROVE MirrorsOnly'
  BY <1>4, BeginMirrors DEF Door
<1>5. ASSUME NEW a \in Accounts, Lookup(r, a) PROVE MirrorsOnly'
  BY <1>5, BeginMirrors DEF Lookup
<1> QED
  BY <1>1, <1>2, <1>3, <1>4, <1>5

\* What a request saves, it saves of mirrors.
LEMMA SavesMirrors ==
  ASSUME BlocksTyped, MirrorsOnly, NEW r \in Requests, NEW origin \in Origins,
         req[r].op \in {"block", "unblock", "refuse"}, SaveAll(req[r].saw, origin),
         UNCHANGED <<held, met>>,
         \A q \in Requests : req'[q].op # "none" =>
           req'[q].op = req[q].op /\ req'[q].on = req[q].on /\ req'[q].saw = req[q].saw
  PROVE  MirrorsOnly'
<1>1. /\ \A a \in Accounts :
           suspension'[a] = IF a \in req[r].saw THEN origin ELSE suspension[a]
      /\ byHand' = byHand \ req[r].saw
  BY DEF SaveAll
<1>2. req[r].saw \subseteq held /\ held \subseteq Accounts
  BY DEF MirrorsOnly, BlocksTyped
<1>3. /\ \A a \in Accounts \ held' : suspension'[a] = "none"
      /\ byHand' \subseteq held' /\ \A a \in byHand' : suspension'[a] = "none"
  BY <1>1, <1>2 DEF MirrorsOnly
<1> QED
  BY <1>3 DEF MirrorsOnly

LEMMA MirrorsStep == BlocksTyped /\ MirrorsOnly /\ [Next]_vars => MirrorsOnly'
<1> SUFFICES ASSUME BlocksTyped, MirrorsOnly, [Next]_vars PROVE MirrorsOnly'
  OBVIOUS
<1> DEFINE Over(q) ==
      req'[q].op # "none" => req'[q].op = req[q].op /\ req'[q].on = req[q].on
                             /\ req'[q].saw = req[q].saw
<1>1. ASSUME NEW r \in Requests, Ends(r) PROVE \A q \in Requests : Over(q)
  BY <1>1 DEF Ends, Idle, BlocksTyped
<1>2. ASSUME NEW r \in Requests, BlockCommits(r) PROVE MirrorsOnly'
  BY <1>1, <1>2, SavesMirrors DEF BlockCommits, At, Origins
<1>3. ASSUME NEW r \in Requests, UnblockCommits(r) PROVE MirrorsOnly'
  <2>1. \A q \in Requests : req'[q] =
          IF q = r THEN Idle
          ELSE IF req[q].on = req[r].on /\ req[r].row
            THEN [req[q] EXCEPT !.row = FALSE] ELSE req[q]
    BY <1>3 DEF UnblockCommits
  <2>2. ASSUME NEW q \in Requests
        PROVE  LET new == [req[q] EXCEPT !.row = FALSE] IN
               new.op = req[q].op /\ new.on = req[q].on /\ new.saw = req[q].saw
    BY DEF BlocksTyped, ReqType
  <2>3. Idle.op = "none"
    BY DEF Idle
  <2>4. ASSUME NEW q \in Requests PROVE Over(q)
    <3>1. CASE q = r
      BY <2>1, <2>3, <3>1
    <3>2. CASE q # r /\ req[q].on = req[r].on /\ req[r].row
      BY <2>1, <2>2, <3>2
    <3>3. CASE q # r /\ ~(req[q].on = req[r].on /\ req[r].row)
      BY <2>1, <3>3
    <3> QED
      BY <3>1, <3>2, <3>3
  <2> QED
    BY <1>3, <2>4, SavesMirrors DEF UnblockCommits, At, Origins
<1>4. ASSUME NEW r \in Requests, Refuse(r) PROVE MirrorsOnly'
  BY <1>1, <1>4, SavesMirrors DEF Refuse, At, Origins
<1>5. ASSUME NEW r \in Requests, Unsuspend(r) PROVE MirrorsOnly'
  <2>1. \A q \in Requests : Over(q)
    BY <1>1, <1>5 DEF Unsuspend
  <2>2. req[r].on \in held /\ req[r].on \in Accounts
    BY <1>5 DEF Unsuspend, At, MirrorsOnly, BlocksTyped
  <2>3. /\ \A a \in Accounts : suspension'[a] =
             IF a = req[r].on THEN "none" ELSE suspension[a]
        /\ byHand' = byHand \cup {req[r].on}
    BY <1>5, <2>2 DEF Unsuspend, BlocksTyped
  <2>4. /\ \A a \in Accounts \ held : suspension'[a] = "none"
        /\ byHand' \subseteq held /\ \A a \in byHand' : suspension'[a] = "none"
    BY <2>2, <2>3 DEF MirrorsOnly, BlocksTyped
  <2> QED
    BY <1>5, <2>1, <2>4 DEF Unsuspend, MirrorsOnly
<1>6. ASSUME NEW r \in Requests,
             FetchFails(r) \/ Fetched(r) \/ SaveMirror(r) \/ Served(r)
      PROVE  MirrorsOnly'
  <2>1. /\ UNCHANGED <<suspension, byHand, met>> /\ held \subseteq held'
        /\ Ends(r) \/ \E at, saw : Goes(r, at, saw)
    BY <1>6 DEF FetchFails, Fetched, SaveMirror, Served
  <2>2. req[r].op \in Contacts
    BY <1>6 DEF FetchFails, Fetched, SaveMirror, Served, BlocksTyped
  <2>3. \A q \in Requests \ {r} : req'[q] = req[q]
    BY <2>1 DEF Ends, Goes, BlocksTyped
  <2>4. req'[r].op \in Contacts \cup {"none"}
    <3>1. CASE Ends(r)
      BY <3>1 DEF Ends, Idle, BlocksTyped
    <3>2. ASSUME NEW at, NEW saw, Goes(r, at, saw) PROVE req'[r].op = req[r].op
      BY <3>2 DEF Goes, BlocksTyped, ReqType
    <3> QED
      BY <2>1, <2>2, <3>1, <3>2
  <2> QED
    BY <2>1, <2>3, <2>4 DEF MirrorsOnly, Contacts, BlocksTyped
<1>7. CASE UNCHANGED vars
  BY <1>7 DEF vars, MirrorsOnly
<1> QED
  BY <1>2, <1>3, <1>4, <1>5, <1>6, <1>7, BeginningsMirrors DEF Next

\* Types, and that only mirrors that are held are suspended, or shown by hand,
\* which then they are: whatever requests save of what they read earlier.
THEOREM BlocksAreTyped == Spec => []TypeOK
<1>1. Init => BlocksInv /\ MirrorsOnly
  BY BlocksInit DEF Init, MirrorsOnly, Idle
<1>2. BlocksInv /\ MirrorsOnly /\ [Next]_vars => BlocksInv' /\ MirrorsOnly'
  BY BlocksStep, MirrorsStep DEF BlocksInv
<1>3. BlocksInv /\ MirrorsOnly => TypeOK
  BY DEF BlocksInv, BlocksTyped, ReqType, MirrorsOnly, TypeOK
<1> QED
  BY <1>1, <1>2, <1>3, PTL DEF Spec
=============================================================================
