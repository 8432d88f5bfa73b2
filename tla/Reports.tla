------------------------------ MODULE Reports ------------------------------
(* Reports about one member and the member's posts, from the form or the     *)
(* Flag that files them to the moderator's decision and what it does.        *)
(*                                                                           *)
(* Reports about one target are one pile: it is told to the staff once, and  *)
(* decided as one.  Every page loads what it shows, checks it, and acts on   *)
(* what it loaded; the queue's workers and the deliveries that follow a      *)
(* decision append lines to the same rows.                                   *)
EXTENDS Naturals, FiniteSets

CONSTANTS
  Requests,  \* requests and mail tasks that can be open at once
  Posts,     \* posts of the reported member
  Person,    \* the target of a report about the member
  Filings,   \* the reports there can be, as <<reporter, target>>
  Peers,     \* reporters on other instances, who report by Flag
  MaxReports, \* bound: reports ever filed
  MaxClashes  \* bound: kinds of overlap in one history

VARIABLES
  local,     \* whether the member is of this instance
  row,       \* each report: "none", "open" or the action that resolved it
  signed,    \* resolved reports that carry their decision's note
  post,      \* each post: "unborn", "live", "removed" by a moderator, "gone"
  standing,  \* the member: suspended, banned
  told,      \* alerts for each pile since it was last empty, 2 for more
  job,       \* each request: what it does and what it has read
  met        \* history: which kinds of request have overlapped

vars == <<local, row, signed, post, standing, told, job, met>>

Targets == Posts \cup {Person}
Target(f) == f[2]
Pile(t) == {f \in Filings : Target(f) = t}
Open(t) == {f \in Pile(t) : row[f] = "open"}

Decisions == {"dismiss", "delete_status", "suspend", "ban"}
OnReports == Decisions \cup {"file", "flag", "refuse", "forward", "mail"}
OnMember == {"unsuspend", "unban", "publish"}

\* The overlaps that the properties below except.
Clashes == {{"file"}, {"decide", "flag"}, {"decide"}, {"ban", "publish"},
            {"append", "decide"}}

\* A request at rest.  `knows` is what it has read of the member's standing,
\* `rows` the reports it will save and `saw` those of them it saw signed.
Idle == [op |-> "none", on |-> "none", at |-> "idle", knows |-> {},
         rows |-> {}, saw |-> {}]

TypeOK ==
  /\ local \in BOOLEAN
  /\ row \in [Filings -> Decisions \cup {"none", "open"}]
  /\ signed \subseteq {f \in Filings : row[f] \in Decisions}
  /\ post \in [Posts -> {"unborn", "live", "removed", "gone"}]
  /\ standing \subseteq {"suspended", "banned"}
  /\ "banned" \in standing => local
  /\ told \in [Targets -> 0..2]
  /\ job \in [Requests ->
       [op : OnReports \cup OnMember \cup {"none"},
        on : Filings \cup Posts \cup {"none"},
        at : {"loaded", "created", "inserted", "sent", "read", "idle"},
        knows : SUBSET {"suspended", "banned", "told"},
        rows : SUBSET Filings, saw : SUBSET Filings]]
  /\ \A r \in Requests : job[r].saw \subseteq job[r].rows
  /\ met \subseteq Clashes

Init ==
  /\ local \in BOOLEAN
  /\ row = [f \in Filings |-> "none"]
  /\ signed = {}
  /\ post = [p \in Posts |-> "unborn"]
  /\ standing = {}
  /\ told = [t \in Targets |-> 0]
  /\ job = [r \in Requests |-> Idle]
  /\ met = {}

Busy == {r \in Requests : job[r].op # "none"}
At(r, op, at) == job[r].op = op /\ job[r].at = at
Ends(r) == job' = [job EXCEPT ![r] = Idle]
Goes(r, at) == job' = [job EXCEPT ![r].at = at]

\* The kinds of request that the clashes tell apart.
Kinds(op) == {op} \cup (IF op \in Decisions THEN {"decide"} ELSE {})
                  \cup (IF op \in {"forward", "mail"} THEN {"append"} ELSE {})
                  \cup (IF op = "flag" THEN {"file"} ELSE {})

Knowing(op, on, at, what) ==
  [op |-> op, on |-> on, at |-> at, knows |-> what, rows |-> {}, saw |-> {}]
Request(op, on, at) == Knowing(op, on, at, {})

ClashesOf ==
  [op \in OnReports \cup OnMember |-> [other \in OnReports \cup OnMember |->
     {c \in Clashes : \E k \in Kinds(op), m \in Kinds(other) : c = {k, m}}]]

\* A request's first read: it ends there, or goes on with what it knows.
Begins(r, request, goesOn) ==
  /\ r \notin Busy
  /\ goesOn
  /\ job' = [job EXCEPT ![r] = request]
  /\ met' = met \cup UNION {ClashesOf[request.op][job[q].op] : q \in Busy}
  /\ Cardinality(met') <= MaxClashes
  /\ UNCHANGED <<local, row, signed, post, standing, told>>

-----------------------------------------------------------------------------
(* Filing                                                                    *)

Reportable(t) == t \in Posts => post[t] = "live"

Filed == {f \in Filings : row[f] # "none"}
         \cup {job[r].on : r \in {q \in Busy : job[q].op \in {"file", "flag"}}}
MayFile(f) == Cardinality(Filed \cup {f}) <= MaxReports

\* The alert is enqueued: the first of its pile, or one more.
Tell(f) == told' = [told EXCEPT ![Target(f)] = IF @ = 0 THEN 1 ELSE 2]

\* A pile that was empty is a new one.
Pushed(f) ==
  /\ row' = [row EXCEPT ![f] = "open"]
  /\ told' = [told EXCEPT ![Target(f)] = IF Open(Target(f)) = {} THEN 0 ELSE @]

\* report_status shows a 404 for a post that is gone; report_user looks at
\* nothing but the name.
ReportForm(r, f) ==
  /\ f[1] \notin Peers /\ MayFile(f)
  /\ Begins(r, Request("file", f, "loaded"), Reportable(Target(f)))

\* Slip: the reporter may report again what has been decided.
CreateReport_Again(r) ==
  /\ At(r, "file", "loaded")
  /\ LET f == job[r].on IN
     IF row[f] # "open" THEN Pushed(f) /\ Goes(r, "created")
                        ELSE Ends(r) /\ UNCHANGED <<row, told>>
  /\ UNCHANGED <<local, signed, post, standing, met>>

\* get_or_create commits by itself.  One row for each reporter and target, ever.
CreateReport(r) ==
  /\ At(r, "file", "loaded")
  /\ LET f == job[r].on IN
     IF row[f] = "none" THEN Pushed(f) /\ Goes(r, "created")
                        ELSE Ends(r) /\ UNCHANGED <<row, told>>
  /\ UNCHANGED <<local, signed, post, standing, met>>

\* Slip: the report counts itself among those already told.
TellStaff_CountsItself(r) ==
  /\ At(r, "file", "created")
  /\ IF Open(Target(job[r].on)) = {} THEN Tell(job[r].on)
                                     ELSE UNCHANGED told
  /\ Ends(r)
  /\ UNCHANGED <<local, row, signed, post, standing, met>>

\* Another open report about the target means the staff has been told.
TellStaff(r) ==
  /\ At(r, "file", "created")
  /\ IF Open(Target(job[r].on)) \ {job[r].on} = {} THEN Tell(job[r].on)
                                                   ELSE UNCHANGED told
  /\ Ends(r)
  /\ UNCHANGED <<local, row, signed, post, standing, met>>

\* A Flag does both in the inbox's transaction, and its alert waits for the
\* commit.  It names live posts and members of this instance who are not
\* banned; a suspended one does not resolve.  The same report in another open
\* transaction makes the insert wait.
HandleFlag(r, f) ==
  /\ f[1] \in Peers /\ MayFile(f)
  /\ \A q \in Requests : ~(At(q, "flag", "inserted") /\ job[q].on = f)
  /\ Begins(r,
            Knowing("flag", f, "inserted",
                    IF Open(Target(f)) = {} THEN {} ELSE {"told"}),
            /\ local /\ "banned" \notin standing /\ Reportable(Target(f))
            /\ Target(f) = Person => "suspended" \notin standing
            /\ row[f] = "none")

CommitFlag(r) ==
  /\ At(r, "flag", "inserted")
  /\ LET f == job[r].on IN
     /\ row' = [row EXCEPT ![f] = "open"]
     /\ told' = [told EXCEPT ![Target(f)] =
          LET before == IF Open(Target(f)) = {} THEN 0 ELSE @ IN
          IF "told" \in job[r].knows THEN before
          ELSE IF before = 0 THEN 1 ELSE 2]
  /\ Ends(r)
  /\ UNCHANGED <<local, signed, post, standing, met>>

-----------------------------------------------------------------------------
(* Deciding                                                                  *)

\* The guards of each page, on what it loads: a resolved report is a 404, but
\* for a dismissal, which then finds nothing open.
MayDecide(op, f) ==
  CASE op = "dismiss" -> row[f] # "none"
    [] op = "delete_status" -> row[f] = "open" /\ Target(f) \in Posts
                               /\ post[Target(f)] = "live"
    [] op \in {"suspend", "ban"} -> row[f] = "open" /\ local
    [] op = "refuse" -> row[f] = "open" /\ ~local

\* What of the member's standing the decision will look at.
Looks(op) == CASE op \in {"suspend", "refuse"} -> {"suspended"}
               [] op = "ban" -> {"banned"}
               [] OTHER -> {}

LoadReport(r, op, f) ==
  Begins(r, Knowing(op, f, "loaded", standing \cap Looks(op)), MayDecide(op, f))

\* Slip: the UPDATE takes the whole pile, the resolved reports too.
Resolve_Everything(op, t) ==
  /\ row' = [f \in Filings |->
               IF f \in Pile(t) /\ row[f] # "none" THEN op ELSE row[f]]
  /\ signed' = signed \cup {f \in Pile(t) : row[f] # "none"}
  /\ told' = [told EXCEPT ![t] = 0]

\* unresolved_for_target(...).update(action, note): whatever is open by then,
\* and a note in place of the lines there were.
Resolve(op, t) ==
  /\ row' = [f \in Filings |-> IF f \in Open(t) THEN op ELSE row[f]]
  /\ signed' = signed \cup Open(t)
  /\ told' = [told EXCEPT ![t] = 0]

Dismiss(r) ==
  /\ At(r, "dismiss", "loaded")
  /\ Resolve("dismiss", Target(job[r].on))
  /\ Ends(r)
  /\ UNCHANGED <<local, post, standing, met>>

\* Slip: deletes outside the transaction, which then fails.
DeleteStatus_Apart(r) ==
  /\ At(r, "delete_status", "loaded")
  /\ post' = [post EXCEPT ![Target(job[r].on)] = "removed"]
  /\ Ends(r)
  /\ UNCHANGED <<local, row, signed, standing, told, met>>

\* The pile and the tombstone in one transaction; then the broadcast, if the
\* author is of this instance.
DeleteStatus(r) ==
  /\ At(r, "delete_status", "loaded")
  /\ Resolve("delete_status", Target(job[r].on))
  /\ post' = [post EXCEPT ![Target(job[r].on)] = "removed"]
  /\ IF local THEN Goes(r, "sent") ELSE Ends(r)
  /\ UNCHANGED <<local, standing, met>>

\* The pile is resolved even if the account it loaded was suspended already.
Suspend(r) ==
  /\ At(r, "suspend", "loaded")
  /\ Resolve("suspend", Target(job[r].on))
  /\ IF "suspended" \in job[r].knows
       THEN Ends(r) /\ UNCHANGED standing
       ELSE Goes(r, "sent") /\ standing' = standing \cup {"suspended"}
  /\ UNCHANGED <<local, post, met>>

\* Slip: the ban takes the reported post down and leaves the others.
Ban_OnePost(r) ==
  /\ At(r, "ban", "loaded")
  /\ Resolve("ban", Target(job[r].on))
  /\ IF "banned" \in job[r].knows
       THEN Ends(r) /\ UNCHANGED <<standing, post>>
       ELSE /\ Goes(r, "sent")
            /\ standing' = standing \cup {"banned"}
            /\ post' = [p \in Posts |-> IF p = Target(job[r].on) THEN "removed"
                                                                  ELSE post[p]]
  /\ UNCHANGED <<local, met>>

\* The ban takes down every post that is live by then.
Ban(r) ==
  /\ At(r, "ban", "loaded")
  /\ Resolve("ban", Target(job[r].on))
  /\ IF "banned" \in job[r].knows
       THEN Ends(r) /\ UNCHANGED <<standing, post>>
       ELSE /\ Goes(r, "sent")
            /\ standing' = standing \cup {"banned"}
            /\ post' = [p \in Posts |->
                          IF post[p] = "live" THEN "removed" ELSE post[p]]
  /\ UNCHANGED <<local, met>>

\* refuse_remote decides about the account and leaves the pile open.
RefuseRemote(r) ==
  /\ At(r, "refuse", "loaded")
  /\ standing' = IF "suspended" \in job[r].knows THEN standing
                                                 ELSE standing \cup {"suspended"}
  /\ Ends(r)
  /\ UNCHANGED <<local, row, signed, post, told, met>>

-----------------------------------------------------------------------------
(* The lines that are appended afterwards                                    *)

\* _append_note reads the reports, and will save each.
Appends(request, rows) ==
  [op |-> request.op, on |-> request.on, at |-> "read", knows |-> request.knows,
   rows |-> rows, saw |-> rows \cap signed]

\* An alert's mail has left, or failed to: late, and more than once if the queue
\* runs its task again.
MailSent(r, f) ==
  Begins(r, Appends(Request("mail", f, "read"), Open(Target(f))),
         row[f] # "none" /\ told[Target(f)] > 0)

\* A report about a remote member was sent on, or could not be; it stays open.
Forwarded(r, f) ==
  Begins(r, Appends(Request("forward", f, "read"), Open(Target(f))),
         row[f] = "open" /\ ~local /\ "suspended" \notin standing)

\* Some server was not told of a decision: all reports about the target, those
\* just resolved among them, will say so.
NotAllTold(r) ==
  /\ job[r].at = "sent"
  /\ LET t == Target(job[r].on) IN
     job' = [job EXCEPT ![r] = Appends(@, {f \in Pile(t) : row[f] # "none"})]
  /\ UNCHANGED <<local, row, signed, post, standing, told, met>>

AllTold(r) ==
  /\ job[r].at = "sent"
  /\ Ends(r)
  /\ UNCHANGED <<local, row, signed, post, standing, told, met>>

\* Slip: the line replaces the note.
SaveNotes_Replacing(r) ==
  /\ job[r].at = "read"
  /\ signed' = signed \ job[r].rows
  /\ Ends(r)
  /\ UNCHANGED <<local, row, post, standing, told, met>>

\* It writes back what it read and its line.
SaveNotes(r) ==
  /\ job[r].at = "read"
  /\ signed' = (signed \ job[r].rows) \cup job[r].saw
  /\ Ends(r)
  /\ UNCHANGED <<local, row, post, standing, told, met>>

-----------------------------------------------------------------------------
(* The member                                                                *)

\* A page of the member's loads the session's user, who must be active; the
\* lifts load the account, and stop if there is nothing to lift.
MemberPublishes(r, p) ==
  Begins(r, Request("publish", p, "loaded"),
         local /\ standing = {} /\ post[p] = "unborn")

LoadMember(r, op) ==
  Begins(r, Request(op, "none", "loaded"),
         \/ op = "unsuspend" /\ "suspended" \in standing
         \/ op = "unban" /\ "banned" \in standing)

Publish(r) ==
  /\ At(r, "publish", "loaded")
  /\ post' = [post EXCEPT ![job[r].on] = IF @ = "unborn" THEN "live" ELSE @]
  /\ Ends(r)
  /\ UNCHANGED <<local, row, signed, standing, told, met>>

Unsuspend(r) ==
  /\ At(r, "unsuspend", "loaded")
  /\ standing' = standing \ {"suspended"}
  /\ Ends(r)
  /\ UNCHANGED <<local, row, signed, post, told, met>>

\* An unban brings no post back.
Unban(r) ==
  /\ At(r, "unban", "loaded")
  /\ standing' = standing \ {"banned"}
  /\ Ends(r)
  /\ UNCHANGED <<local, row, signed, post, told, met>>

\* The author's own delete; the reports about the post stay open.
AuthorDeletes(p) ==
  /\ post[p] = "live" /\ standing = {}
  /\ post' = [post EXCEPT ![p] = "gone"]
  /\ UNCHANGED <<local, row, signed, standing, told, job, met>>

-----------------------------------------------------------------------------
Next ==
  \/ \E r \in Requests :
       \/ \E f \in Filings :
            \/ ReportForm(r, f)
            \/ HandleFlag(r, f)
            \/ \E op \in Decisions \cup {"refuse"} : LoadReport(r, op, f)
            \/ Forwarded(r, f)
            \/ MailSent(r, f)
       \/ \E p \in Posts : MemberPublishes(r, p)
       \/ \E op \in {"unsuspend", "unban"} : LoadMember(r, op)
       \/ CreateReport(r)
       \/ TellStaff(r)
       \/ CommitFlag(r)
       \/ Dismiss(r)
       \/ DeleteStatus(r)
       \/ Suspend(r)
       \/ Ban(r)
       \/ RefuseRemote(r)
       \/ NotAllTold(r)
       \/ AllTold(r)
       \/ SaveNotes(r)
       \/ Publish(r)
       \/ Unsuspend(r)
       \/ Unban(r)
  \/ \E p \in Posts : AuthorDeletes(p)

Spec == Init /\ [][Next]_vars

-----------------------------------------------------------------------------
(* Properties *)

Apart(clash) == clash \notin met

Filing(t) ==
  \E r \in Busy : job[r].op \in {"file", "flag"} /\ Target(job[r].on) = t

\* The staff hears of a pile once: when no report about the target is being
\* filed, one alert was enqueued for the reports that are open, unless two
\* reports were filed at once, or a Flag while the pile was decided.  Two forms
\* each see the other's row, and nobody is told; two Flags see neither, and the
\* staff is told twice; a Flag that saw the old pile tells nobody of the new one.
PileToldOnce ==
  Apart({"file"}) /\ Apart({"decide", "flag"}) =>
    \A t \in Targets : Open(t) # {} /\ ~Filing(t) => told[t] = 1

\* No decision is ever taken again: not by a stale tab, a second moderator, a
\* dismissal that checks nothing, nor the same reporter's next report.
DecisionIsFinal ==
  [][\A f \in Filings : row[f] \in Decisions => row'[f] = row[f]]_vars

\* R106: what was done to the member can be explained from the reports.  A
\* report that says its post was deleted has a deleted post; and unless two
\* decisions overlapped, a post a moderator took down, a ban and a suspension
\* each have a report that says so.
Explained ==
  /\ \A f \in Filings : row[f] = "delete_status" => post[Target(f)] # "live"
  /\ Apart({"decide"}) /\ local =>
       /\ \A p \in Posts : post[p] = "removed" =>
            \/ \E f \in Pile(p) : row[f] = "delete_status"
            \/ \E f \in Filings : row[f] = "ban"
       /\ "banned" \in standing => \E f \in Filings : row[f] = "ban"
       /\ "suspended" \in standing => \E f \in Filings : row[f] = "suspend"

\* A banned member has no live post, through unbans, new reports and new posts,
\* unless a post was being published while the ban ran.
BannedHasNoPosts ==
  Apart({"ban", "publish"}) /\ "banned" \in standing =>
    \A p \in Posts : post[p] # "live"

\* The note a moderator signed a decision with stays on the report, under every
\* line that is appended to it, unless one was being appended, or another
\* decision was being made, at the time.
NotesAreKept ==
  Apart({"append", "decide"}) /\ Apart({"decide"}) =>
    \A f \in Filings : row[f] \in Decisions => f \in signed
=============================================================================
