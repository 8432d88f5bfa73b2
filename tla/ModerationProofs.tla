--------------------------- MODULE ModerationProofs ---------------------------
(* Reports: the staff hears of a pile once, decisions are final and on the   *)
(* reports, a ban leaves no post and a note stays.  Interactions: who is     *)
(* named is told once, and rows and copies follow the text.  For any number  *)
(* of requests, people, posts and reports.                                   *)
(*                                                                           *)
(* The properties except requests that overlapped, by the history `met`.  So *)
(* the invariant says that whichever two are open have been noted            *)
(* (`Overlaps`), and what each page read still holds unless another that was *)
(* open could change it: `Heard`, `NoPostLeft`, `Remembered`, `OpenStill`.   *)
(* Decisions touch what is open by then, and the form what is not there yet: *)
(* a step each.  A Flag alone inserts in one step what it found missing in   *)
(* another, and rests on nobody else's having filed the same report in       *)
(* between (`FlagsAreNew`).  Interactions' invariant (`MInv`) says of one    *)
(* request at a time what its earlier statements have left (`OneByOne`), and *)
(* what holds of rows, notices and copies until a lapse is noted             *)
(* (`Unbroken`).  The types need of interactions that likes do not outnumber *)
(* what was begun and delivered (`LikesBegun`).                              *)
EXTENDS Moderation, DomainBlocksProofs

Jobs == [op : R!OnReports \cup R!OnMember \cup {"none"},
         on : Filings \cup Posts \cup {"none"},
         at : {"loaded", "created", "inserted", "sent", "read", "idle"},
         knows : SUBSET {"suspended", "banned", "told"},
         rows : SUBSET Filings, saw : SUBSET Filings]

Typed ==
  /\ row \in [Filings -> R!Decisions \cup {"none", "open"}]
  /\ job \in [Requests -> Jobs]
  /\ standing \subseteq {"suspended", "banned"}
  /\ signed \subseteq Filings

\* A form files for a member of this instance, a Flag for one of another; what
\* an open Flag has inserted is its own, and nobody else's report.
FlagsAreNew ==
  \A r \in Requests :
    /\ job[r].op = "file" => job[r].on \in Filings /\ job[r].on[1] \notin Peers
    /\ R!At(r, "flag", "inserted") =>
         /\ job[r].on \in Filings /\ job[r].on[1] \in Peers
         /\ row[job[r].on] = "none"
         /\ \A q \in Requests :
              R!At(q, "flag", "inserted") /\ job[q].on = job[r].on => q = r

IInv == Typed /\ FlagsAreNew

RowsKept == \A f \in Filings : row[f] \in R!Decisions => row'[f] = row[f]

-----------------------------------------------------------------------------
\* What a request's beginning and its later steps leave of the invariant: the
\* rows as they are, and no request newly at a form or a Flag.
Aside ==
  /\ row' = row
  /\ \A r \in Requests :
       /\ job'[r].op = "file" => job[r].op = "file" /\ job'[r].on = job[r].on
       /\ R!At(r, "flag", "inserted")' =>
            R!At(r, "flag", "inserted") /\ job'[r].on = job[r].on

LEMMA AsideKeeps == IInv /\ Typed' /\ Aside => IInv' /\ RowsKept
  BY DEF IInv, FlagsAreNew, Aside, RowsKept, R!At

LEMMA Begun ==
  ASSUME IInv, NEW r \in Requests, NEW request, NEW goesOn,
         R!Begins(r, request, goesOn),
         request \in Jobs
  PROVE  /\ Typed' /\ row' = row
         /\ job'[r] = request /\ \A q \in Requests \ {r} : job'[q] = job[q]
  BY DEF R!Begins, IInv, Typed, Jobs

\* A request that begins is typed, and only the form and the Flag file.
LEMMA BeginKeeps ==
  ASSUME IInv, NEW r \in Requests,
         \/ \E f \in Filings :
              \/ R!ReportForm(r, f) \/ R!HandleFlag(r, f)
              \/ \E op \in R!Decisions \cup {"refuse"} : R!LoadReport(r, op, f)
              \/ R!Forwarded(r, f) \/ R!MailSent(r, f)
         \/ \E p \in Posts : R!MemberPublishes(r, p)
         \/ \E op \in {"unsuspend", "unban"} : R!LoadMember(r, op)
  PROVE  IInv' /\ RowsKept
<1> USE DEF Jobs, R!Request, R!Knowing, R!Appends, R!Idle, R!OnReports, R!OnMember, R!Decisions
<1>1. ASSUME NEW f \in Filings, R!ReportForm(r, f) PROVE IInv' /\ RowsKept
  <2> DEFINE request == R!Request("file", f, "loaded")
  <2>1. /\ Typed' /\ row' = row
        /\ job'[r] = request /\ \A q \in Requests \ {r} : job'[q] = job[q]
    BY <1>1, Begun DEF R!ReportForm
  <2> QED
    BY <1>1, <2>1 DEF R!ReportForm, IInv, FlagsAreNew, RowsKept, R!At
<1>2. ASSUME NEW f \in Filings, R!HandleFlag(r, f) PROVE IInv' /\ RowsKept
  <2>0. PICK knows \in SUBSET {"suspended", "banned", "told"} :
          knows = IF R!Open(R!Target(f)) = {} THEN {} ELSE {"told"}
    OBVIOUS
  <2> DEFINE request == R!Knowing("flag", f, "inserted", knows)
  <2>1. /\ Typed' /\ row' = row
        /\ job'[r] = request /\ \A q \in Requests \ {r} : job'[q] = job[q]
    BY <1>2, <2>0, Begun DEF R!HandleFlag
  <2>2. row[f] = "none" /\ f[1] \in Peers
        /\ \A q \in Requests : ~(R!At(q, "flag", "inserted") /\ job[q].on = f)
    BY <1>2 DEF R!HandleFlag, R!Begins
  <2> QED
    BY <2>1, <2>2 DEF IInv, FlagsAreNew, RowsKept, R!At
<1>3. ASSUME NEW f \in Filings, NEW op \in R!Decisions \cup {"refuse"},
             R!LoadReport(r, op, f)
      PROVE  IInv' /\ RowsKept
  <2> DEFINE request == R!Knowing(op, f, "loaded", standing \cap R!Looks(op))
  <2>1. /\ Typed' /\ row' = row
        /\ job'[r] = request /\ \A q \in Requests \ {r} : job'[q] = job[q]
    <3>1. request \in Jobs
      BY DEF IInv, Typed, Jobs
    <3> QED
      BY <1>3, <3>1, Begun DEF R!LoadReport
  <2> QED
    BY <2>1, AsideKeeps DEF Aside, R!At
<1>4. ASSUME NEW f \in Filings, R!Forwarded(r, f) \/ R!MailSent(r, f)
      PROVE  IInv' /\ RowsKept
  <2>1. PICK op \in {"mail", "forward"} :
          R!Begins(r, R!Appends(R!Request(op, f, "read"), R!Open(R!Target(f))),
                 IF op = "mail" THEN row[f] # "none" /\ told[R!Target(f)] > 0
                 ELSE row[f] = "open" /\ ~local /\ "suspended" \notin standing)
    BY <1>4 DEF R!Forwarded, R!MailSent
  <2>2. R!Open(R!Target(f)) \subseteq Filings
    BY DEF R!Open, R!Pile
  <2>3. R!Appends(R!Request(op, f, "read"), R!Open(R!Target(f))) \in
          Jobs
    BY <2>2
  <2>4. /\ Typed' /\ row' = row /\ job'[r].op = op
        /\ \A q \in Requests \ {r} : job'[q] = job[q]
    BY <2>1, <2>3, Begun
  <2> QED
    BY <2>4, AsideKeeps DEF Aside, R!At
<1>5. ASSUME NEW p \in Posts, R!MemberPublishes(r, p) PROVE IInv' /\ RowsKept
  <2>1. /\ Typed' /\ row' = row /\ job'[r].op = "publish"
        /\ \A q \in Requests \ {r} : job'[q] = job[q]
    BY <1>5, Begun DEF R!MemberPublishes
  <2> QED
    BY <2>1, AsideKeeps DEF Aside, R!At
<1>6. ASSUME NEW op \in {"unsuspend", "unban"}, R!LoadMember(r, op)
      PROVE  IInv' /\ RowsKept
  <2>1. PICK goesOn \in BOOLEAN : R!Begins(r, R!Request(op, "none", "loaded"), goesOn)
    BY <1>6 DEF R!LoadMember, R!Begins
  <2>2. /\ Typed' /\ row' = row /\ job'[r].op = op
        /\ \A q \in Requests \ {r} : job'[q] = job[q]
    BY <2>1, Begun
  <2> QED
    BY <2>2, AsideKeeps DEF Aside, R!At
<1> QED
  BY <1>1, <1>2, <1>3, <1>4, <1>5, <1>6

\* The form files what is not there: a report of its own reporter's, so that no
\* open Flag has inserted it.
LEMMA CreateReportKeeps ==
  ASSUME IInv, NEW r \in Requests, R!CreateReport(r)
  PROVE  IInv' /\ RowsKept
<1>1. PICK f \in Filings : f = job[r].on /\ f[1] \notin Peers
  BY DEF R!CreateReport, R!At, IInv, FlagsAreNew
<1>2. /\ row' = IF row[f] = "none" THEN [row EXCEPT ![f] = "open"] ELSE row
      /\ job' \in [Requests -> Jobs]
      /\ \A q \in Requests \ {r} : job'[q] = job[q]
      /\ job'[r].op \in {"none", "file"}
      /\ job'[r].op = "file" => job'[r].on = f
  BY <1>1 DEF R!CreateReport, R!Pushed, R!Goes, R!Ends, R!Idle, R!At, IInv, Typed, Jobs
<1>3. Typed'
  BY <1>2 DEF R!CreateReport, IInv, Typed, Jobs
<1>4. FlagsAreNew'
  BY <1>1, <1>2 DEF IInv, FlagsAreNew, R!At, Typed, Jobs
<1>5. RowsKept
  BY <1>1, <1>2 DEF RowsKept, IInv, Typed, Jobs, R!Decisions
<1> QED
  BY <1>3, <1>4, <1>5 DEF IInv

\* A Flag's report was not there when it was inserted, and is not now.
LEMMA CommitFlagKeeps ==
  ASSUME IInv, NEW r \in Requests, R!CommitFlag(r)
  PROVE  IInv' /\ RowsKept
<1>1. PICK f \in Filings :
        /\ f = job[r].on /\ f[1] \in Peers /\ row[f] = "none"
        /\ \A q \in Requests :
             R!At(q, "flag", "inserted") /\ job[q].on = f => q = r
  BY DEF R!CommitFlag, IInv, FlagsAreNew
<1>2. row' = [row EXCEPT ![f] = "open"] /\ job' = [job EXCEPT ![r] = R!Idle]
      /\ standing' = standing /\ signed' = signed
  BY <1>1 DEF R!CommitFlag, R!Ends
<1>3. Typed'
  BY <1>2 DEF IInv, Typed, Jobs, R!Idle, R!Decisions
<1>4. FlagsAreNew'
  BY <1>1, <1>2 DEF IInv, FlagsAreNew, R!At, Typed, Jobs, R!Idle
<1>5. RowsKept
  BY <1>1, <1>2 DEF RowsKept, IInv, Typed, Jobs, R!Decisions
<1> QED
  BY <1>3, <1>4, <1>5 DEF IInv

\* A decision takes the reports that are open, and leaves a Flag's, which is not
\* there yet.
LEMMA DecisionKeeps ==
  ASSUME IInv, NEW r \in Requests,
         R!Dismiss(r) \/ R!DeleteStatus(r) \/ R!Suspend(r) \/ R!Ban(r)
  PROVE  IInv' /\ RowsKept
<1> USE DEF R!Decisions
<1>1. PICK op \in R!Decisions, t \in {R!Target(job[r].on)} : R!Resolve(op, t)
  BY DEF R!Dismiss, R!DeleteStatus, R!Suspend, R!Ban
<1>2. /\ row' = [f \in Filings |-> IF f \in R!Open(t) THEN op ELSE row[f]]
      /\ signed' = signed \cup R!Open(t)
      /\ R!Open(t) = {f \in Filings : R!Target(f) = t /\ row[f] = "open"}
  BY <1>1 DEF R!Resolve, R!Open, R!Pile
<1>3. job' = [job EXCEPT ![r] = R!Idle] \/ job' = [job EXCEPT ![r].at = "sent"]
  BY DEF R!Dismiss, R!DeleteStatus, R!Suspend, R!Ban, R!Ends, R!Goes
<1>4. standing' \subseteq {"suspended", "banned"}
  BY DEF R!Dismiss, R!DeleteStatus, R!Suspend, R!Ban, IInv, Typed, Jobs
<1>5. job[r].op \in R!Decisions
  BY DEF R!Dismiss, R!DeleteStatus, R!Suspend, R!Ban, R!At
<1>6. Typed'
  BY <1>2, <1>3, <1>4 DEF IInv, Typed, Jobs, R!Idle
<1>7. \A q \in Requests \ {r} : job'[q] = job[q]
  BY <1>3 DEF IInv, Typed, Jobs
<1>8. job'[r].op \notin {"file", "flag"}
  BY <1>3, <1>5 DEF IInv, Typed, Jobs, R!Idle
<1>9. \A f \in Filings : row[f] # "open" => row'[f] = row[f]
  BY <1>2
<1>10. FlagsAreNew'
  BY <1>7, <1>8, <1>9 DEF IInv, FlagsAreNew, R!At
<1> QED
  BY <1>6, <1>9, <1>10 DEF IInv, RowsKept

\* The rest leaves the rows, and ends requests or moves them on.
LEMMA RestKeeps ==
  ASSUME IInv, NEW r \in Requests,
         \/ R!TellStaff(r) \/ R!RefuseRemote(r) \/ R!NotAllTold(r) \/ R!AllTold(r)
         \/ R!SaveNotes(r) \/ R!Publish(r) \/ R!Unsuspend(r) \/ R!Unban(r)
  PROVE  IInv' /\ RowsKept
<1>1. CASE R!NotAllTold(r)
  <2>1. PICK rows \in SUBSET Filings :
          job' = [job EXCEPT ![r] = R!Appends(job[r], rows)]
    BY <1>1 DEF R!NotAllTold, R!Pile
  <2>2. job[r].at = "sent" /\ row' = row /\ signed' = signed /\ standing' = standing
    BY <1>1 DEF R!NotAllTold
  <2>3. Typed' /\ row' = row
    BY <2>1, <2>2 DEF R!Appends, IInv, Typed, Jobs
  <2>4. Aside
    BY <2>1, <2>3 DEF R!Appends, Aside, IInv, Typed, Jobs, R!At
  <2> QED
    BY <2>3, <2>4, AsideKeeps
<1>2. CASE ~R!NotAllTold(r)
  <2>1. row' = row /\ job' = [job EXCEPT ![r] = R!Idle]
        /\ standing' \subseteq {"suspended", "banned"} /\ signed' \subseteq Filings
    BY <1>2 DEF R!TellStaff, R!RefuseRemote, R!AllTold, R!SaveNotes, R!Publish, R!Unsuspend,
       R!Unban, R!Ends, IInv, Typed, Jobs
  <2>2. Typed'
    BY <2>1 DEF IInv, Typed, Jobs, R!Idle
  <2>3. Aside
    BY <2>1 DEF Aside, IInv, Typed, Jobs, R!Idle, R!At
  <2> QED
    BY <2>2, <2>3, AsideKeeps
<1> QED
  BY <1>1, <1>2

LEMMA IInvInit == R!Init => IInv
  BY DEF R!Init, IInv, Typed, Jobs, FlagsAreNew, R!Idle, R!At

LEMMA IInvStep == IInv /\ [R!Next]_(R!vars) => IInv' /\ (RowsKept \/ UNCHANGED R!vars)
<1> SUFFICES ASSUME IInv, [R!Next]_(R!vars)
             PROVE  IInv' /\ (RowsKept \/ UNCHANGED R!vars)
  OBVIOUS
<1>1. CASE UNCHANGED R!vars
  BY <1>1 DEF R!vars, IInv, Typed, Jobs, FlagsAreNew, R!At
<1>2. ASSUME NEW p \in Posts, R!AuthorDeletes(p) PROVE IInv' /\ RowsKept
  BY <1>2, AsideKeeps DEF R!AuthorDeletes, Aside, IInv, Typed, Jobs, R!At
<1> QED
  BY <1>1, <1>2, BeginKeeps, CreateReportKeeps, CommitFlagKeeps, DecisionKeeps,
     RestKeeps DEF R!Next

-----------------------------------------------------------------------------
(* How a request moves                                                       *)

\* A request begins: it is typed, and nothing else moves.
Starts(r, j) ==
  /\ job[r].op = "none" /\ j \in Jobs
  /\ job' = [job EXCEPT ![r] = j]
  /\ UNCHANGED <<local, row, signed, post, standing, told>>
  /\ met2' \subseteq R!Clashes \cup met2
  /\ \A q \in Requests \ {r} : job[q].op # "none" =>
       met2 \cup R!ClashesOf[j.op][job[q].op] \subseteq met2'
  /\ met2 \subseteq met2'

\* It goes on to its next step, or ends; what it will append to it reads after
\* its posts were sent.
Turns(r) ==
  /\ UNCHANGED <<local, met2>>
  /\ \E j \in Jobs :
       /\ job' = [job EXCEPT ![r] = j]
       /\ \/ j = R!Idle
          \/ /\ j.op = job[r].op /\ j.on = job[r].on
             /\ \/ /\ R!At(r, "file", "loaded") /\ j.at = "created"
                   /\ j.saw = job[r].saw /\ j.rows = job[r].rows
                \/ /\ job[r].at = "loaded" /\ j.at = "sent"
                   /\ job[r].op \in {"delete_status", "suspend", "ban"}
                   /\ j.saw = job[r].saw /\ j.rows = job[r].rows
                \/ /\ job[r].at = "sent" /\ j.at = "read"
                   /\ j.saw = j.rows \cap signed

Begin(r, j) ==
  \/ \E f \in Filings : R!ReportForm(r, f) /\ j = R!Request("file", f, "loaded")
  \/ \E f \in Filings, knows \in SUBSET {"told"} :
       /\ R!HandleFlag(r, f)
       /\ j = R!Knowing("flag", f, "inserted", knows)
       /\ "told" \in knows <=> R!Open(R!Target(f)) # {}
  \/ \E f \in Filings, op \in R!Decisions \cup {"refuse"} :
       /\ R!LoadReport(r, op, f)
       /\ j = R!Knowing(op, f, "loaded", standing \cap R!Looks(op))
  \/ \E f \in Filings :
       /\ R!Forwarded(r, f)
       /\ j = R!Appends(R!Request("forward", f, "read"), R!Open(R!Target(f)))
  \/ \E f \in Filings :
       /\ R!MailSent(r, f)
       /\ j = R!Appends(R!Request("mail", f, "read"), R!Open(R!Target(f)))
  \/ \E p \in Posts :
       R!MemberPublishes(r, p) /\ j = R!Request("publish", p, "loaded")
  \/ \E op \in {"unsuspend", "unban"} :
       R!LoadMember(r, op) /\ j = R!Request(op, "none", "loaded")

Later(r) ==
  \/ R!CreateReport(r) \/ R!TellStaff(r) \/ R!CommitFlag(r)
  \/ R!Dismiss(r) \/ R!DeleteStatus(r) \/ R!Suspend(r) \/ R!Ban(r)
  \/ R!RefuseRemote(r) \/ R!NotAllTold(r) \/ R!AllTold(r) \/ R!SaveNotes(r)
  \/ R!Publish(r) \/ R!Unsuspend(r) \/ R!Unban(r)

\* What begins is one of a few requests.
LEMMA Beginning ==
  ASSUME IInv, NEW r \in Requests,
         \/ \E f \in Filings :
              \/ R!ReportForm(r, f) \/ R!HandleFlag(r, f)
              \/ \E op \in R!Decisions \cup {"refuse"} : R!LoadReport(r, op, f)
              \/ R!Forwarded(r, f) \/ R!MailSent(r, f)
         \/ \E p \in Posts : R!MemberPublishes(r, p)
         \/ \E op \in {"unsuspend", "unban"} : R!LoadMember(r, op)
  PROVE  \E j \in Jobs : Begin(r, j)
<1> USE DEF Jobs, R!Request, R!Knowing, R!Appends, R!OnReports, R!OnMember,
        R!Decisions, R!Idle
<1>1. ASSUME NEW f \in Filings, R!ReportForm(r, f)
      PROVE  \E j \in Jobs : Begin(r, j)
  <2> DEFINE j == R!Request("file", f, "loaded")
  <2>1. j \in Jobs
    OBVIOUS
  <2>2. Begin(r, j)
    BY <1>1 DEF Begin
  <2> QED
    BY <2>1, <2>2
<1>2. ASSUME NEW f \in Filings, R!HandleFlag(r, f)
      PROVE  \E j \in Jobs : Begin(r, j)
  <2>1. PICK knows \in SUBSET {"told"} :
          "told" \in knows <=> R!Open(R!Target(f)) # {}
    <3>1. CASE R!Open(R!Target(f)) = {}
      <4>1. {} \in SUBSET {"told"} /\ "told" \notin {}
        OBVIOUS
      <4> QED
        BY <3>1, <4>1
    <3>2. CASE R!Open(R!Target(f)) # {}
      <4>1. {"told"} \in SUBSET {"told"} /\ "told" \in {"told"}
        OBVIOUS
      <4> QED
        BY <3>2, <4>1
    <3> QED
      BY <3>1, <3>2
  <2> DEFINE j == R!Knowing("flag", f, "inserted", knows)
  <2>2. j \in Jobs
    OBVIOUS
  <2>3. Begin(r, j)
    BY <1>2, <2>1 DEF Begin
  <2> QED
    BY <2>2, <2>3
<1>3. ASSUME NEW f \in Filings, NEW op \in R!Decisions \cup {"refuse"},
             R!LoadReport(r, op, f)
      PROVE  \E j \in Jobs : Begin(r, j)
  <2> DEFINE j == R!Knowing(op, f, "loaded", standing \cap R!Looks(op))
  <2>1. j \in Jobs
    BY DEF IInv, Typed
  <2>2. Begin(r, j)
    BY <1>3 DEF Begin
  <2> QED
    BY <2>1, <2>2
<1>4. ASSUME NEW f \in Filings, NEW op \in {"forward", "mail"},
             op = "forward" => R!Forwarded(r, f),
             op = "mail" => R!MailSent(r, f)
      PROVE  \E j \in Jobs : Begin(r, j)
  <2> DEFINE j == R!Appends(R!Request(op, f, "read"), R!Open(R!Target(f)))
  <2>1. j \in Jobs
    <3>1. R!Open(R!Target(f)) \subseteq Filings
      BY DEF R!Open, R!Pile
    <3> QED
      BY <3>1
  <2>2. Begin(r, j)
    BY <1>4 DEF Begin
  <2> QED
    BY <2>1, <2>2
<1>5. ASSUME NEW p \in Posts, R!MemberPublishes(r, p)
      PROVE  \E j \in Jobs : Begin(r, j)
  <2> DEFINE j == R!Request("publish", p, "loaded")
  <2>1. j \in Jobs
    OBVIOUS
  <2>2. Begin(r, j)
    BY <1>5 DEF Begin
  <2> QED
    BY <2>1, <2>2
<1>6. ASSUME NEW op \in {"unsuspend", "unban"}, R!LoadMember(r, op)
      PROVE  \E j \in Jobs : Begin(r, j)
  <2> DEFINE j == R!Request(op, "none", "loaded")
  <2>1. j \in Jobs
    OBVIOUS
  <2>2. Begin(r, j)
    BY <1>6 DEF Begin
  <2> QED
    BY <2>1, <2>2
<1> QED
  BY <1>1, <1>2, <1>3, <1>4, <1>5, <1>6

LEMMA BeginStarts ==
  ASSUME IInv, NEW r \in Requests, NEW j \in Jobs, Begin(r, j)
  PROVE  Starts(r, j)
<1>1. PICK goesOn : R!Begins(r, j, goesOn)
  <2>1. ASSUME NEW f \in Filings, R!HandleFlag(r, f), NEW knows \in SUBSET {"told"},
               "told" \in knows <=> R!Open(R!Target(f)) # {}
        PROVE  R!Begins(r, R!Knowing("flag", f, "inserted", knows),
                 /\ local /\ "banned" \notin standing /\ R!Reportable(R!Target(f))
                 /\ R!Target(f) = Person => "suspended" \notin standing
                 /\ row[f] = "none")
    <3>1. knows = IF R!Open(R!Target(f)) = {} THEN {} ELSE {"told"}
      BY <2>1
    <3> QED
      BY <2>1, <3>1 DEF R!HandleFlag
  <2> QED
    BY <2>1 DEF Begin, R!ReportForm, R!LoadReport, R!Forwarded, R!MailSent,
       R!MemberPublishes, R!LoadMember
<1>2. /\ job[r].op = "none" /\ job' = [job EXCEPT ![r] = j]
      /\ UNCHANGED <<local, row, signed, post, standing, told>>
      /\ met2' = met2 \cup UNION {R!ClashesOf[j.op][job[q].op] : q \in R!Busy}
  BY <1>1 DEF R!Begins, R!Busy
<1>3. \A q \in Requests : job[q].op # "none" =>
        R!ClashesOf[j.op][job[q].op] \subseteq met2'
  BY <1>2 DEF R!Busy
<1>4. j.op \in R!OnReports \cup R!OnMember
  BY DEF Begin, R!Request, R!Knowing, R!Appends, R!OnReports, R!OnMember
<1>5. \A q \in R!Busy : R!ClashesOf[j.op][job[q].op] \subseteq R!Clashes
  BY <1>4 DEF R!Busy, IInv, Typed, Jobs, R!ClashesOf
<1> QED
  BY <1>2, <1>3, <1>5 DEF Starts
LEMMA LaterTurns ==
  ASSUME IInv, NEW r \in Requests, Later(r)
  PROVE  Turns(r)
<1>0. R!Idle \in Jobs /\ job[r] \in Jobs
  BY DEF IInv, Typed, Jobs, R!Idle
<1>1. CASE job' = [job EXCEPT ![r] = R!Idle] /\ UNCHANGED <<local, met2>>
  BY <1>0, <1>1 DEF Turns
<1>2. CASE R!NotAllTold(r)
  <2>1. PICK rows \in SUBSET Filings :
          /\ job' = [job EXCEPT ![r] = R!Appends(job[r], rows)]
          /\ job[r].at = "sent" /\ UNCHANGED <<local, met2>>
    BY <1>2 DEF R!NotAllTold, R!Pile
  <2>2. R!Appends(job[r], rows) \in Jobs
    BY <1>0 DEF R!Appends, Jobs
  <2> QED
    BY <2>1, <2>2 DEF Turns, R!Appends
<1>3. CASE R!Goes(r, "created") /\ R!CreateReport(r)
  <2>1. [job[r] EXCEPT !.at = "created"] \in Jobs
    BY <1>0 DEF Jobs
  <2>2. /\ job' = [job EXCEPT ![r] = [job[r] EXCEPT !.at = "created"]]
        /\ R!At(r, "file", "loaded") /\ UNCHANGED <<local, met2>>
    BY <1>3 DEF R!Goes, R!CreateReport
  <2> QED
    BY <1>0, <2>1, <2>2 DEF Turns, Jobs
<1>4. CASE R!Goes(r, "sent") /\ (R!DeleteStatus(r) \/ R!Suspend(r) \/ R!Ban(r))
  <2>1. [job[r] EXCEPT !.at = "sent"] \in Jobs
    BY <1>0 DEF Jobs
  <2>2. /\ job' = [job EXCEPT ![r] = [job[r] EXCEPT !.at = "sent"]]
        /\ job[r].op \in {"delete_status", "suspend", "ban"}
        /\ job[r].at = "loaded" /\ UNCHANGED <<local, met2>>
    BY <1>4 DEF R!Goes, R!DeleteStatus, R!Suspend, R!Ban, R!At
  <2> QED
    BY <1>0, <2>1, <2>2 DEF Turns, Jobs
<1> QED
  BY <1>1, <1>2, <1>3, <1>4 DEF Later, R!CreateReport, R!TellStaff,
     R!CommitFlag, R!Dismiss, R!DeleteStatus, R!Suspend, R!Ban, R!RefuseRemote,
     R!AllTold, R!SaveNotes, R!Publish, R!Unsuspend, R!Unban, R!Ends

\* Every step of Next begins a request, takes one on, or is the author's own.
LEMMA StepCases ==
  ASSUME IInv, R!Next
  PROVE  \/ \E r \in Requests : \E j \in Jobs : Begin(r, j) /\ Starts(r, j)
         \/ \E r \in Requests : Later(r) /\ Turns(r)
         \/ \E p \in Posts : R!AuthorDeletes(p)
<1>1. \/ \E r \in Requests : \E j \in Jobs : Begin(r, j)
      \/ \E r \in Requests : Later(r)
      \/ \E p \in Posts : R!AuthorDeletes(p)
  BY Beginning DEF R!Next, Later
<1> QED
  BY <1>1, BeginStarts, LaterTurns

-----------------------------------------------------------------------------
(* What has overlapped                                                       *)

Deciding(op) == op \in R!Decisions
Files(op) == op \in {"file", "flag"}
AppendsOnly(op) == op \in {"forward", "mail"}

\* Two requests, and that their overlap has been noted.
Noted(one, two, noted) ==
  /\ Files(one) /\ Files(two) => {"file"} \in noted
  /\ Deciding(one) /\ two = "flag" => {"decide", "flag"} \in noted
  /\ Deciding(one) /\ Deciding(two) => {"decide"} \in noted
  /\ one = "ban" /\ two = "publish" => {"ban", "publish"} \in noted
  /\ AppendsOnly(one) /\ Deciding(two) => {"append", "decide"} \in noted

\* The requests that are open together have been noted as overlapping.
Overlaps ==
  \A r, q \in Requests : r # q => Noted(job[r].op, job[q].op, met2)

LEMMA Clash ==
  ASSUME NEW op \in R!OnReports \cup R!OnMember,
         NEW other \in R!OnReports \cup R!OnMember,
         NEW k \in R!Kinds(op), NEW m \in R!Kinds(other), {k, m} \in R!Clashes
  PROVE  {k, m} \in R!ClashesOf[op][other] /\ {k, m} \in R!ClashesOf[other][op]
<1>1. /\ R!ClashesOf[op][other] =
           {c \in R!Clashes : \E a \in R!Kinds(op), b \in R!Kinds(other) : c = {a, b}}
      /\ R!ClashesOf[other][op] =
           {c \in R!Clashes : \E a \in R!Kinds(other), b \in R!Kinds(op) : c = {a, b}}
  BY DEF R!ClashesOf
<1>2. {k, m} = {m, k}
  OBVIOUS
<1> QED
  BY <1>1, <1>2

\* Whichever of the two began last noted it.
LEMMA ClashesNoted ==
  ASSUME NEW one \in R!OnReports \cup R!OnMember,
         NEW two \in R!OnReports \cup R!OnMember, NEW noted,
         \/ R!ClashesOf[one][two] \subseteq noted
         \/ R!ClashesOf[two][one] \subseteq noted
  PROVE  Noted(one, two, noted)
<1> USE DEF R!Kinds
<1>1. ASSUME NEW k \in R!Kinds(one), NEW m \in R!Kinds(two), {k, m} \in R!Clashes
      PROVE  {k, m} \in noted
  BY <1>1, Clash
<1>2. ASSUME Files(one), Files(two) PROVE {"file"} \in noted
  <2>1. "file" \in R!Kinds(one) /\ "file" \in R!Kinds(two)
    BY <1>2 DEF Files
  <2>2. {"file", "file"} = {"file"} /\ {"file"} \in R!Clashes
    BY DEF R!Clashes
  <2> QED
    BY <1>1, <2>1, <2>2
<1>3. ASSUME Deciding(one), two = "flag" PROVE {"decide", "flag"} \in noted
  <2>1. "decide" \in R!Kinds(one) /\ "flag" \in R!Kinds(two)
    BY <1>3 DEF Deciding
  <2>2. {"decide", "flag"} \in R!Clashes
    BY DEF R!Clashes
  <2> QED
    BY <1>1, <2>1, <2>2
<1>4. ASSUME Deciding(one), Deciding(two) PROVE {"decide"} \in noted
  <2>1. "decide" \in R!Kinds(one) /\ "decide" \in R!Kinds(two)
    BY <1>4 DEF Deciding
  <2>2. {"decide", "decide"} = {"decide"} /\ {"decide"} \in R!Clashes
    BY DEF R!Clashes
  <2> QED
    BY <1>1, <2>1, <2>2
<1>5. ASSUME one = "ban", two = "publish" PROVE {"ban", "publish"} \in noted
  <2>1. "ban" \in R!Kinds(one) /\ "publish" \in R!Kinds(two)
    BY <1>5
  <2>2. {"ban", "publish"} \in R!Clashes
    BY DEF R!Clashes
  <2> QED
    BY <1>1, <2>1, <2>2
<1>6. ASSUME AppendsOnly(one), Deciding(two) PROVE {"append", "decide"} \in noted
  <2>1. "append" \in R!Kinds(one) /\ "decide" \in R!Kinds(two)
    BY <1>6 DEF Deciding, AppendsOnly
  <2>2. {"append", "decide"} \in R!Clashes
    BY DEF R!Clashes
  <2> QED
    BY <1>1, <2>1, <2>2
<1> QED
  BY <1>2, <1>3, <1>4, <1>5, <1>6 DEF Noted

LEMMA OverlapsInit == R!Init => Overlaps
  BY DEF R!Init, Overlaps, Noted, R!Idle, Files, Deciding, AppendsOnly, R!Decisions

LEMMA OverlapsStep == IInv /\ Overlaps /\ [R!Next]_(R!vars) => Overlaps'
<1> SUFFICES ASSUME IInv, Overlaps, [R!Next]_(R!vars),
                    NEW r \in Requests, NEW q \in Requests, r # q
             PROVE  Noted(job'[r].op, job'[q].op, met2')
  BY DEF Overlaps
<1>0. /\ Noted(job[r].op, job[q].op, met2)
      /\ job[r].op \in R!OnReports \cup R!OnMember \cup {"none"}
      /\ job[q].op \in R!OnReports \cup R!OnMember \cup {"none"}
  BY DEF Overlaps, IInv, Typed, Jobs
<1>1. \A op : Noted("none", op, met2') /\ Noted(op, "none", met2')
  BY DEF Noted, Files, Deciding, AppendsOnly, R!Decisions
<1>2. ASSUME met2 \subseteq met2',
             job'[r].op \in {job[r].op, "none"}, job'[q].op \in {job[q].op, "none"}
      PROVE  Noted(job'[r].op, job'[q].op, met2')
  <2>1. Noted(job[r].op, job[q].op, met2')
    BY <1>0, <1>2 DEF Noted
  <2> QED
    BY <1>1, <1>2, <2>1
<1>3. ASSUME NEW s \in Requests, NEW j \in Jobs, Begin(s, j), Starts(s, j)
      PROVE  Noted(job'[r].op, job'[q].op, met2')
  <2>1. \A p \in Requests \ {s} : job'[p] = job[p]
    BY <1>3 DEF Starts, IInv, Typed
  <2>2. job'[s] = j /\ job[s].op = "none" /\ met2 \subseteq met2'
    BY <1>3 DEF Starts, IInv, Typed
  <2>3. ASSUME NEW p \in Requests \ {s}, job[p].op # "none"
        PROVE  /\ R!ClashesOf[j.op][job[p].op] \subseteq met2'
               /\ job[p].op \in R!OnReports \cup R!OnMember
    BY <1>3, <2>3 DEF Starts, IInv, Typed, Jobs
  <2>4. j.op \in R!OnReports \cup R!OnMember
    BY <1>3 DEF Begin, R!Request, R!Knowing, R!Appends, R!OnReports, R!OnMember
  <2>5. CASE r # s /\ q # s
    BY <1>2, <2>1, <2>2, <2>5
  <2>6. CASE r = s
    <3>1. CASE job[q].op = "none"
      BY <1>1, <2>1, <2>6, <3>1
    <3>2. CASE job[q].op # "none"
      BY <2>1, <2>2, <2>3, <2>4, <2>6, <3>2, ClashesNoted
    <3> QED
      BY <3>1, <3>2
  <2>7. CASE q = s
    <3>1. CASE job[r].op = "none"
      BY <1>1, <2>1, <2>7, <3>1
    <3>2. CASE job[r].op # "none"
      BY <2>1, <2>2, <2>3, <2>4, <2>7, <3>2, ClashesNoted
    <3> QED
      BY <3>1, <3>2
  <2> QED
    BY <2>5, <2>6, <2>7
<1>4. ASSUME NEW s \in Requests, Turns(s)
      PROVE  Noted(job'[r].op, job'[q].op, met2')
  <2>1. \A p \in Requests : job'[p].op \in {job[p].op, "none"}
    BY <1>4 DEF Turns, IInv, Typed, R!Idle
  <2> QED
    BY <1>2, <1>4, <2>1 DEF Turns
<1>5. ASSUME NEW p \in Posts, R!AuthorDeletes(p)
      PROVE  Noted(job'[r].op, job'[q].op, met2')
  BY <1>2, <1>5 DEF R!AuthorDeletes
<1>6. CASE UNCHANGED R!vars
  BY <1>2, <1>6 DEF R!vars
<1> QED
  BY <1>3, <1>4, <1>5, <1>6, StepCases
-----------------------------------------------------------------------------
(* What a request is about                                                   *)

Ground ==
  /\ local \in BOOLEAN
  /\ post \in [Posts -> {"unborn", "live", "removed", "gone"}]
  /\ met2 \subseteq R!Clashes
  /\ signed \subseteq {f \in Filings : row[f] \in R!Decisions}
  /\ "banned" \in standing => local

\* What a request acts on it has found, and its account is where the decision
\* can be made; only decisions send posts, and what a request saw signed has
\* been decided.
Purpose(j) ==
  /\ j.op \in R!Decisions \cup {"file", "flag", "refuse"} => j.on \in Filings
  /\ j.op = "delete_status" => R!Target(j.on) \in Posts
  /\ j.op = "publish" => j.on \in Posts
  /\ j.op \in {"suspend", "ban"} => local
  /\ j.op = "refuse" => ~local
  /\ j.at = "sent" => j.op \in {"delete_status", "suspend", "ban"}
  /\ j.at = "read" => j.op \in R!Decisions \cup {"forward", "mail"}
  /\ j.at = "created" => j.op = "file"
  /\ j.saw \subseteq j.rows /\ \A f \in j.saw : row[f] \in R!Decisions

Purposeful == \A r \in Requests : Purpose(job[r])

Base == IInv /\ Overlaps /\ Ground /\ Purposeful

LEMMA BeginPurpose ==
  ASSUME Ground, NEW r \in Requests, NEW j \in Jobs, Begin(r, j)
  PROVE  Purpose(j)
<1> USE DEF R!Decisions, R!Request, R!Knowing, R!Appends, Purpose
<1>1. ASSUME NEW f \in Filings, NEW op \in R!Decisions \cup {"refuse"},
             R!LoadReport(r, op, f),
             j = R!Knowing(op, f, "loaded", standing \cap R!Looks(op))
      PROVE  Purpose(j)
  <2>1. R!MayDecide(op, f)
    BY <1>1 DEF R!LoadReport, R!Begins
  <2>2. /\ op = "delete_status" => R!Target(f) \in Posts
        /\ op \in {"suspend", "ban"} => local
        /\ op = "refuse" => ~local
    BY <2>1 DEF R!MayDecide
  <2> QED
    BY <1>1, <2>2
<1>2. ASSUME NEW f \in Filings, NEW op \in {"forward", "mail"},
             j = R!Appends(R!Request(op, f, "read"), R!Open(R!Target(f)))
      PROVE  Purpose(j)
  BY <1>2 DEF Ground
<1> QED
  BY <1>1, <1>2 DEF Begin

LEMMA GroundInit == R!Init => Ground /\ Purposeful
  BY DEF R!Init, Ground, Purposeful, Purpose, R!Idle, R!Decisions

LEMMA GroundStep == Base /\ [R!Next]_(R!vars) => Ground'
<1> SUFFICES ASSUME Base, [R!Next]_(R!vars) PROVE Ground'
  OBVIOUS
<1> USE DEF Base
<1>1. ASSUME RowsKept PROVE \A f \in signed : f \in Filings /\ row'[f] \in R!Decisions
  BY <1>1 DEF RowsKept, Ground
<1>2. IInv' /\ (RowsKept \/ UNCHANGED R!vars)
  BY IInvStep
<1>3. ASSUME NEW r \in Requests, NEW j \in Jobs, Starts(r, j) PROVE Ground'
  BY <1>3 DEF Starts, Ground
<1>4. ASSUME NEW r \in Requests, Later(r), Turns(r), RowsKept PROVE Ground'
  <2>1. local' = local /\ met2' = met2
    BY <1>4 DEF Turns
  <2>2. post' \in [Posts -> {"unborn", "live", "removed", "gone"}]
    BY <1>4 DEF Ground, Later, R!CreateReport, R!TellStaff, R!CommitFlag,
       R!Dismiss, R!DeleteStatus, R!Suspend, R!Ban, R!RefuseRemote,
       R!NotAllTold, R!AllTold, R!SaveNotes, R!Publish, R!Unsuspend, R!Unban
  <2>3. "banned" \in standing' => local'
    <3>1. CASE R!Ban(r)
      BY <2>1, <3>1 DEF R!Ban, R!At, Purposeful, Purpose, Ground
    <3>2. CASE ~R!Ban(r)
      <4>1. "banned" \in standing' => "banned" \in standing
        BY <1>4, <3>2 DEF Later, R!CreateReport, R!TellStaff, R!CommitFlag,
           R!Dismiss, R!DeleteStatus, R!Suspend, R!RefuseRemote, R!NotAllTold,
           R!AllTold, R!SaveNotes, R!Publish, R!Unsuspend, R!Unban
      <4> QED
        BY <2>1, <4>1 DEF Ground
    <3> QED
      BY <3>1, <3>2
  <2>4. signed' \subseteq {f \in Filings : row'[f] \in R!Decisions}
    <3>1. CASE signed' = signed
      BY <1>1, <1>4, <3>1
    <3>2. CASE R!SaveNotes(r)
      <4>1. signed' \subseteq signed \cup job[r].saw /\ row' = row
        BY <3>2 DEF R!SaveNotes
      <4> QED
        BY <4>1 DEF Ground, Purposeful, Purpose, IInv, Typed, Jobs
    <3>3. ASSUME NEW op \in R!Decisions, NEW t, R!Resolve(op, t)
          PROVE  signed' \subseteq {f \in Filings : row'[f] \in R!Decisions}
      <4>1. R!Open(t) \subseteq Filings
        BY DEF R!Open, R!Pile
      <4>2. signed' = signed \cup R!Open(t) /\ \A f \in R!Open(t) : row'[f] = op
        BY <3>3, <4>1 DEF R!Resolve
      <4> QED
        BY <1>1, <1>4, <4>1, <4>2
    <3>4. \/ signed' = signed \/ R!SaveNotes(r)
          \/ \E op \in R!Decisions : R!Resolve(op, R!Target(job[r].on))
      BY <1>4 DEF Later, R!CreateReport, R!TellStaff, R!CommitFlag, R!Dismiss,
         R!DeleteStatus, R!Suspend, R!Ban, R!RefuseRemote, R!NotAllTold,
         R!AllTold, R!Publish, R!Unsuspend, R!Unban, R!Decisions
    <3> QED
      BY <3>1, <3>2, <3>3, <3>4
  <2> QED
    BY <2>1, <2>2, <2>3, <2>4 DEF Ground
<1>5. ASSUME NEW p \in Posts, R!AuthorDeletes(p) PROVE Ground'
  BY <1>5 DEF R!AuthorDeletes, Ground
<1>6. CASE UNCHANGED R!vars
  BY <1>6 DEF R!vars, Ground
<1> QED
  BY <1>2, <1>3, <1>4, <1>5, <1>6, StepCases

LEMMA PurposefulStep == Base /\ [R!Next]_(R!vars) => Purposeful'
<1> SUFFICES ASSUME Base, [R!Next]_(R!vars), NEW q \in Requests
             PROVE  Purpose(job[q])'
  BY DEF Purposeful
<1> USE DEF Base
<1>1. Purpose(job[q]) /\ job[q] \in Jobs /\ (RowsKept \/ UNCHANGED R!vars)
  BY IInvStep DEF Purposeful, IInv, Typed
<1>2. ASSUME job'[q] = job[q], local' = local,
             \A f \in job[q].saw : row'[f] \in R!Decisions
      PROVE  Purpose(job[q])'
  BY <1>1, <1>2 DEF Purpose
<1>3. ASSUME NEW r \in Requests, NEW j \in Jobs, Begin(r, j), Starts(r, j)
      PROVE  Purpose(job[q])'
  <2>1. local' = local /\ row' = row
        /\ (q # r => job'[q] = job[q]) /\ (q = r => job'[q] = j)
    BY <1>3 DEF Starts, IInv, Typed
  <2>2. Purpose(j)
    BY <1>3, BeginPurpose
  <2>3. CASE q # r
    BY <1>1, <1>2, <2>1, <2>3 DEF Purpose
  <2>4. CASE q = r
    BY <2>1, <2>2, <2>4 DEF Purpose
  <2> QED
    BY <2>3, <2>4
<1>4. ASSUME NEW r \in Requests, Turns(r), RowsKept PROVE Purpose(job[q])'
  <2>1. \A f \in job[q].saw : row'[f] \in R!Decisions
    BY <1>1, <1>4 DEF Purpose, RowsKept, Jobs
  <2>2. local' = local /\ (q # r => job'[q] = job[q])
    BY <1>4 DEF Turns, IInv, Typed
  <2>3. CASE q # r
    BY <1>2, <2>1, <2>2, <2>3
  <2>4. CASE q = r
    <3>1. PICK j \in Jobs : job'[q] = j /\
            \/ j = R!Idle
            \/ /\ j.op = job[q].op /\ j.on = job[q].on
               /\ \/ /\ R!At(q, "file", "loaded") /\ j.at = "created"
                     /\ j.saw = job[q].saw /\ j.rows = job[q].rows
                  \/ /\ job[q].at = "loaded" /\ j.at = "sent"
                     /\ job[q].op \in {"delete_status", "suspend", "ban"}
                     /\ j.saw = job[q].saw /\ j.rows = job[q].rows
                  \/ /\ job[q].at = "sent" /\ j.at = "read"
                     /\ j.saw = j.rows \cap signed
      BY <1>4, <2>4 DEF Turns, IInv, Typed
    <3>2. CASE j = R!Idle
      BY <2>2, <3>1, <3>2 DEF Purpose, R!Idle, R!Decisions
    <3>3. CASE /\ j.saw = job[q].saw /\ j.rows = job[q].rows
               /\ j.op = job[q].op /\ j.on = job[q].on
               /\ \/ R!At(q, "file", "loaded") /\ j.at = "created"
                  \/ /\ job[q].op \in {"delete_status", "suspend", "ban"}
                     /\ j.at = "sent"
      BY <1>1, <2>1, <2>2, <3>1, <3>3 DEF Purpose, R!At
    <3>4. CASE /\ j.op = job[q].op /\ j.on = job[q].on
               /\ job[q].at = "sent" /\ j.at = "read"
               /\ j.saw = j.rows \cap signed
      <4>1. \A f \in j.saw : row'[f] \in R!Decisions
        BY <1>4, <3>4 DEF RowsKept, Ground
      <4> QED
        BY <1>1, <2>2, <3>1, <3>4, <4>1 DEF Purpose, R!Decisions
    <3> QED
      BY <3>1, <3>2, <3>3, <3>4
  <2> QED
    BY <2>3, <2>4
<1>5. ASSUME NEW p \in Posts, R!AuthorDeletes(p) PROVE Purpose(job[q])'
  BY <1>1, <1>2, <1>5 DEF R!AuthorDeletes, Purpose
<1>6. CASE UNCHANGED R!vars
  BY <1>1, <1>2, <1>6 DEF R!vars, Purpose
<1> QED
  BY <1>1, <1>3, <1>4, <1>5, <1>6, StepCases

LEMMA BaseInit == R!Init => Base
  BY IInvInit, OverlapsInit, GroundInit DEF Base

LEMMA BaseStep == Base /\ [R!Next]_(R!vars) => Base' /\ (RowsKept \/ UNCHANGED R!vars)
  BY IInvStep, OverlapsStep, GroundStep, PurposefulStep DEF Base
-----------------------------------------------------------------------------
(* A ban leaves no post                                                      *)

\* Unless a ban and a post have overlapped, a ban finds every post there will
\* be: nobody is publishing while it runs, and nobody begins to afterwards.
NoPostLeft ==
  R!Apart({"ban", "publish"}) =>
    /\ "banned" \in standing => \A p \in Posts : post[p] # "live"
    /\ \A r \in Requests : job[r].op = "publish" => "banned" \notin standing

LEMMA NoPostLeftInit == R!Init => NoPostLeft
  BY DEF R!Init, NoPostLeft, R!Idle

LEMMA NoPostLeftStep == Base /\ NoPostLeft /\ [R!Next]_(R!vars) => NoPostLeft'
<1> SUFFICES ASSUME Base, NoPostLeft, [R!Next]_(R!vars) PROVE NoPostLeft'
  OBVIOUS
<1> USE DEF Base
<1>1. ASSUME met2 \subseteq met2',
             "banned" \in standing' => "banned" \in standing,
             \A p \in Posts : post'[p] = "live" => post[p] = "live",
             \A r \in Requests : job'[r].op = "publish" =>
               job[r].op = "publish" \/ "banned" \notin standing
      PROVE  NoPostLeft'
  BY <1>1 DEF NoPostLeft, R!Apart
<1>2. ASSUME NEW r \in Requests, NEW j \in Jobs, Begin(r, j), Starts(r, j)
      PROVE  NoPostLeft'
  <2>1. j.op = "publish" => "banned" \notin standing
    BY <1>2 DEF Begin, R!Request, R!Knowing, R!Appends, R!Decisions,
       R!MemberPublishes, R!Begins
  <2>2. /\ met2 \subseteq met2' /\ standing' = standing /\ post' = post
        /\ \A q \in Requests : job'[q] = job[q] \/ job'[q] = j
    BY <1>2 DEF Starts, IInv, Typed
  <2> QED
    BY <1>1, <2>1, <2>2
<1>3. ASSUME NEW r \in Requests, Later(r), Turns(r) PROVE NoPostLeft'
  <2>1. /\ met2' = met2
        /\ \A q \in Requests : job'[q].op = "publish" => job[q].op = "publish"
    BY <1>3 DEF Turns, IInv, Typed, R!Idle
  <2>2. CASE R!Ban(r) /\ "banned" \notin job[r].knows
    <3>1. \A p \in Posts : post'[p] # "live"
      BY <2>2 DEF R!Ban, Ground
    <3>2. ASSUME R!Apart({"ban", "publish"}), NEW q \in Requests
          PROVE  job[q].op # "publish"
      BY <2>2, <3>2 DEF R!Ban, R!At, Overlaps, Noted, R!Apart
    <3> QED
      BY <2>1, <3>1, <3>2 DEF NoPostLeft, R!Apart
  <2>3. CASE R!Publish(r)
    <3>1. standing' = standing /\ job[r].op = "publish"
          /\ \A p \in Posts : post'[p] = "live" => post[p] = "live" \/ p = job[r].on
      BY <2>3 DEF R!Publish, R!At, Ground
    <3> QED
      BY <2>1, <3>1 DEF NoPostLeft, R!Apart
  <2>4. CASE ~(R!Ban(r) /\ "banned" \notin job[r].knows) /\ ~R!Publish(r)
    <3>1. "banned" \in standing' => "banned" \in standing
      BY <1>3, <2>4 DEF Later, R!CreateReport, R!TellStaff, R!CommitFlag,
         R!Dismiss, R!DeleteStatus, R!Suspend, R!Ban, R!RefuseRemote,
         R!NotAllTold, R!AllTold, R!SaveNotes, R!Unsuspend, R!Unban
    <3>2. \A p \in Posts : post'[p] = "live" => post[p] = "live"
      BY <1>3, <2>4 DEF Later, R!CreateReport, R!TellStaff, R!CommitFlag,
         R!Dismiss, R!DeleteStatus, R!Suspend, R!Ban, R!RefuseRemote,
         R!NotAllTold, R!AllTold, R!SaveNotes, R!Unsuspend, R!Unban, Ground
    <3> QED
      BY <1>1, <2>1, <3>1, <3>2
  <2> QED
    BY <2>2, <2>3, <2>4
<1>4. ASSUME NEW p \in Posts, R!AuthorDeletes(p) PROVE NoPostLeft'
  BY <1>1, <1>4 DEF R!AuthorDeletes, Ground
<1>5. CASE UNCHANGED R!vars
  BY <1>1, <1>5 DEF R!vars
<1> QED
  BY <1>2, <1>3, <1>4, <1>5, StepCases

-----------------------------------------------------------------------------
(* A decision keeps its note                                                 *)

\* Unless a decision has overlapped with another or with a line being appended,
\* what is decided is signed, and what is being appended to has not been signed
\* since it was read.
Remembered ==
  R!Apart({"append", "decide"}) /\ R!Apart({"decide"}) =>
    /\ \A f \in Filings : row[f] \in R!Decisions => f \in signed
    /\ \A r \in Requests :
         job[r].at = "read" => job[r].saw = job[r].rows \cap signed

LEMMA RememberedInit == R!Init => Remembered
  BY DEF R!Init, Remembered, R!Idle, R!Decisions

LEMMA RememberedStep == Base /\ Remembered /\ [R!Next]_(R!vars) => Remembered'
<1> SUFFICES ASSUME Base, Remembered, [R!Next]_(R!vars) PROVE Remembered'
  OBVIOUS
<1> USE DEF Base
<1>1. ASSUME met2 \subseteq met2', signed' = signed,
             \A f \in Filings : row'[f] \in R!Decisions => row[f] \in R!Decisions,
             \A r \in Requests :
               \/ job'[r] = job[r] \/ job'[r].at # "read"
               \/ job'[r].saw = job'[r].rows \cap signed
      PROVE  Remembered'
  BY <1>1 DEF Remembered, R!Apart
<1>2. ASSUME NEW r \in Requests, NEW j \in Jobs, Begin(r, j), Starts(r, j)
      PROVE  Remembered'
  <2>1. j.at = "read" => j.saw = j.rows \cap signed
    BY <1>2 DEF Begin, R!Request, R!Knowing, R!Appends
  <2>2. /\ met2 \subseteq met2' /\ signed' = signed /\ row' = row
        /\ \A q \in Requests : job'[q] = job[q] \/ job'[q] = j
    BY <1>2 DEF Starts, IInv, Typed
  <2> QED
    BY <1>1, <2>1, <2>2
<1>3. ASSUME NEW r \in Requests, Later(r), Turns(r), RowsKept PROVE Remembered'
  <2>1. /\ met2' = met2
        /\ \A q \in Requests :
             \/ job'[q] = job[q] \/ job'[q].at # "read"
             \/ job'[q].saw = job'[q].rows \cap signed
        /\ \A q \in Requests \ {r} : job'[q] = job[q]
    BY <1>3 DEF Turns, IInv, Typed, R!Idle
  <2>2. ASSUME NEW op \in R!Decisions, NEW t, R!Resolve(op, t),
               job[r].op \in R!Decisions, job[r].at = "loaded"
        PROVE  Remembered'
    <3>1. /\ signed' = signed \cup R!Open(t)
          /\ \A f \in Filings : row'[f] = IF f \in R!Open(t) THEN op ELSE row[f]
      BY <2>2 DEF R!Resolve
    <3>2. job'[r].at # "read"
      BY <1>3, <2>2 DEF Turns, IInv, Typed, R!Idle
    <3>3. ASSUME R!Apart({"append", "decide"}), R!Apart({"decide"}),
                 NEW q \in Requests \ {r}
          PROVE  job[q].at # "read"
      <4>1. Noted(job[r].op, job[q].op, met2) /\ Noted(job[q].op, job[r].op, met2)
        BY DEF Overlaps
      <4>2. ~Deciding(job[q].op) /\ ~AppendsOnly(job[q].op)
        BY <2>2, <3>3, <4>1 DEF Noted, R!Apart, Deciding
      <4> QED
        BY <4>2 DEF Deciding, AppendsOnly, Purposeful, Purpose
    <3> QED
      BY <2>1, <3>1, <3>2, <3>3 DEF Remembered, R!Apart
  <2>3. CASE R!SaveNotes(r)
    <3>1. /\ row' = row /\ job[r].at = "read" /\ job'[r].at # "read"
          /\ signed' = (signed \ job[r].rows) \cup job[r].saw
      BY <2>3 DEF R!SaveNotes, R!Ends, R!Idle, IInv, Typed
    <3>2. ASSUME R!Apart({"append", "decide"}), R!Apart({"decide"})
          PROVE  signed' = signed
      <4>1. job[r].saw = job[r].rows \cap signed
        BY <3>1, <3>2 DEF Remembered
      <4> QED
        BY <3>1, <4>1
    <3> QED
      BY <2>1, <3>1, <3>2 DEF Remembered, R!Apart
  <2>4. CASE /\ signed' = signed
             /\ \A f \in Filings :
                  row'[f] \in R!Decisions => row[f] \in R!Decisions
    BY <1>1, <2>1, <2>4
  <2>5. \/ R!SaveNotes(r)
        \/ /\ job[r].op \in R!Decisions /\ job[r].at = "loaded"
           /\ \E op \in R!Decisions : R!Resolve(op, R!Target(job[r].on))
        \/ signed' = signed /\ row' = row
        \/ signed' = signed /\ \E f : row' = [row EXCEPT ![f] = "open"]
    BY <1>3 DEF Later, R!CreateReport, R!Pushed, R!TellStaff, R!CommitFlag,
       R!Dismiss, R!DeleteStatus, R!Suspend, R!Ban, R!RefuseRemote,
       R!NotAllTold, R!AllTold, R!Publish, R!Unsuspend, R!Unban, R!Decisions,
       R!At
  <2>6. ASSUME NEW f, row' = [row EXCEPT ![f] = "open"], NEW g \in Filings,
               row'[g] \in R!Decisions
        PROVE  row[g] \in R!Decisions
    BY <2>6 DEF IInv, Typed, R!Decisions
  <2> QED
    BY <2>2, <2>3, <2>4, <2>5, <2>6
<1>4. ASSUME NEW p \in Posts, R!AuthorDeletes(p) PROVE Remembered'
  BY <1>1, <1>4 DEF R!AuthorDeletes
<1>5. CASE UNCHANGED R!vars
  BY <1>1, <1>5 DEF R!vars
<1> QED
  BY <1>2, <1>3, <1>4, <1>5, StepCases, IInvStep
-----------------------------------------------------------------------------
(* What was done to the member is on the reports                             *)

\* A report that says so has a post that was taken down, for good.
Tombstones ==
  \A f \in Filings : row[f] = "delete_status" =>
    R!Target(f) \in Posts /\ post[R!Target(f)] \in {"removed", "gone"}

\* Unless decisions have overlapped, the report somebody is deciding is open.
OpenStill ==
  R!Apart({"decide"}) =>
    \A r \in Requests :
      job[r].op \in {"delete_status", "suspend", "ban"} /\ job[r].at = "loaded" =>
        row[job[r].on] = "open"

Accounted ==
  R!Apart({"decide"}) /\ local =>
    /\ \A p \in Posts : post[p] = "removed" =>
         \/ \E f \in R!Pile(p) : row[f] = "delete_status"
         \/ \E f \in Filings : row[f] = "ban"
    /\ "banned" \in standing => \E f \in Filings : row[f] = "ban"
    /\ "suspended" \in standing => \E f \in Filings : row[f] = "suspend"

LEMMA AccountsInit == R!Init => Tombstones /\ OpenStill /\ Accounted
  BY DEF R!Init, Tombstones, OpenStill, Accounted, R!Idle

LEMMA TombstonesStep == Base /\ Tombstones /\ [R!Next]_(R!vars) => Tombstones'
<1> SUFFICES ASSUME Base, Tombstones, [R!Next]_(R!vars) PROVE Tombstones'
  OBVIOUS
<1> USE DEF Base
<1>1. ASSUME \A f \in Filings :
               row'[f] = "delete_status" => row[f] = "delete_status",
             \A p \in Posts : post[p] \in {"removed", "gone"} =>
               post'[p] \in {"removed", "gone"}
      PROVE  Tombstones'
  BY <1>1 DEF Tombstones
<1>2. ASSUME NEW r \in Requests, NEW j \in Jobs, Starts(r, j)
      PROVE  Tombstones'
  BY <1>1, <1>2 DEF Starts
<1>3. ASSUME NEW r \in Requests, Later(r) PROVE Tombstones'
  <2>1. \A p \in Posts : post[p] \in {"removed", "gone"} =>
          post'[p] \in {"removed", "gone"}
    BY <1>3 DEF Later, R!CreateReport, R!TellStaff, R!CommitFlag, R!Dismiss,
       R!DeleteStatus, R!Suspend, R!Ban, R!RefuseRemote, R!NotAllTold,
       R!AllTold, R!SaveNotes, R!Publish, R!Unsuspend, R!Unban, Ground
  <2>2. CASE R!DeleteStatus(r)
    <3> DEFINE t == R!Target(job[r].on)
    <3>1. t \in Posts /\ post'[t] = "removed"
      BY <2>2 DEF R!DeleteStatus, R!At, Purposeful, Purpose, Ground
    <3>2. \A f \in Filings :
            row'[f] = IF f \in R!Open(t) THEN "delete_status" ELSE row[f]
      BY <2>2 DEF R!DeleteStatus, R!Resolve
    <3>3. \A f \in R!Open(t) : R!Target(f) = t
      BY DEF R!Open, R!Pile
    <3> QED
      BY <2>1, <3>1, <3>2, <3>3 DEF Tombstones
  <2>3. ASSUME NEW op \in {"dismiss", "suspend", "ban"}, NEW t, R!Resolve(op, t),
               NEW f \in Filings, row'[f] = "delete_status"
        PROVE  row[f] = "delete_status"
    BY <2>3 DEF R!Resolve
  <2>4. ASSUME NEW f, row' = [row EXCEPT ![f] = "open"], NEW g \in Filings,
               row'[g] = "delete_status"
        PROVE  row[g] = "delete_status"
    BY <2>4 DEF IInv, Typed
  <2>5. \/ R!DeleteStatus(r)
        \/ \E op \in {"dismiss", "suspend", "ban"} :
             R!Resolve(op, R!Target(job[r].on))
        \/ row' = row
        \/ \E f : row' = [row EXCEPT ![f] = "open"]
    BY <1>3 DEF Later, R!CreateReport, R!Pushed, R!TellStaff, R!CommitFlag,
       R!Dismiss, R!Suspend, R!Ban, R!RefuseRemote, R!NotAllTold, R!AllTold,
       R!SaveNotes, R!Publish, R!Unsuspend, R!Unban
  <2> QED
    BY <1>1, <2>1, <2>2, <2>3, <2>4, <2>5
<1>4. ASSUME NEW p \in Posts, R!AuthorDeletes(p) PROVE Tombstones'
  BY <1>1, <1>4 DEF R!AuthorDeletes, Ground
<1>5. CASE UNCHANGED R!vars
  BY <1>1, <1>5 DEF R!vars
<1> QED
  BY <1>2, <1>3, <1>4, <1>5, StepCases

LEMMA OpenStillStep == Base /\ OpenStill /\ [R!Next]_(R!vars) => OpenStill'
<1> SUFFICES ASSUME Base, OpenStill, [R!Next]_(R!vars) PROVE OpenStill'
  OBVIOUS
<1> USE DEF Base
<1>1. ASSUME met2 \subseteq met2',
             \A f \in Filings : row[f] = "open" => row'[f] = "open",
             \A r \in Requests :
               \/ job'[r] = job[r] \/ job'[r].at # "loaded"
               \/ job'[r].op \in {"delete_status", "suspend", "ban"} =>
                    row[job'[r].on] = "open" /\ job'[r].on \in Filings
      PROVE  OpenStill'
  BY <1>1 DEF OpenStill, R!Apart, Purposeful, Purpose, R!Decisions
<1>2. ASSUME NEW r \in Requests, NEW j \in Jobs, Begin(r, j), Starts(r, j)
      PROVE  OpenStill'
  <2>1. ASSUME j.op \in {"delete_status", "suspend", "ban"}
        PROVE  row[j.on] = "open" /\ j.on \in Filings
    <3>1. PICK f \in Filings, op \in R!Decisions \cup {"refuse"} :
            /\ R!LoadReport(r, op, f)
            /\ j = R!Knowing(op, f, "loaded", standing \cap R!Looks(op))
      BY <1>2, <2>1 DEF Begin, R!Request, R!Knowing, R!Appends
    <3>2. R!MayDecide(op, f) /\ j.op = op /\ j.on = f
      BY <3>1 DEF R!LoadReport, R!Begins, R!Knowing
    <3> QED
      BY <2>1, <3>2 DEF R!MayDecide
  <2>2. /\ met2 \subseteq met2' /\ row' = row
        /\ \A q \in Requests : job'[q] = job[q] \/ job'[q] = j
    BY <1>2 DEF Starts, IInv, Typed
  <2> QED
    BY <1>1, <2>1, <2>2
<1>3. ASSUME NEW r \in Requests, Later(r), Turns(r) PROVE OpenStill'
  <2>1. /\ met2' = met2 /\ job'[r].at # "loaded"
        /\ \A q \in Requests \ {r} : job'[q] = job[q]
    BY <1>3 DEF Turns, IInv, Typed, R!Idle
  <2>2. CASE job[r].op \in R!Decisions
    <3>1. ASSUME R!Apart({"decide"}), NEW q \in Requests \ {r}
          PROVE  job[q].op \notin {"delete_status", "suspend", "ban"}
      BY <2>2, <3>1 DEF Overlaps, Noted, R!Apart, Deciding, R!Decisions
    <3> QED
      BY <2>1, <3>1 DEF OpenStill, R!Apart
  <2>3. CASE job[r].op \notin R!Decisions
    <3>1. row' = row \/ \E f : row' = [row EXCEPT ![f] = "open"]
      BY <1>3, <2>3 DEF Later, R!CreateReport, R!Pushed, R!TellStaff,
         R!CommitFlag, R!Dismiss, R!DeleteStatus, R!Suspend, R!Ban,
         R!RefuseRemote, R!NotAllTold, R!AllTold, R!SaveNotes, R!Publish,
         R!Unsuspend, R!Unban, R!At, R!Decisions
    <3>2. \A f \in Filings : row[f] = "open" => row'[f] = "open"
      BY <3>1 DEF IInv, Typed
    <3> QED
      BY <1>1, <2>1, <3>2
  <2> QED
    BY <2>2, <2>3
<1>4. ASSUME NEW p \in Posts, R!AuthorDeletes(p) PROVE OpenStill'
  BY <1>1, <1>4 DEF R!AuthorDeletes
<1>5. CASE UNCHANGED R!vars
  BY <1>1, <1>5 DEF R!vars
<1> QED
  BY <1>2, <1>3, <1>4, <1>5, StepCases

\* A decision that does something to the member still finds the report it was
\* taken on open, and so leaves it saying what it did; and no decision is taken
\* again.
LEMMA AccountedStep ==
  Base /\ OpenStill /\ Accounted /\ [R!Next]_(R!vars) => Accounted'
<1> SUFFICES ASSUME Base, OpenStill, Accounted, [R!Next]_(R!vars) PROVE Accounted'
  OBVIOUS
<1> USE DEF Base
<1>1. ASSUME met2 \subseteq met2', local' = local, RowsKept,
             standing' \subseteq standing,
             \A p \in Posts : post'[p] = "removed" => post[p] = "removed"
      PROVE  Accounted'
  <2>1. \A f \in Filings : row[f] \in {"delete_status", "ban", "suspend"} =>
          row'[f] = row[f]
    BY <1>1 DEF RowsKept, R!Decisions
  <2>2. \A p : R!Pile(p) \subseteq Filings
    BY DEF R!Pile
  <2> QED
    BY <1>1, <2>1, <2>2 DEF Accounted, R!Apart, R!Pile
<1>2. ASSUME NEW r \in Requests, NEW j \in Jobs, Starts(r, j), RowsKept
      PROVE  Accounted'
  BY <1>1, <1>2 DEF Starts
<1>3. ASSUME NEW r \in Requests, Later(r), Turns(r), RowsKept PROVE Accounted'
  <2>0. local' = local /\ met2' = met2
    BY <1>3 DEF Turns
  <2>1. ASSUME NEW op \in {"delete_status", "suspend", "ban"}, R!At(r, op, "loaded"),
               R!Resolve(op, R!Target(job[r].on)),
               R!Apart({"decide"}), local,
               \A p \in Posts : post'[p] = "removed" =>
                 \/ post[p] = "removed" \/ op = "ban"
                 \/ op = "delete_status" /\ p = R!Target(job[r].on),
               "banned" \in standing' => "banned" \in standing \/ op = "ban",
               "suspended" \in standing' =>
                 "suspended" \in standing \/ op = "suspend"
        PROVE  Accounted'
    <3> DEFINE f == job[r].on
    <3>1. f \in Filings /\ row[f] = "open"
      BY <2>1 DEF OpenStill, R!At, Purposeful, Purpose, R!Decisions
    <3>2. f \in R!Pile(R!Target(f)) /\ row'[f] = op
      BY <2>1, <3>1 DEF R!Resolve, R!Open, R!Pile
    <3>3. \A g \in Filings : row[g] \in {"delete_status", "ban", "suspend"} =>
            row'[g] = row[g]
      BY <1>3 DEF RowsKept, R!Decisions
    <3>4. Accounted => /\ \A p \in Posts : post[p] = "removed" =>
                            \/ \E g \in R!Pile(p) : row[g] = "delete_status"
                            \/ \E g \in Filings : row[g] = "ban"
                       /\ "banned" \in standing => \E g \in Filings : row[g] = "ban"
                       /\ "suspended" \in standing =>
                            \E g \in Filings : row[g] = "suspend"
      BY <2>1 DEF Accounted
    <3>5. \A p : R!Pile(p) \subseteq Filings
      BY DEF R!Pile
    <3>6. \A p \in Posts : post'[p] = "removed" =>
            \/ \E g \in R!Pile(p) : row'[g] = "delete_status"
            \/ \E g \in Filings : row'[g] = "ban"
      BY <2>1, <3>1, <3>2, <3>3, <3>4, <3>5
    <3>7. "banned" \in standing' => \E g \in Filings : row'[g] = "ban"
      BY <2>1, <3>1, <3>2, <3>3, <3>4
    <3>8. "suspended" \in standing' => \E g \in Filings : row'[g] = "suspend"
      BY <2>1, <3>1, <3>2, <3>3, <3>4
    <3> QED
      BY <3>6, <3>7, <3>8 DEF Accounted, R!Pile
  <2>2. CASE ~(R!Apart({"decide"}) /\ local)
    BY <2>0, <2>2 DEF Accounted, R!Apart
  <2>3. CASE R!Apart({"decide"}) /\ local
    <3>1. CASE R!DeleteStatus(r)
      <4>1. \A p \in Posts : post'[p] = "removed" =>
              post[p] = "removed" \/ p = R!Target(job[r].on)
        BY <3>1 DEF R!DeleteStatus, Ground
      <4> QED
        BY <2>1, <2>3, <3>1, <4>1 DEF R!DeleteStatus
    <3>2. CASE R!Suspend(r)
      BY <2>1, <2>3, <3>2 DEF R!Suspend
    <3>3. CASE R!Ban(r)
      <4>1. /\ "banned" \in standing' => "banned" \in standing \/ TRUE
            /\ "suspended" \in standing' => "suspended" \in standing
        BY <3>3 DEF R!Ban
      <4> QED
        BY <2>1, <2>3, <3>3, <4>1 DEF R!Ban
    <3>4. CASE ~(R!DeleteStatus(r) \/ R!Suspend(r) \/ R!Ban(r))
      <4>1. ~R!RefuseRemote(r)
        BY <2>3 DEF R!RefuseRemote, R!At, Purposeful, Purpose
      <4>2. standing' \subseteq standing
        BY <1>3, <3>4, <4>1 DEF Later, R!CreateReport, R!TellStaff, R!CommitFlag,
           R!Dismiss, R!NotAllTold, R!AllTold, R!SaveNotes, R!Publish,
           R!Unsuspend, R!Unban
      <4>3. \A p \in Posts : post'[p] = "removed" => post[p] = "removed"
        BY <1>3, <3>4, <4>1 DEF Later, R!CreateReport, R!TellStaff, R!CommitFlag,
           R!Dismiss, R!NotAllTold, R!AllTold, R!SaveNotes, R!Publish,
           R!Unsuspend, R!Unban, Ground
      <4> QED
        BY <1>1, <1>3, <2>0, <4>2, <4>3
    <3> QED
      BY <3>1, <3>2, <3>3, <3>4
  <2> QED
    BY <2>2, <2>3
<1>4. ASSUME NEW p \in Posts, R!AuthorDeletes(p), RowsKept PROVE Accounted'
  BY <1>1, <1>4 DEF R!AuthorDeletes, Ground
<1>5. CASE UNCHANGED R!vars
  <2>1. RowsKept
    BY <1>5 DEF R!vars, RowsKept
  <2> QED
    BY <1>1, <1>5, <2>1 DEF R!vars
<1> QED
  BY <1>2, <1>3, <1>4, <1>5, StepCases, IInvStep

LEMMA AccountsExplain == Base /\ Tombstones /\ Accounted => R!Explained
  BY DEF Tombstones, Accounted, R!Explained
-----------------------------------------------------------------------------
(* The staff hears of a pile once                                            *)

\* Somebody has filed about t, and has yet to look whether the staff knows.
Awaited(t) ==
  \E r \in Requests : R!At(r, "file", "created") /\ R!Target(job[r].on) = t

OneAtATime == R!Apart({"file"}) /\ R!Apart({"decide", "flag"})

\* The staff was told once of every pile but one whose first report is at its
\* form.
PilesTold == \A t \in R!Targets : R!Open(t) # {} /\ ~Awaited(t) => told[t] = 1

\* A Flag still knows whether the pile was empty.
FlagsKnow ==
  \A r \in Requests : R!At(r, "flag", "inserted") =>
    ("told" \in job[r].knows <=> R!Open(R!Target(job[r].on)) # {})

\* A form finds its own report in the pile, or the pile decided; and the staff
\* told of the pile if it did not begin it.
FormsFind ==
  \A r \in Requests, t \in R!Targets :
    R!At(r, "file", "created") /\ R!Target(job[r].on) = t /\ R!Open(t) # {} =>
      /\ job[r].on \in R!Open(t)
      /\ told[t] = IF R!Open(t) = {job[r].on} THEN 0 ELSE 1

\* Unless two reports were filed at once, or a Flag while a pile was decided.
Heard == OneAtATime => PilesTold /\ FlagsKnow /\ FormsFind

LEMMA HeardInit == R!Init => Heard
  BY DEF R!Init, Heard, PilesTold, FlagsKnow, FormsFind, R!Open, R!Pile, R!At,
     R!Idle

ToldTyped == told \in [R!Targets -> 0..2]

LEMMA ToldTypedInit == R!Init => ToldTyped
  BY DEF R!Init, ToldTyped

LEMMA ToldTypedStep == ToldTyped /\ [R!Next]_(R!vars) => ToldTyped'
<1> SUFFICES ASSUME ToldTyped, [R!Next]_(R!vars) PROVE ToldTyped'
  OBVIOUS
<1>1. ASSUME NEW t, NEW n, t \in R!Targets => n \in 0..2,
             told' = [told EXCEPT ![t] = n]
      PROVE  ToldTyped'
  <2>1. R!Targets' = R!Targets
    BY DEF R!Targets
  <2>2. ASSUME NEW u \in R!Targets PROVE told'[u] \in 0..2
    BY <1>1, <2>2 DEF ToldTyped
  <2> QED
    BY <1>1, <2>1, <2>2 DEF ToldTyped
<1>2. ASSUME NEW r \in Requests, R!CommitFlag(r) PROVE ToldTyped'
  <2> DEFINE t == R!Target(job[r].on)
             before == IF R!Open(t) = {} THEN 0 ELSE told[t]
             n == IF "told" \in job[r].knows THEN before
                  ELSE IF before = 0 THEN 1 ELSE 2
  <2>1. t \in R!Targets => n \in 0..2
    BY DEF ToldTyped
  <2>2. told' = [told EXCEPT ![t] = n]
    BY <1>2 DEF R!CommitFlag
  <2> QED
    BY <1>1, <2>1, <2>2
<1>3. ASSUME NEW f, R!Tell(f) PROVE ToldTyped'
  <2> DEFINE n == IF told[R!Target(f)] = 0 THEN 1 ELSE 2
  <2>1. n \in 0..2 /\ told' = [told EXCEPT ![R!Target(f)] = n]
    BY <1>3 DEF R!Tell
  <2> QED
    BY <1>1, <2>1
<1>4. ASSUME NEW f, R!Pushed(f) PROVE ToldTyped'
  <2> DEFINE n == IF R!Open(R!Target(f)) = {} THEN 0 ELSE told[R!Target(f)]
  <2>1. R!Target(f) \in R!Targets => n \in 0..2
    BY DEF ToldTyped
  <2>2. told' = [told EXCEPT ![R!Target(f)] = n]
    BY <1>4 DEF R!Pushed
  <2> QED
    BY <1>1, <2>1, <2>2
<1>5. ASSUME NEW op, NEW t, R!Resolve(op, t) PROVE ToldTyped'
  <2>1. 0 \in 0..2 /\ told' = [told EXCEPT ![t] = 0]
    BY <1>5 DEF R!Resolve
  <2> QED
    BY <1>1, <2>1
<1>6. CASE told' = told
  BY <1>6 DEF ToldTyped, R!Targets
<1>7. CASE UNCHANGED R!vars
  BY <1>6, <1>7 DEF R!vars
<1>8. ASSUME NEW r \in Requests, Later(r) PROVE ToldTyped'
  <2>1. \/ told' = told \/ \E f : R!Tell(f) \/ R!Pushed(f)
        \/ \E op, t : R!Resolve(op, t)
        \/ R!CommitFlag(r)
    BY <1>8 DEF Later, R!CreateReport, R!TellStaff, R!Dismiss, R!DeleteStatus,
       R!Suspend, R!Ban, R!RefuseRemote, R!NotAllTold, R!AllTold, R!SaveNotes,
       R!Publish, R!Unsuspend, R!Unban
  <2> QED
    BY <1>2, <1>3, <1>4, <1>5, <1>6, <2>1
<1>9. ASSUME NEW r \in Requests, NEW request, NEW goesOn,
             R!Begins(r, request, goesOn)
      PROVE  ToldTyped'
  BY <1>6, <1>9 DEF R!Begins
<1>10. ASSUME NEW p \in Posts, R!AuthorDeletes(p) PROVE ToldTyped'
  BY <1>6, <1>10 DEF R!AuthorDeletes
<1> QED
  BY <1>7, <1>8, <1>9, <1>10 DEF R!Next, Later, R!ReportForm, R!HandleFlag,
     R!LoadReport, R!Forwarded, R!MailSent, R!MemberPublishes, R!LoadMember

\* The pile, and what a report adds to it.
LEMMA OpenPile ==
  \A t : R!Open(t) = {f \in Filings : R!Target(f) = t /\ row[f] = "open"}
  BY DEF R!Open, R!Pile

LEMMA PushedOpens ==
  ASSUME IInv, NEW f \in Filings, NEW t, t = R!Target(f),
         row' = [row EXCEPT ![f] = "open"]
  PROVE  /\ R!Open(t)' = R!Open(t) \cup {f}
         /\ \A u : u # t => R!Open(u)' = R!Open(u)
<1>1. \A u : R!Open(u)' = {g \in Filings : R!Target(g) = u /\ row'[g] = "open"}
  BY DEF R!Open, R!Pile, R!Target
<1>2. \A g \in Filings : row'[g] = "open" <=> g = f \/ row[g] = "open"
  BY DEF IInv, Typed
<1> QED
  BY <1>1, <1>2, OpenPile

\* A decision leaves its pile empty, and the others as they are.
LEMMA ResolveEmpties ==
  ASSUME IInv, NEW op \in R!Decisions, NEW t, R!Resolve(op, t)
  PROVE  R!Open(t)' = {} /\ \A u : u # t => R!Open(u)' = R!Open(u)
<1>1. \A u : R!Open(u)' = {g \in Filings : R!Target(g) = u /\ row'[g] = "open"}
  BY DEF R!Open, R!Pile, R!Target
<1>2. \A g \in Filings :
        row'[g] = "open" <=> row[g] = "open" /\ R!Target(g) # t
  BY OpenPile DEF R!Resolve, R!Decisions
<1> QED
  BY <1>1, <1>2, OpenPile

LEMMA HeardStep == Base /\ ToldTyped /\ Heard /\ [R!Next]_(R!vars) => Heard'
<1> SUFFICES ASSUME Base, ToldTyped, Heard, [R!Next]_(R!vars), OneAtATime'
             PROVE  PilesTold' /\ FlagsKnow' /\ FormsFind'
  BY DEF Heard
<1> USE DEF Base
<1>0. R!Targets' = R!Targets
  BY DEF R!Targets
<1>1. ASSUME OneAtATime, row' = row, told' = told,
             \A q \in Requests :
               \/ job'[q] = job[q]
               \/ /\ ~R!At(q, "file", "created")
                  /\ ~(job'[q].op = "file" /\ job'[q].at = "created")
                  /\ job'[q].op = "flag" =>
                       ("told" \in job'[q].knows <=>
                          R!Open(R!Target(job'[q].on)) # {})
      PROVE  PilesTold' /\ FlagsKnow' /\ FormsFind'
  <2>0. PilesTold /\ FlagsKnow /\ FormsFind
    BY <1>1 DEF Heard
  <2>1. \A t : R!Open(t)' = R!Open(t)
    BY <1>1 DEF R!Open, R!Pile
  <2>2. \A q \in Requests :
          R!At(q, "file", "created") <=> R!At(q, "file", "created")'
    BY <1>1 DEF R!At
  <2>3. \A q \in Requests : R!At(q, "file", "created") => job'[q].on = job[q].on
    BY <1>1
  <2>4. \A t : Awaited(t)' <=> Awaited(t)
    BY <2>2, <2>3 DEF Awaited, R!Target
  <2>5. FlagsKnow'
    BY <1>1, <2>0, <2>1 DEF FlagsKnow, R!At, R!Target
  <2> QED
    BY <1>0, <1>1, <2>0, <2>1, <2>2, <2>3, <2>4, <2>5
       DEF PilesTold, FormsFind, R!Target
<1>2. ASSUME NEW r \in Requests, NEW j \in Jobs, Begin(r, j), Starts(r, j)
      PROVE  PilesTold' /\ FlagsKnow' /\ FormsFind'
  <2>1. /\ met2 \subseteq met2' /\ row' = row /\ told' = told
        /\ job[r].op = "none" /\ job'[r] = j
        /\ \A q \in Requests \ {r} : job'[q] = job[q]
    BY <1>2 DEF Starts, IInv, Typed
  <2>2. /\ ~(j.op = "file" /\ j.at = "created")
        /\ j.op = "flag" => ("told" \in j.knows <=> R!Open(R!Target(j.on)) # {})
    BY <1>2 DEF Begin, R!Request, R!Knowing, R!Appends, R!Decisions
  <2>3. OneAtATime
    BY <2>1 DEF OneAtATime, R!Apart
  <2> QED
    BY <1>1, <2>1, <2>2, <2>3 DEF R!At
<1>3. ASSUME NEW r \in Requests, Turns(r)
      PROVE  /\ OneAtATime /\ PilesTold /\ FlagsKnow /\ FormsFind
             /\ \A q \in Requests \ {r} : job'[q] = job[q]
             /\ Files(job[r].op) =>
                  \A q \in Requests \ {r} : job[q].op \notin {"file", "flag"}
             /\ Deciding(job[r].op) =>
                  \A q \in Requests : job[q].op # "flag"
  <2>1. OneAtATime
    BY <1>3 DEF Turns, OneAtATime, R!Apart
  <2>2. \A q \in Requests \ {r} : Noted(job[r].op, job[q].op, met2)
    BY DEF Overlaps
  <2>3. \A q \in Requests \ {r} : job'[q] = job[q]
    BY <1>3 DEF Turns, IInv, Typed
  <2>4. ASSUME Files(job[r].op), NEW q \in Requests \ {r}
        PROVE  job[q].op \notin {"file", "flag"}
    BY <2>1, <2>2, <2>4 DEF Noted, OneAtATime, R!Apart, Files
  <2>5. ASSUME Deciding(job[r].op), NEW q \in Requests
        PROVE  job[q].op # "flag"
    BY <2>1, <2>2, <2>5 DEF Noted, OneAtATime, R!Apart, Deciding, R!Decisions
  <2> QED
    BY <2>1, <2>3, <2>4, <2>5 DEF Heard
<1>4. ASSUME NEW r \in Requests, R!CreateReport(r), Turns(r)
      PROVE  PilesTold' /\ FlagsKnow' /\ FormsFind'
  <2>0. PICK f, t : f = job[r].on /\ t = R!Target(f)
    OBVIOUS
  <2>1. R!At(r, "file", "loaded") /\ f \in Filings
        /\ \A q \in Requests \ {r} : job'[q] = job[q]
    BY <1>3, <1>4, <2>0 DEF R!CreateReport, R!At, IInv, FlagsAreNew
  <2>2. CASE row[f] # "none"
    <3>1. row' = row /\ told' = told /\ job'[r] = R!Idle
      BY <1>4, <2>0, <2>2 DEF R!CreateReport, R!Ends, IInv, Typed
    <3> QED
      BY <1>1, <1>3, <1>4, <2>1, <3>1 DEF R!At, R!Idle
  <2>3. CASE row[f] = "none"
    <3>1. /\ row' = [row EXCEPT ![f] = "open"]
          /\ told' = [told EXCEPT ![t] = IF R!Open(t) = {} THEN 0 ELSE told[t]]
      BY <1>4, <2>0, <2>3 DEF R!CreateReport, R!Pushed
    <3>2. job'[r].op = "file" /\ job'[r].at = "created" /\ job'[r].on = f
      BY <1>4, <2>0, <2>1, <2>3 DEF R!CreateReport, R!Goes, R!At, IInv, Typed, Jobs
    <3>3. /\ R!Open(t)' = R!Open(t) \cup {f} /\ f \notin R!Open(t)
          /\ \A u : u # t => R!Open(u)' = R!Open(u)
      <4>1. IInv /\ f \in Filings
        BY <2>1
      <4>2. f \notin R!Open(t)
        BY <2>3, OpenPile
      <4> QED
        BY <2>0, <3>1, <4>1, <4>2, PushedOpens
    <3>4. \A q \in Requests \ {r} : job'[q].op \notin {"file", "flag"}
      BY <1>3, <1>4, <2>1 DEF R!At, Files
    <3>5. \A u \in R!Targets : R!Open(u) # {} => told[u] = 1
      BY <1>3, <1>4, <2>1 DEF PilesTold, Awaited, R!At, Files
    <3>6. \A u \in R!Targets :
            told'[u] = IF u = t /\ R!Open(u) = {} THEN 0 ELSE told[u]
      BY <3>1 DEF ToldTyped
    <3>7. Awaited(t)'
      BY <2>0, <3>2 DEF Awaited, R!At, R!Target
    <3>8. PilesTold'
      BY <1>0, <3>3, <3>5, <3>6, <3>7 DEF PilesTold
    <3>9. FlagsKnow'
      BY <3>2, <3>4 DEF FlagsKnow, R!At
    <3>10. t \in R!Targets =>
             told'[t] = IF R!Open(t)' = {f} THEN 0 ELSE 1
      BY <3>3, <3>5, <3>6
    <3>11. FormsFind'
      BY <1>0, <2>0, <3>2, <3>3, <3>4, <3>10 DEF FormsFind, R!At, R!Target
    <3> QED
      BY <3>8, <3>9, <3>11
  <2> QED
    BY <2>2, <2>3
<1>5. ASSUME NEW r \in Requests, R!TellStaff(r), Turns(r)
      PROVE  PilesTold' /\ FlagsKnow' /\ FormsFind'
  <2> DEFINE f == job[r].on
             t == R!Target(f)
  <2>1. /\ R!At(r, "file", "created") /\ row' = row /\ job'[r] = R!Idle
        /\ told' = IF R!Open(t) \ {f} = {}
                   THEN [told EXCEPT ![t] = IF told[t] = 0 THEN 1 ELSE 2]
                   ELSE told
    BY <1>5 DEF R!TellStaff, R!Tell, R!Ends, IInv, Typed
  <2>2. \A q \in Requests : job'[q].op \notin {"file", "flag"}
    BY <1>3, <1>5, <2>1 DEF R!At, Files, R!Idle
  <2>3. \A u : R!Open(u)' = R!Open(u)
    BY <2>1 DEF R!Open, R!Pile
  <2>4. \A u \in R!Targets : R!Open(u) # {} /\ u # t => told[u] = 1
    BY <1>3, <1>5, <2>1 DEF PilesTold, Awaited, R!At, Files
  <2>5. t \in R!Targets /\ R!Open(t) # {} =>
          f \in R!Open(t) /\ told[t] = IF R!Open(t) = {f} THEN 0 ELSE 1
    BY <1>3, <1>5, <2>1 DEF FormsFind
  <2>6. t \in R!Targets /\ R!Open(t) # {} => told'[t] = 1
    BY <2>1, <2>5 DEF ToldTyped
  <2>7. \A u \in R!Targets : u # t => told'[u] = told[u]
    BY <2>1 DEF ToldTyped
  <2>8. PilesTold'
    BY <1>0, <2>3, <2>4, <2>6, <2>7 DEF PilesTold
  <2> QED
    BY <2>2, <2>8 DEF FlagsKnow, FormsFind, R!At
<1>6. ASSUME NEW r \in Requests, R!CommitFlag(r), Turns(r)
      PROVE  PilesTold' /\ FlagsKnow' /\ FormsFind'
  <2> DEFINE f == job[r].on
             t == R!Target(f)
             before == IF R!Open(t) = {} THEN 0 ELSE told[t]
  <2>1. /\ R!At(r, "flag", "inserted") /\ job'[r] = R!Idle
        /\ row' = [row EXCEPT ![f] = "open"] /\ f \in Filings
        /\ told' = [told EXCEPT ![t] =
                      IF "told" \in job[r].knows THEN before
                      ELSE IF before = 0 THEN 1 ELSE 2]
    BY <1>6 DEF R!CommitFlag, R!Ends, IInv, Typed, FlagsAreNew
  <2>2. \A q \in Requests : job'[q].op \notin {"file", "flag"}
    BY <1>3, <1>6, <2>1 DEF R!At, Files, R!Idle
  <2>3. \A u : u # t => R!Open(u)' = R!Open(u)
    BY <2>1, PushedOpens
  <2>4. \A u \in R!Targets : R!Open(u) # {} => told[u] = 1
    BY <1>3, <1>6, <2>1 DEF PilesTold, Awaited, R!At, Files
  <2>5. "told" \in job[r].knows <=> R!Open(t) # {}
    BY <1>3, <1>6, <2>1 DEF FlagsKnow
  <2>6. t \in R!Targets => told'[t] = 1
    BY <2>1, <2>4, <2>5 DEF ToldTyped
  <2>7. \A u \in R!Targets : u # t => told'[u] = told[u]
    BY <2>1 DEF ToldTyped
  <2>8. PilesTold'
    BY <1>0, <2>3, <2>4, <2>6, <2>7 DEF PilesTold
  <2> QED
    BY <2>2, <2>8 DEF FlagsKnow, FormsFind, R!At
<1>7. ASSUME NEW r \in Requests, NEW op \in R!Decisions, R!At(r, op, "loaded"),
             R!Resolve(op, R!Target(job[r].on)), Turns(r)
      PROVE  PilesTold' /\ FlagsKnow' /\ FormsFind'
  <2>0. PICK t : t = R!Target(job[r].on)
    OBVIOUS
  <2>1. R!Open(t)' = {} /\ \A u : u # t => R!Open(u)' = R!Open(u)
    BY <1>7, <2>0, ResolveEmpties
  <2>2. \A u \in R!Targets : u # t => told'[u] = told[u]
    BY <1>7, <2>0 DEF R!Resolve, ToldTyped
  <2>3. job'[r].op \notin {"file", "flag"} /\ job[r].op \notin {"file", "flag"}
    BY <1>7 DEF Turns, IInv, Typed, R!At, R!Decisions, R!Idle
  <2>4. \A q \in Requests : job'[q].op # "flag"
    BY <1>3, <1>7, <2>3 DEF R!At, Deciding
  <2>5. \A q \in Requests :
          \/ job'[q] = job[q]
          \/ ~R!At(q, "file", "created") /\ ~R!At(q, "file", "created")'
    BY <1>3, <1>7, <2>3 DEF R!At
  <2>6. \A u : Awaited(u)' <=> Awaited(u)
    BY <2>5 DEF Awaited, R!At, R!Target
  <2>7. PilesTold'
    BY <1>0, <1>3, <1>7, <2>1, <2>2, <2>6 DEF PilesTold
  <2>8. FlagsKnow'
    BY <2>4 DEF FlagsKnow, R!At
  <2>9. FormsFind'
    BY <1>0, <1>3, <1>7, <2>1, <2>2, <2>5 DEF FormsFind, R!At, R!Target
  <2> QED
    BY <2>7, <2>8, <2>9
<1>8. ASSUME NEW r \in Requests, Turns(r),
             \/ R!RefuseRemote(r) \/ R!NotAllTold(r) \/ R!AllTold(r)
             \/ R!SaveNotes(r) \/ R!Publish(r) \/ R!Unsuspend(r) \/ R!Unban(r)
      PROVE  PilesTold' /\ FlagsKnow' /\ FormsFind'
  <2>1. row' = row /\ told' = told
    BY <1>8 DEF R!RefuseRemote, R!NotAllTold, R!AllTold, R!SaveNotes,
       R!Publish, R!Unsuspend, R!Unban
  <2>2. job[r].op \notin {"file", "flag"}
    BY <1>8 DEF R!RefuseRemote, R!NotAllTold, R!AllTold, R!SaveNotes,
       R!Publish, R!Unsuspend, R!Unban, R!At, Purposeful, Purpose, R!Decisions
  <2>3. job'[r].op \notin {"file", "flag"}
    BY <1>8, <2>2 DEF Turns, IInv, Typed, R!Idle
  <2> QED
    BY <1>1, <1>3, <1>8, <2>1, <2>2, <2>3 DEF R!At
<1>9. ASSUME NEW p \in Posts, R!AuthorDeletes(p)
      PROVE  PilesTold' /\ FlagsKnow' /\ FormsFind'
  <2>1. row' = row /\ told' = told /\ job' = job /\ OneAtATime
    BY <1>9 DEF R!AuthorDeletes, OneAtATime, R!Apart
  <2> QED
    BY <1>1, <2>1
<1>10. CASE UNCHANGED R!vars
  <2>1. row' = row /\ told' = told /\ job' = job /\ OneAtATime
    BY <1>10 DEF R!vars, OneAtATime, R!Apart
  <2> QED
    BY <1>1, <2>1
<1>11. ASSUME NEW r \in Requests, Turns(r),
              R!Dismiss(r) \/ R!DeleteStatus(r) \/ R!Suspend(r) \/ R!Ban(r)
       PROVE  PilesTold' /\ FlagsKnow' /\ FormsFind'
  <2>1. PICK op \in R!Decisions :
          R!At(r, op, "loaded") /\ R!Resolve(op, R!Target(job[r].on))
    BY <1>11 DEF R!Dismiss, R!DeleteStatus, R!Suspend, R!Ban, R!Decisions
  <2> QED
    BY <1>7, <1>11, <2>1
<1> QED
  BY <1>2, <1>4, <1>5, <1>6, <1>8, <1>9, <1>10, <1>11, StepCases DEF Later
-----------------------------------------------------------------------------
(* Interactions                                                              *)

Writing == {"saved", "read", "synced", "told"}

Asked == [by : Members \cup {None}, of : I!Statuses \cup {"like"},
          at : Writing \cup {"idle", "insert", "liked", "sent", "tombstone"},
          names : SUBSET Members, seen : SUBSET Members]

ITyped ==
  /\ state \in [I!Statuses -> {"none", "live", "deleted"}]
  /\ writer \in [I!Statuses -> Members \cup {None}]
  /\ text \in [I!Statuses -> SUBSET Members]
  /\ tags \in [I!Statuses -> SUBSET Members]
  /\ likes \subseteq Members
  /\ notes \in [I!Notes -> Nat]
  /\ held4 \in [I!Statuses -> SUBSET Remote]
  /\ req4 \in [Requests -> Asked]
  /\ liked \in [Members -> Nat]

\* Whose a text is, and what there is of one that is not there.
Written ==
  /\ writer["post"] = Author
  /\ state["reply"] # "none" => writer["reply"] \in Members
  /\ state["reply"] # "deleted"
  /\ \A s \in I!Statuses : state[s] = "none" => text[s] = {} /\ tags[s] = {}

Writes(r, s) == req4[r].of = s /\ req4[r].at \in Writing

\* What a request is about, by how far it is.
Sound(r) ==
  LET w == req4[r] IN
  /\ w.at # "idle" => w.by \in I!Local
  /\ w.at \in {"insert", "liked"} => w.of = "like"
  /\ w.at \in Writing =>
       w.of \in I!Statuses /\ w.by = writer[w.of] /\ state[w.of] # "none"
  /\ w.at = "sent" =>
       w.of = "reply" /\ w.by = writer["reply"] /\ state["reply"] # "none"
  /\ w.at = "tombstone" =>
       w.of = "post" /\ w.by = Author /\ state["post"] = "deleted"
  /\ w.at = "told" /\ w.of = "reply" => Author \in w.seen

AllSound == \A r \in Requests : Sound(r)

\* The reply is written once: no two requests are at it.
OneReply ==
  \A q, r \in Requests :
    /\ req4[q].of = "reply" /\ req4[q].at # "idle"
    /\ req4[r].of = "reply" /\ req4[r].at # "idle"
    => q = r

\* Nobody has a note who is not owed one, or of another's text.
NotesAreOwed ==
  \A n \in I!Notes : notes[n] > 0 =>
    /\ I!Owed(n.to, n.from)
    /\ n.kind = "mention" =>
         /\ n.from = writer[n.of] /\ state[n.of] # "none"
         /\ ~(n.of = "reply" /\ n.to = Author)
    /\ n.kind = "reply" =>
         n.of = "reply" /\ n.from = writer["reply"] /\ state["reply"] # "none"

\* The reply's note is the last of its request.
ReplyToldOnce ==
  \A m \in Members :
    /\ I!Told(Author, m, "reply", "reply") <= 1
    /\ (\E r \in Requests : req4[r].of = "reply" /\ req4[r].at # "idle") =>
         I!Told(Author, m, "reply", "reply") = 0

IGround ==
  ITyped /\ Written /\ AllSound /\ OneReply /\ NotesAreOwed /\ ReplyToldOnce

-----------------------------------------------------------------------------
\* With one tab at a time: the tabs,
OneTab ==
  \A q, r \in Requests :
    /\ req4[q].at # "idle" /\ req4[r].at # "idle"
    /\ req4[q].by = req4[r].by /\ req4[q].of = req4[r].of
    => q = r

\* what each has read, which still holds,
StillRead ==
  \A r \in Requests :
    /\ req4[r].at = "insert" => req4[r].by \notin likes
    /\ req4[r].at = "read" => req4[r].seen = tags[req4[r].of]
    /\ req4[r].at = "told" => req4[r].seen = I!AlreadyTold(req4[r].of)

Telling(m) == \E r \in Requests : req4[r].at = "liked" /\ req4[r].by = m

\* the likes that were told and the one that is to be,
LikesTold ==
  \A m \in Members : LET n == I!Told(Author, m, "like", "post") IN
    /\ n <= liked[m] /\ (Telling(m) => n + 1 <= liked[m])
    /\ "crashed" \notin lapses /\ I!Owed(Author, m) =>
         liked[m] = IF Telling(m) THEN n + 1 ELSE n

MentionsOnce ==
  \A u \in I!Local, m \in Members, s \in I!Statuses :
    I!Told(u, m, "mention", s) <= 1

\* and nobody is writing a post that is deleted.
NoneWritesDeleted ==
  state["post"] = "deleted" => \A r \in Requests : ~Writes(r, "post")

\* A copy is where the rows say, and nowhere else unless one was dropped.
HeldByRows == "dropped" \notin lapses => held4["post"] \subseteq tags["post"]

OneByOne ==
  "crossed" \notin lapses =>
    /\ OneTab /\ StillRead /\ LikesTold /\ MentionsOnce /\ NoneWritesDeleted
    /\ HeldByRows

-----------------------------------------------------------------------------
\* If besides no request died, what is still missing is what one is about to do:
\* the notes of the text's mentions,
TextTold ==
  \A s \in I!Statuses : \A u \in I!Local \cap text[s] :
    \/ s = "reply" /\ u = Author
    \/ I!Told(u, writer[s], "mention", s) = IF I!Owed(u, writer[s]) THEN 1 ELSE 0
    \/ \E r \in Requests : Writes(r, s) /\ u \in req4[r].names

\* and of the reply,
ReplyTold ==
  state["reply"] # "none" =>
    \/ I!Told(Author, writer["reply"], "reply", "reply") =
         IF I!Owed(Author, writer["reply"]) THEN 1 ELSE 0
    \/ \E r \in Requests : req4[r].of = "reply" /\ req4[r].at # "idle"

\* the rows,
RowsFollow ==
  "emptied" \notin lapses => \A s \in I!Statuses :
    \/ tags[s] = text[s]
    \/ \E r \in Requests : req4[r].of = s /\ req4[r].at \in {"saved", "read"}

\* the copies,
CopiesSent ==
  \A s \in I!Statuses : state[s] = "live" /\ writer[s] \in I!Local =>
    \/ tags[s] \cap Remote \subseteq held4[s]
    \/ \E r \in Requests : Writes(r, s)

\* and the Delete.
DeleteSent ==
  "dropped" \notin lapses /\ state["post"] = "deleted" =>
    held4["post"] = {} \/ \E r \in Requests : req4[r].at = "tombstone"

Unbroken ==
  "crossed" \notin lapses /\ "crashed" \notin lapses =>
    TextTold /\ ReplyTold /\ RowsFollow /\ CopiesSent /\ DeleteSent

MInv == IGround /\ OneByOne /\ Unbroken
-----------------------------------------------------------------------------
LEMMA Notes ==
  ASSUME NEW u \in I!Local, NEW m \in Members, NEW s \in I!Statuses,
         NEW kind \in {"like", "reply", "mention"}
  PROVE  /\ I!Note(u, m, kind, s) \in I!Notes
         /\ I!Note(u, m, kind, s).to = u /\ I!Note(u, m, kind, s).from = m
         /\ I!Note(u, m, kind, s).kind = kind /\ I!Note(u, m, kind, s).of = s
  BY DEF I!Note, I!Notes, I!Local

\* Whom notify tells.
LEMMA Notified ==
  ASSUME NEW people, NEW from, NEW kind, NEW s, NEW n \in I!Notes
  PROVE  n \in I!notify(people, from, kind, s) <=>
           /\ n.to \in people /\ I!Owed(n.to, from)
           /\ n.from = from /\ n.kind = kind /\ n.of = s
<1>1. n = [to |-> n.to, from |-> n.from, kind |-> n.kind, of |-> n.of]
  BY DEF I!Notes
<1>2. \A v : I!Note(v, from, kind, s) =
               [to |-> v, from |-> from, kind |-> kind, of |-> s]
  BY DEF I!Note
<1>3. \A v : n = I!Note(v, from, kind, s) <=>
               v = n.to /\ n.from = from /\ n.kind = kind /\ n.of = s
  BY <1>1, <1>2
<1> QED
  BY <1>3 DEF I!notify

LEMMA Notifying ==
  ASSUME ITyped, NEW new, I!Notifies(new)
  PROVE  /\ notes' \in [I!Notes -> Nat]
         /\ \A n \in I!Notes :
              notes'[n] = IF n \in new THEN notes[n] + 1 ELSE notes[n]
  BY DEF I!Notifies, ITyped

\* Requests that go on with what they are about, or are over.
Onward ==
  \A q \in Requests :
    \/ req4'[q].at = "idle"
    \/ req4[q].at # "idle" /\ req4'[q].by = req4[q].by /\ req4'[q].of = req4[q].of

LEMMA OnwardKeeps == Onward => (OneTab => OneTab') /\ (OneReply => OneReply')
  BY DEF Onward, OneTab, OneReply

\* What likes and their notes leave alone: the texts, the requests at them and
\* their notes.
LikeRequest(w) ==
  w.at = "idle" \/ (w.at \in {"insert", "liked"} /\ w.of = "like" /\ w.by \in I!Local)

LikesOnly ==
  /\ UNCHANGED <<state, writer, text, tags, held4, blocks, shut>>
  /\ lapses \subseteq lapses'
  /\ \A n \in I!Notes :
       notes'[n] = notes[n] \/ (n.kind = "like" /\ I!Owed(n.to, n.from))
  /\ \A r \in Requests :
       \/ req4'[r] = req4[r]
       \/ LikeRequest(req4[r]) /\ LikeRequest(req4'[r])

\* And what texts leave alone: the likes.
TextsOnly ==
  /\ UNCHANGED <<likes, liked, blocks, shut>>
  /\ lapses \subseteq lapses'
  /\ \A n \in I!Notes : n.kind = "like" => notes'[n] = notes[n]
  /\ \A r \in Requests :
       \/ req4'[r] = req4[r]
       \/ req4[r].at \notin {"insert", "liked"} /\ req4'[r].at \notin {"insert", "liked"}

RowsStillRead ==
  \A r \in Requests :
    /\ req4[r].at = "read" => req4[r].seen = tags[req4[r].of]
    /\ req4[r].at = "told" => req4[r].seen = I!AlreadyTold(req4[r].of)

LEMMA Statuses == /\ "post" \in I!Statuses /\ "reply" \in I!Statuses
                  /\ \A s \in I!Statuses : s \in {"post", "reply"}
  BY DEF I!Statuses

LEMMA NotedSame ==
  ASSUME NEW s \in I!Statuses,
         \A n \in I!Notes : n.kind = "mention" /\ n.of = s => notes'[n] = notes[n]
  PROVE  I!AlreadyTold(s)' = I!AlreadyTold(s)
<1>1. \A u \in I!Local, m \in Members :
        notes'[I!Note(u, m, "mention", s)] = notes[I!Note(u, m, "mention", s)]
  BY Notes
<1>2. I!Noted(s)' = I!Noted(s)
  BY <1>1 DEF I!Noted, I!Note
<1> QED
  BY <1>2 DEF I!AlreadyTold

LEMMA OneReplyTold ==
  ASSUME IGround, ReplyToldOnce,
         \A n \in I!Notes : n.kind = "reply" => notes'[n] = notes[n],
         (\E r \in Requests : req4'[r].of = "reply" /\ req4'[r].at # "idle") =>
           \E r \in Requests : req4[r].of = "reply" /\ req4[r].at # "idle"
  PROVE  ReplyToldOnce'
<1>1. \A m \in Members : I!Told(Author, m, "reply", "reply")' =
                         I!Told(Author, m, "reply", "reply")
  <2> TAKE m \in Members
  <2>1. Author \in I!Local
    BY InteractionsAssumption DEF I!Local
  <2> DEFINE n == I!Note(Author, m, "reply", "reply")
  <2>2. n \in I!Notes /\ n.kind = "reply"
    BY <2>1, Notes, Statuses
  <2>3. notes'[n] = notes[n]
    BY <2>2
  <2> QED
    BY <2>3 DEF I!Told, I!Note
<1> QED
  BY <1>1 DEF ReplyToldOnce

\* Nothing of what is not about likes is disturbed by one.
LEMMA LikesKeepTexts ==
  ASSUME MInv, LikesOnly
  PROVE  /\ Written' /\ AllSound' /\ OneReply' /\ NotesAreOwed' /\ ReplyToldOnce'
         /\ "crossed" \notin lapses' =>
              MentionsOnce' /\ RowsStillRead' /\ NoneWritesDeleted' /\ HeldByRows'
         /\ Unbroken'
<1> USE DEF IGround, MInv
<1>1. \A r \in Requests, s \in I!Statuses :
        /\ Writes(r, s)' <=> Writes(r, s)
        /\ Writes(r, s) => req4'[r] = req4[r]
  BY Statuses DEF LikesOnly, LikeRequest, Writes, Writing
<1>2. \A u \in I!Local, m \in Members, s \in I!Statuses,
         kind \in {"mention", "reply"} :
        notes'[I!Note(u, m, kind, s)] = notes[I!Note(u, m, kind, s)]
  BY Notes DEF LikesOnly
<1>3. \A u, m : I!Owed(u, m)' <=> I!Owed(u, m)
  BY DEF LikesOnly, I!Owed
<1>4. Written'
  BY DEF Written, LikesOnly
<1>5. \A r \in Requests :
        /\ req4'[r].of = "reply" /\ req4'[r].at # "idle" <=>
            req4[r].of = "reply" /\ req4[r].at # "idle"
        /\ req4'[r].at \in Writing \cup {"tombstone"} \/ req4[r].at \in Writing \cup {"tombstone"} =>
             req4'[r] = req4[r]
  BY DEF LikesOnly, LikeRequest, Writing
<1>6. OneReply'
  BY <1>5 DEF OneReply
<1>7. ReplyToldOnce'
  BY <1>5, OneReplyTold DEF LikesOnly
<1>8. ASSUME "crossed" \notin lapses'
      PROVE  MentionsOnce' /\ RowsStillRead' /\ NoneWritesDeleted' /\ HeldByRows'
  <2>1. OneByOne /\ "crossed" \notin lapses
    BY <1>8 DEF LikesOnly
  <2>2. MentionsOnce'
    <3> SUFFICES ASSUME NEW u \in I!Local, NEW m \in Members, NEW s \in I!Statuses
                 PROVE  I!Told(u, m, "mention", s)' <= 1
      BY DEF MentionsOnce
    <3>1. I!Told(u, m, "mention", s) <= 1
      BY <2>1 DEF OneByOne, MentionsOnce
    <3>2. notes'[I!Note(u, m, "mention", s)] = notes[I!Note(u, m, "mention", s)]
      BY <1>2
    <3> QED
      BY <3>1, <3>2 DEF I!Told, I!Note
  <2>3. \A s \in I!Statuses : I!AlreadyTold(s)' = I!AlreadyTold(s)
    BY NotedSame DEF LikesOnly
  <2>4. RowsStillRead'
    <3>1. \A r \in Requests : req4'[r].at \in {"read", "told"} =>
            req4'[r] = req4[r] /\ req4[r].of \in I!Statuses
      BY <1>5 DEF Writing, AllSound, Sound
    <3> QED
      BY <2>1, <2>3, <3>1 DEF OneByOne, StillRead, RowsStillRead, LikesOnly
  <2>5. NoneWritesDeleted' /\ HeldByRows'
    BY <1>1, <2>1, Statuses DEF OneByOne, NoneWritesDeleted, HeldByRows, LikesOnly
  <2> QED
    BY <2>2, <2>4, <2>5
<1>9. Unbroken'
  <2> SUFFICES ASSUME "crossed" \notin lapses', "crashed" \notin lapses'
               PROVE  TextTold' /\ ReplyTold' /\ RowsFollow' /\ CopiesSent' /\ DeleteSent'
    BY DEF Unbroken
  <2>1. TextTold /\ ReplyTold /\ RowsFollow /\ CopiesSent /\ DeleteSent
    BY DEF Unbroken, LikesOnly
  <2>2. text' = text /\ writer' = writer /\ state' = state /\ tags' = tags
        /\ held4' = held4
    BY DEF LikesOnly
  <2>3. TextTold'
    <3> SUFFICES ASSUME NEW s \in I!Statuses, NEW u \in I!Local \cap text[s]
                 PROVE  \/ s = "reply" /\ u = Author
                        \/ I!Told(u, writer[s], "mention", s)' =
                              IF I!Owed(u, writer[s]) THEN 1 ELSE 0
                        \/ \E r \in Requests : Writes(r, s)' /\ u \in req4'[r].names
      BY <1>3, <2>2 DEF TextTold
    <3>1. writer[s] \in Members
      BY InteractionsAssumption, Statuses DEF Written
    <3>2. I!Told(u, writer[s], "mention", s)' = I!Told(u, writer[s], "mention", s)
      BY <1>2, <2>2, <3>1 DEF I!Told, I!Note
    <3> QED
      BY <1>1, <2>1, <3>2 DEF TextTold
  <2>4. ReplyTold'
    <3> SUFFICES ASSUME state["reply"] # "none" PROVE ReplyTold'
      BY <2>2 DEF ReplyTold
    <3>1. I!Told(Author, writer["reply"], "reply", "reply")' =
          I!Told(Author, writer["reply"], "reply", "reply")
      <4>1. PICK m \in Members : m = writer["reply"]
        BY DEF Written
      <4>2. notes'[I!Note(Author, m, "reply", "reply")] =
            notes[I!Note(Author, m, "reply", "reply")]
        BY <1>2, Statuses, InteractionsAssumption DEF I!Local
      <4> QED
        BY <2>2, <4>1, <4>2 DEF I!Told, I!Note
    <3> QED
      BY <1>3, <1>5, <2>1, <2>2, <3>1 DEF ReplyTold
  <2>5. RowsFollow'
    <3>1. "emptied" \notin lapses' => "emptied" \notin lapses
      BY DEF LikesOnly
    <3> QED
      BY <1>5, <2>1, <2>2, <3>1 DEF RowsFollow, Writing
  <2>6. CopiesSent'
    BY <1>1, <2>1, <2>2 DEF CopiesSent
  <2>7. DeleteSent'
    <3>1. "dropped" \notin lapses' => "dropped" \notin lapses
      BY DEF LikesOnly
    <3> QED
      BY <1>5, <2>1, <2>2, <3>1 DEF DeleteSent
  <2> QED
    BY <2>3, <2>4, <2>5, <2>6, <2>7
<1>10. AllSound'
  BY DEF AllSound, Sound, LikesOnly, LikeRequest, Writing
<1>11. NotesAreOwed'
  BY <1>3 DEF NotesAreOwed, LikesOnly
<1> QED
  BY <1>4, <1>6, <1>7, <1>8, <1>9, <1>10, <1>11

LikesMissing == \A r \in Requests : req4[r].at = "insert" => req4[r].by \notin likes

LEMMA TextsKeepLikes ==
  ASSUME MInv, TextsOnly
  PROVE  "crossed" \notin lapses' => LikesTold' /\ LikesMissing'
<1> SUFFICES ASSUME "crossed" \notin lapses' PROVE LikesTold' /\ LikesMissing'
  OBVIOUS
<1>1. LikesTold /\ StillRead
  BY DEF MInv, OneByOne, TextsOnly
<1>2. LikesMissing'
  BY <1>1 DEF LikesMissing, StillRead, TextsOnly
<1>3. \A m : Telling(m)' <=> Telling(m)
  BY DEF Telling, TextsOnly
<1>4. LikesTold'
  <2> SUFFICES ASSUME NEW m \in Members
               PROVE  LET n == I!Told(Author, m, "like", "post")' IN
                      /\ n <= liked'[m] /\ (Telling(m)' => n + 1 <= liked'[m])
                      /\ "crashed" \notin lapses' /\ I!Owed(Author, m)' =>
                           liked'[m] = IF Telling(m)' THEN n + 1 ELSE n
    BY DEF LikesTold
  <2>1. notes'[I!Note(Author, m, "like", "post")] = notes[I!Note(Author, m, "like", "post")]
    BY Notes, Statuses, InteractionsAssumption DEF TextsOnly, I!Local
  <2>2. I!Told(Author, m, "like", "post")' = I!Told(Author, m, "like", "post")
    BY <2>1 DEF I!Told, I!Note
  <2>3. liked' = liked /\ (I!Owed(Author, m)' <=> I!Owed(Author, m))
        /\ ("crashed" \notin lapses' => "crashed" \notin lapses)
    BY DEF TextsOnly, I!Owed
  <2> QED
    BY <1>1, <1>3, <2>2, <2>3 DEF LikesTold
<1> QED
  BY <1>2, <1>4

LEMMA LikesStep ==
  ASSUME MInv, LikesOnly, ITyped',
         "crossed" \notin lapses' => OneTab' /\ LikesMissing' /\ LikesTold'
  PROVE  MInv'
  BY LikesKeepTexts
     DEF MInv, IGround, OneByOne, StillRead, LikesMissing, RowsStillRead

\* How a request is replaced, goes on and ends.
LEMMA Replaced ==
  ASSUME ITyped, NEW r \in Requests, NEW w \in Asked,
         req4' = [req4 EXCEPT ![r] = w]
  PROVE  /\ req4' \in [Requests -> Asked] /\ req4'[r] = w
         /\ \A q \in Requests : q # r => req4'[q] = req4[q]
  BY DEF ITyped

LEMMA GoesOn ==
  ASSUME ITyped, NEW r \in Requests, NEW at \in Writing \cup {"liked", "sent"},
         I!Goes(r, at)
  PROVE  /\ req4' \in [Requests -> Asked] /\ req4'[r].at = at
         /\ req4'[r].by = req4[r].by /\ req4'[r].of = req4[r].of
         /\ req4'[r].names = req4[r].names /\ req4'[r].seen = req4[r].seen
         /\ \A q \in Requests : q # r => req4'[q] = req4[q]
<1>1. PICK w \in Asked : w = [req4[r] EXCEPT !.at = at]
  BY DEF ITyped, Asked
<1>2. w.at = at /\ w.by = req4[r].by /\ w.of = req4[r].of
      /\ w.names = req4[r].names /\ w.seen = req4[r].seen
  BY <1>1 DEF ITyped, Asked
<1>3. req4' = [req4 EXCEPT ![r] = w]
  BY <1>1 DEF I!Goes
<1> QED
  BY <1>2, <1>3, Replaced

LEMMA EndsNow ==
  ASSUME ITyped, NEW r \in Requests, I!Ends(r)
  PROVE  /\ req4' \in [Requests -> Asked] /\ req4'[r].at = "idle"
         /\ \A q \in Requests : q # r => req4'[q] = req4[q]
<1>1. I!Idle \in Asked /\ I!Idle.at = "idle"
  BY DEF I!Idle, Asked, I!Statuses
<1> QED
  BY <1>1, Replaced DEF I!Ends

\* A request begins alone, or they cross.
LEMMA BeginsAlone ==
  ASSUME MInv, NEW r \in Requests, NEW m, NEW s, I!Begins(r, m, s),
         req4'[r].by = m /\ req4'[r].of = s,
         \A q \in Requests : q # r => req4'[q] = req4[q]
  PROVE  /\ lapses \subseteq lapses' /\ req4[r].at = "idle" /\ m \in I!Local
         /\ "crossed" \notin lapses' =>
              /\ OneTab' /\ "crossed" \notin lapses
              /\ \A q \in Requests : ~(req4[q].at # "idle" /\ req4[q].by = m /\ req4[q].of = s)
<1>1. lapses \subseteq lapses' /\ req4[r].at = "idle" /\ m \in I!Local
  BY DEF I!Begins, I!At
<1>2. ASSUME "crossed" \notin lapses'
      PROVE  /\ "crossed" \notin lapses
             /\ \A q \in Requests : ~(req4[q].at # "idle" /\ req4[q].by = m /\ req4[q].of = s)
  <2>1. I!Others(m, s) = {}
    BY <1>2 DEF I!Begins
  <2> QED
    BY <1>1, <1>2, <2>1 DEF I!Others, I!At
<1>3. "crossed" \notin lapses' => OneTab'
  BY <1>2 DEF MInv, OneByOne, OneTab
<1> QED
  BY <1>1, <1>2, <1>3

-----------------------------------------------------------------------------
LEMMA LikeStatusKeeps ==
  ASSUME MInv, NEW r \in Requests, NEW m \in Members, I!like_status(r, m)
  PROVE  MInv'
<1>1. CASE m \in likes
  <2>1. req4' = req4 /\ likes' = likes \ {m} /\ notes' = notes /\ liked' = liked
        /\ UNCHANGED <<state, writer, text, tags, held4, blocks, shut>>
    BY <1>1 DEF I!like_status
  <2>2. ITyped'
    BY <2>1 DEF MInv, IGround, ITyped
  <2>3. lapses \subseteq lapses'
    BY DEF I!like_status, I!Begins
  <2>4. LikesOnly
    BY <2>1, <2>3 DEF LikesOnly
  <2>5. OneTab /\ StillRead /\ LikesTold /\ "crossed" \notin lapses
          => OneTab' /\ LikesMissing'
    BY <2>1 DEF OneTab, StillRead, LikesMissing
  <2>6. LikesTold => LikesTold'
    BY <2>1, <2>3 DEF LikesTold, Telling, I!Told, I!Owed, I!Note
  <2> QED
    BY <2>2, <2>3, <2>4, <2>5, <2>6, LikesStep DEF MInv, OneByOne
<1>2. CASE m \notin likes
  <2> DEFINE w == [I!Idle EXCEPT !.by = m, !.of = "like", !.at = "insert"]
  <2>1. req4' = [req4 EXCEPT ![r] = w] /\ likes' = likes /\ notes' = notes
        /\ liked' = liked
        /\ UNCHANGED <<state, writer, text, tags, held4, blocks, shut>>
        /\ I!Begins(r, m, "like")
    BY <1>2 DEF I!like_status
  <2>2. w \in Asked /\ w.by = m /\ w.of = "like" /\ w.at = "insert"
    BY DEF Asked, I!Idle
  <2> HIDE DEF w
  <2>3. req4' \in [Requests -> Asked] /\ req4'[r] = w
        /\ \A q \in Requests : q # r => req4'[q] = req4[q]
    BY <2>1, <2>2, Replaced DEF MInv, IGround
  <2>4. ITyped'
    BY <2>1, <2>3 DEF MInv, IGround, ITyped
  <2>5. /\ lapses \subseteq lapses' /\ req4[r].at = "idle" /\ m \in I!Local
        /\ "crossed" \notin lapses' => OneTab' /\ "crossed" \notin lapses
    BY <2>1, <2>2, <2>3, BeginsAlone
  <2>6. LikesOnly
    BY <2>1, <2>2, <2>3, <2>5 DEF LikesOnly, LikeRequest
  <2>7. StillRead => LikesMissing'
    BY <1>2, <2>1, <2>2, <2>3 DEF StillRead, LikesMissing
  <2>8. \A u : Telling(u)' <=> Telling(u)
    BY <2>2, <2>3, <2>5 DEF Telling
  <2>9. LikesTold => LikesTold'
    BY <2>1, <2>5, <2>8 DEF LikesTold, I!Told, I!Owed, I!Note
  <2> QED
    BY <2>4, <2>5, <2>6, <2>7, <2>9, LikesStep DEF MInv, OneByOne
<1> QED
  BY <1>1, <1>2

LEMMA HandleUndoKeeps ==
  ASSUME MInv, NEW m \in Members, I!handle_undo(m)
  PROVE  MInv'
<1>1. req4' = req4 /\ likes' = likes \ {m} /\ notes' = notes /\ liked' = liked
      /\ UNCHANGED <<state, writer, text, tags, held4, blocks, shut>>
      /\ lapses' = lapses
  BY DEF I!handle_undo
<1>2. ITyped'
  BY <1>1 DEF MInv, IGround, ITyped
<1>3. LikesOnly
  BY <1>1 DEF LikesOnly
<1>4. OneTab /\ StillRead => OneTab' /\ LikesMissing'
  BY <1>1 DEF OneTab, StillRead, LikesMissing
<1>5. LikesTold => LikesTold'
  BY <1>1 DEF LikesTold, Telling, I!Told, I!Owed, I!Note
<1> QED
  BY <1>1, <1>2, <1>3, <1>4, <1>5, LikesStep DEF MInv, OneByOne

\* A like that comes to be is the next one to tell of.
LEMMA InsertLikeKeeps ==
  ASSUME MInv, NEW r \in Requests, I!InsertLike(r)
  PROVE  MInv'
<1>1. PICK m : m = req4[r].by
  OBVIOUS
<1>2. /\ req4[r].at = "insert" /\ I!Goes(r, "liked")
      /\ likes' = likes \cup {m}
      /\ liked' = IF m \in likes THEN liked ELSE [liked EXCEPT ![m] = liked[m] + 1]
      /\ UNCHANGED <<state, writer, text, tags, notes, held4, blocks, shut, lapses>>
  BY <1>1 DEF I!InsertLike, I!At
<1>3. req4[r].of = "like" /\ m \in I!Local
  BY <1>1, <1>2 DEF MInv, IGround, AllSound, Sound
<1>4. /\ req4' \in [Requests -> Asked] /\ req4'[r].at = "liked"
      /\ req4'[r].by = req4[r].by /\ req4'[r].of = req4[r].of
      /\ \A q \in Requests : q # r => req4'[q] = req4[q]
  BY <1>2, GoesOn DEF MInv, IGround
<1>5. ITyped'
  <2>1. likes' \subseteq Members
    BY <1>2, <1>3 DEF MInv, IGround, ITyped, I!Local
  <2>2. liked' \in [Members -> Nat]
    BY <1>2, <1>3 DEF MInv, IGround, ITyped, I!Local
  <2> QED
    BY <1>2, <1>4, <2>1, <2>2 DEF MInv, IGround, ITyped
<1>6. LikesOnly
  BY <1>1, <1>2, <1>3, <1>4 DEF LikesOnly, LikeRequest
<1>7. ASSUME "crossed" \notin lapses PROVE OneTab' /\ LikesMissing' /\ LikesTold'
  <2>1. OneTab /\ StillRead /\ LikesTold
    BY <1>7 DEF MInv, OneByOne
  <2>2. OneTab'
    BY <1>2, <1>4, <2>1 DEF OneTab
  <2>3. \A q \in Requests : q # r => ~(req4[q].at \in {"insert", "liked"} /\ req4[q].by = m)
    BY <1>1, <1>2, <1>3, <2>1 DEF OneTab, MInv, IGround, AllSound, Sound
  <2>4. LikesMissing'
    BY <1>2, <1>4, <2>1, <2>3 DEF StillRead, LikesMissing
  <2>5. m \notin likes
    BY <1>1, <1>2, <2>1 DEF StillRead
  <2>6. liked'[m] = liked[m] + 1 /\ \A u \in Members : u # m => liked'[u] = liked[u]
    BY <1>2, <1>3, <2>5 DEF MInv, IGround, ITyped, I!Local
  <2>7. Telling(m)' /\ ~Telling(m)
    BY <1>1, <1>2, <1>4, <2>3 DEF Telling
  <2>8. \A u : u # m => (Telling(u)' <=> Telling(u))
    BY <1>1, <1>2, <1>4 DEF Telling
  <2>9. LikesTold'
    <3> SUFFICES ASSUME NEW u \in Members
                 PROVE  LET n == I!Told(Author, u, "like", "post")' IN
                        /\ n <= liked'[u] /\ (Telling(u)' => n + 1 <= liked'[u])
                        /\ "crashed" \notin lapses' /\ I!Owed(Author, u)' =>
                             liked'[u] = IF Telling(u)' THEN n + 1 ELSE n
      BY DEF LikesTold
    <3>1. I!Told(Author, u, "like", "post")' = I!Told(Author, u, "like", "post")
          /\ (I!Owed(Author, u)' <=> I!Owed(Author, u)) /\ lapses' = lapses
      BY <1>2 DEF I!Told, I!Note, I!Owed
    <3>2. I!Told(Author, u, "like", "post") \in Nat /\ liked[u] \in Nat
      BY Notes, Statuses, InteractionsAssumption DEF MInv, IGround, ITyped, I!Told, I!Local
    <3>3. CASE u = m
      BY <2>1, <2>6, <2>7, <3>1, <3>2, <3>3 DEF LikesTold
    <3>4. CASE u # m
      BY <2>1, <2>6, <2>8, <3>1, <3>4 DEF LikesTold
    <3> QED
      BY <3>3, <3>4
  <2> QED
    BY <2>2, <2>4, <2>9
<1> QED
  BY <1>2, <1>5, <1>6, <1>7, LikesStep

\* The notes of m's like: one for the author if it is owed, and no other.
LEMMA LikeTold ==
  ASSUME MInv, NEW m \in Members,
         I!Notifies(I!notify({Author}, m, "like", "post"))
  PROVE  /\ notes' \in [I!Notes -> Nat]
         /\ \A n \in I!Notes :
              notes'[n] = notes[n] \/ (n.kind = "like" /\ I!Owed(n.to, n.from))
         /\ \A u \in Members : u # m =>
              I!Told(Author, u, "like", "post")' = I!Told(Author, u, "like", "post")
         /\ I!Told(Author, m, "like", "post")' =
              I!Told(Author, m, "like", "post") + IF I!Owed(Author, m) THEN 1 ELSE 0
<1>1. PICK new : new = I!notify({Author}, m, "like", "post")
  OBVIOUS
<1>2. /\ notes' \in [I!Notes -> Nat]
      /\ \A n \in I!Notes : notes'[n] = IF n \in new THEN notes[n] + 1 ELSE notes[n]
  BY <1>1, Notifying DEF MInv, IGround
<1>3. \A n \in I!Notes : n \in new <=>
        n.to = Author /\ I!Owed(n.to, m) /\ n.from = m /\ n.kind = "like" /\ n.of = "post"
  BY <1>1, Notified
<1>4. \A u \in Members : LET n == I!Note(Author, u, "like", "post") IN
        /\ n \in I!Notes /\ n.to = Author /\ n.from = u /\ n.kind = "like"
        /\ n.of = "post"
  BY Notes, Statuses, InteractionsAssumption DEF I!Local
<1>5. ASSUME NEW u \in Members
      PROVE  I!Told(Author, u, "like", "post")' =
               IF u = m /\ I!Owed(Author, m) THEN I!Told(Author, u, "like", "post") + 1
               ELSE I!Told(Author, u, "like", "post")
  <2>1. PICK n \in I!Notes : n = I!Note(Author, u, "like", "post")
    BY <1>4
  <2>2. n \in new <=> u = m /\ I!Owed(Author, m)
    BY <1>3, <1>4, <2>1
  <2>3. notes'[n] = IF u = m /\ I!Owed(Author, m) THEN notes[n] + 1 ELSE notes[n]
    BY <1>2, <2>2
  <2> QED
    BY <2>1, <2>3 DEF I!Told, I!Note
<1>6. I!Told(Author, m, "like", "post") \in Nat
  BY <1>4 DEF MInv, IGround, ITyped, I!Told
<1> QED
  BY <1>2, <1>3, <1>5, <1>6

LEMMA TellLikeKeeps ==
  ASSUME MInv, NEW r \in Requests, I!TellLike(r)
  PROVE  MInv'
<1>1. PICK m : m = req4[r].by
  OBVIOUS
<1>2. /\ req4[r].at = "liked" /\ I!Ends(r)
      /\ I!Notifies(I!notify({Author}, m, "like", "post"))
      /\ UNCHANGED <<state, writer, text, tags, likes, held4, blocks, shut, liked, lapses>>
  BY <1>1 DEF I!TellLike, I!At
<1>3. req4[r].of = "like" /\ m \in I!Local /\ m \in Members
  BY <1>1, <1>2 DEF MInv, IGround, AllSound, Sound, I!Local
<1>4. /\ req4' \in [Requests -> Asked] /\ req4'[r].at = "idle"
      /\ \A q \in Requests : q # r => req4'[q] = req4[q]
  BY <1>2, EndsNow DEF MInv, IGround
<1>5. /\ notes' \in [I!Notes -> Nat]
      /\ \A n \in I!Notes :
           notes'[n] = notes[n] \/ (n.kind = "like" /\ I!Owed(n.to, n.from))
      /\ \A u \in Members : u # m =>
           I!Told(Author, u, "like", "post")' = I!Told(Author, u, "like", "post")
      /\ I!Told(Author, m, "like", "post")' =
           I!Told(Author, m, "like", "post") + IF I!Owed(Author, m) THEN 1 ELSE 0
  BY <1>2, <1>3, LikeTold
<1>6. ITyped'
  BY <1>2, <1>4, <1>5 DEF MInv, IGround, ITyped
<1>7. LikesOnly
  BY <1>1, <1>2, <1>3, <1>4, <1>5 DEF LikesOnly, LikeRequest
<1>8. ASSUME "crossed" \notin lapses PROVE OneTab' /\ LikesMissing' /\ LikesTold'
  <2>1. OneTab /\ StillRead /\ LikesTold
    BY <1>8 DEF MInv, OneByOne
  <2>2. OneTab' /\ LikesMissing'
    BY <1>2, <1>4, <2>1 DEF OneTab, StillRead, LikesMissing
  <2>3. \A q \in Requests : q # r => ~(req4[q].at = "liked" /\ req4[q].by = m)
    BY <1>1, <1>2, <1>3, <2>1 DEF OneTab, MInv, IGround, AllSound, Sound
  <2>4. ~Telling(m)' /\ Telling(m)
    BY <1>1, <1>2, <1>4, <2>3 DEF Telling
  <2>5. \A u : u # m => (Telling(u)' <=> Telling(u))
    BY <1>1, <1>2, <1>4 DEF Telling
  <2>6. \A u : I!Owed(Author, u)' <=> I!Owed(Author, u)
    BY <1>2 DEF I!Owed
  <2>7. LikesTold'
    <3> SUFFICES ASSUME NEW u \in Members
                 PROVE  LET n == I!Told(Author, u, "like", "post")' IN
                        /\ n <= liked'[u] /\ (Telling(u)' => n + 1 <= liked'[u])
                        /\ "crashed" \notin lapses' /\ I!Owed(Author, u)' =>
                             liked'[u] = IF Telling(u)' THEN n + 1 ELSE n
      BY DEF LikesTold
    <3>1. I!Told(Author, u, "like", "post") \in Nat /\ liked[u] \in Nat
      BY Notes, Statuses, InteractionsAssumption DEF MInv, IGround, ITyped, I!Told, I!Local
    <3>2. CASE u = m
      BY <1>2, <1>5, <2>1, <2>4, <2>6, <3>1, <3>2 DEF LikesTold
    <3>3. CASE u # m
      BY <1>2, <1>5, <2>1, <2>5, <2>6, <3>1, <3>3 DEF LikesTold
    <3> QED
      BY <3>2, <3>3
  <2> QED
    BY <2>2, <2>7
<1> QED
  BY <1>2, <1>6, <1>7, <1>8, LikesStep

LEMMA HandleLikeKeeps ==
  ASSUME MInv, NEW m \in Members, I!handle_like(m)
  PROVE  MInv'
<1>1. /\ m \notin I!Local /\ m \notin likes /\ likes' = likes \cup {m}
      /\ liked' = [liked EXCEPT ![m] = liked[m] + 1] /\ req4' = req4
      /\ I!Notifies(I!notify({Author}, m, "like", "post"))
      /\ UNCHANGED <<state, writer, text, tags, held4, blocks, shut, lapses>>
  BY DEF I!handle_like, I!Delivered, I!Local
<1>2. /\ notes' \in [I!Notes -> Nat]
      /\ \A n \in I!Notes :
           notes'[n] = notes[n] \/ (n.kind = "like" /\ I!Owed(n.to, n.from))
      /\ \A u \in Members : u # m =>
           I!Told(Author, u, "like", "post")' = I!Told(Author, u, "like", "post")
      /\ I!Told(Author, m, "like", "post")' =
           I!Told(Author, m, "like", "post") + IF I!Owed(Author, m) THEN 1 ELSE 0
  BY <1>1, LikeTold
<1>3. ITyped'
  BY <1>1, <1>2 DEF MInv, IGround, ITyped
<1>4. LikesOnly
  BY <1>1, <1>2 DEF LikesOnly
<1>5. ASSUME "crossed" \notin lapses PROVE OneTab' /\ LikesMissing' /\ LikesTold'
  <2>1. OneTab /\ StillRead /\ LikesTold
    BY <1>5 DEF MInv, OneByOne
  <2>2. \A q \in Requests : req4[q].at \in {"insert", "liked"} => req4[q].by # m
    BY <1>1 DEF MInv, IGround, AllSound, Sound
  <2>3. OneTab' /\ LikesMissing'
    BY <1>1, <2>1, <2>2 DEF OneTab, StillRead, LikesMissing
  <2>4. ~Telling(m) /\ \A u : Telling(u)' <=> Telling(u)
    BY <1>1, <2>2 DEF Telling
  <2>5. \A u : I!Owed(Author, u)' <=> I!Owed(Author, u)
    BY <1>1 DEF I!Owed
  <2>6. liked'[m] = liked[m] + 1 /\ \A u \in Members : u # m => liked'[u] = liked[u]
    BY <1>1 DEF MInv, IGround, ITyped
  <2>7. LikesTold'
    <3> SUFFICES ASSUME NEW u \in Members
                 PROVE  LET n == I!Told(Author, u, "like", "post")' IN
                        /\ n <= liked'[u] /\ (Telling(u)' => n + 1 <= liked'[u])
                        /\ "crashed" \notin lapses' /\ I!Owed(Author, u)' =>
                             liked'[u] = IF Telling(u)' THEN n + 1 ELSE n
      BY DEF LikesTold
    <3>1. I!Told(Author, u, "like", "post") \in Nat /\ liked[u] \in Nat
      BY Notes, Statuses, InteractionsAssumption DEF MInv, IGround, ITyped, I!Told, I!Local
    <3>2. CASE u = m
      BY <1>1, <1>2, <2>1, <2>4, <2>5, <2>6, <3>1, <3>2 DEF LikesTold
    <3>3. CASE u # m
      BY <1>1, <1>2, <2>1, <2>4, <2>5, <2>6, <3>1, <3>3 DEF LikesTold
    <3> QED
      BY <3>2, <3>3
  <2> QED
    BY <2>3, <2>7
<1> QED
  BY <1>1, <1>3, <1>4, <1>5, LikesStep

-----------------------------------------------------------------------------
LEMMA TextsStep ==
  ASSUME MInv, TextsOnly, ITyped', Written', AllSound', OneReply', NotesAreOwed',
         ReplyToldOnce', Unbroken',
         "crossed" \notin lapses' =>
           OneTab' /\ RowsStillRead' /\ MentionsOnce' /\ NoneWritesDeleted' /\ HeldByRows'
  PROVE  MInv'
  BY TextsKeepLikes
     DEF MInv, IGround, OneByOne, StillRead, LikesMissing, RowsStillRead

\* A step that makes no note.
LEMMA Unnoted ==
  ASSUME MInv, UNCHANGED <<notes, blocks, shut>>,
         \A s \in I!Statuses :
           state[s] # "none" => state'[s] # "none" /\ writer'[s] = writer[s]
  PROVE  /\ NotesAreOwed' /\ (MentionsOnce => MentionsOnce')
         /\ \A u, m : I!Owed(u, m)' <=> I!Owed(u, m)
         /\ \A s \in I!Statuses : I!AlreadyTold(s)' = I!AlreadyTold(s)
<1>1. \A u, m : I!Owed(u, m)' <=> I!Owed(u, m)
  BY DEF I!Owed
<1>2. \A s \in I!Statuses : I!AlreadyTold(s)' = I!AlreadyTold(s)
  BY DEF I!AlreadyTold, I!Noted, I!Note
<1>3. NotesAreOwed'
  <2>1. NotesAreOwed
    BY DEF MInv, IGround
  <2>2. \A n \in I!Notes : n.of \in I!Statuses
    BY DEF I!Notes
  <2> QED
    BY <1>1, <2>1, <2>2, Statuses DEF NotesAreOwed
<1>4. MentionsOnce => MentionsOnce'
  <2> SUFFICES ASSUME MentionsOnce,
                      NEW u \in I!Local, NEW m \in Members, NEW s \in I!Statuses
               PROVE  I!Told(u, m, "mention", s)' <= 1
    BY DEF MentionsOnce
  <2>1. I!Told(u, m, "mention", s) <= 1
    BY DEF MentionsOnce
  <2> QED
    BY <2>1 DEF I!Told, I!Note
<1> QED
  BY <1>1, <1>2, <1>3, <1>4

\* A request that goes on at its text, and changes no text.
GoesOnWriting(r) ==
  /\ req4[r].at \in Writing /\ req4'[r].at \in Writing
  /\ req4'[r].by = req4[r].by /\ req4'[r].of = req4[r].of
  /\ req4'[r].names = req4[r].names
  /\ req4'[r].at = "told" /\ req4[r].of = "reply" => Author \in req4'[r].seen
  /\ \A q \in Requests : q # r => req4'[q] = req4[q]
  /\ UNCHANGED <<state, writer, text, likes, notes, held4, blocks, shut, liked>>
  /\ \A s \in I!Statuses : s # req4[r].of => tags'[s] = tags[s]
  /\ lapses \subseteq lapses'

LEMMA WritingOn ==
  ASSUME MInv, NEW r \in Requests, GoesOnWriting(r)
  PROVE  /\ TextsOnly /\ Written' /\ AllSound' /\ OneReply' /\ NotesAreOwed'
         /\ ReplyToldOnce'
         /\ "crossed" \notin lapses' => OneTab' /\ MentionsOnce' /\ NoneWritesDeleted'
         /\ "crossed" \notin lapses' /\ "crashed" \notin lapses' =>
              TextTold' /\ ReplyTold' /\ CopiesSent' /\ DeleteSent'
<1> USE DEF MInv, IGround
<1>1. TextsOnly
  BY DEF TextsOnly, GoesOnWriting, Writing
<1>2. req4[r].of \in I!Statuses /\ state[req4[r].of] # "none"
  BY DEF AllSound, Sound, GoesOnWriting
<1>3. Written'
  BY <1>2, Statuses DEF Written, GoesOnWriting
<1>4. AllSound'
  BY Statuses DEF AllSound, Sound, GoesOnWriting, Writing
<1>5. Onward
  BY DEF Onward, GoesOnWriting, Writing
<1>6. OneReply' /\ (OneTab => OneTab')
  BY <1>5, OnwardKeeps
<1>7. /\ NotesAreOwed' /\ (MentionsOnce => MentionsOnce')
      /\ \A u, m : I!Owed(u, m)' <=> I!Owed(u, m)
  BY Unnoted DEF GoesOnWriting
<1>8. ReplyToldOnce'
  <2>1. (\E q \in Requests : req4'[q].of = "reply" /\ req4'[q].at # "idle") =>
        \E q \in Requests : req4[q].of = "reply" /\ req4[q].at # "idle"
    BY DEF GoesOnWriting, Writing
  <2> QED
    BY <2>1, OneReplyTold DEF GoesOnWriting
<1>9. \A q \in Requests, s \in I!Statuses :
        (Writes(q, s)' <=> Writes(q, s)) /\ req4'[q].names = req4[q].names
  BY DEF GoesOnWriting, Writes
<1>10. ASSUME "crossed" \notin lapses'
       PROVE  OneTab' /\ MentionsOnce' /\ NoneWritesDeleted'
  <2>1. OneTab /\ MentionsOnce /\ NoneWritesDeleted
    BY <1>10 DEF OneByOne, GoesOnWriting
  <2> QED
    BY <1>6, <1>7, <1>9, <2>1, Statuses DEF NoneWritesDeleted, GoesOnWriting
<1>11. ASSUME "crossed" \notin lapses', "crashed" \notin lapses'
       PROVE  TextTold' /\ ReplyTold' /\ CopiesSent' /\ DeleteSent'
  <2>1. TextTold /\ ReplyTold /\ CopiesSent /\ DeleteSent
    BY <1>11 DEF Unbroken, GoesOnWriting
  <2>2. UNCHANGED <<state, writer, text, notes, held4>>
    BY DEF GoesOnWriting
  <2>3. TextTold'
    BY <1>7, <1>9, <2>1, <2>2 DEF TextTold, I!Told, I!Note
  <2>4. ReplyTold'
    BY <1>7, <2>1, <2>2 DEF ReplyTold, I!Told, I!Note, GoesOnWriting, Writing
  <2>5. CopiesSent'
    <3> SUFFICES ASSUME NEW s \in I!Statuses, state[s] = "live", writer[s] \in I!Local
                 PROVE  \/ tags'[s] \cap Remote \subseteq held4[s]
                        \/ \E q \in Requests : Writes(q, s)'
      BY <2>2 DEF CopiesSent
    <3>1. Writes(r, req4[r].of)
      BY DEF Writes, GoesOnWriting
    <3>2. s # req4[r].of => tags'[s] = tags[s]
      BY DEF GoesOnWriting
    <3> QED
      BY <1>2, <1>9, <2>1, <3>1, <3>2 DEF CopiesSent
  <2>6. DeleteSent'
    <3>1. \A q \in Requests : req4[q].at = "tombstone" => req4'[q].at = "tombstone"
      BY DEF GoesOnWriting, Writing
    <3> QED
      BY <2>1, <2>2, <3>1 DEF DeleteSent, GoesOnWriting
  <2> QED
    BY <2>3, <2>4, <2>5, <2>6
<1> QED
  BY <1>1, <1>3, <1>4, <1>6, <1>7, <1>8, <1>10, <1>11

LEMMA ReadTagsKeeps ==
  ASSUME MInv, NEW r \in Requests, I!ReadTags(r)
  PROVE  MInv'
<1>1. PICK w : w = [req4[r] EXCEPT !.at = "read", !.seen = tags[req4[r].of]]
  OBVIOUS
<1>2. req4[r].at = "saved" /\ req4' = [req4 EXCEPT ![r] = w]
      /\ UNCHANGED <<state, writer, text, tags, likes, notes, held4, blocks, shut,
                     liked, lapses>>
  BY <1>1 DEF I!ReadTags, I!At
<1>3. req4[r].of \in I!Statuses
  BY <1>2 DEF MInv, IGround, AllSound, Sound, Writing
<1>4. w \in Asked /\ w.at = "read" /\ w.seen = tags[req4[r].of]
      /\ w.by = req4[r].by /\ w.of = req4[r].of /\ w.names = req4[r].names
  <2>1. tags[req4[r].of] \in SUBSET Members
    BY <1>3 DEF MInv, IGround, ITyped
  <2>2. PICK v \in Asked : v = req4[r]
    BY DEF MInv, IGround, ITyped
  <2> QED
    BY <1>1, <2>1, <2>2 DEF Asked, Writing
<1>5. req4' \in [Requests -> Asked] /\ req4'[r] = w
      /\ \A q \in Requests : q # r => req4'[q] = req4[q]
  BY <1>2, <1>4, Replaced DEF MInv, IGround
<1>6. GoesOnWriting(r)
  BY <1>2, <1>4, <1>5 DEF GoesOnWriting, Writing
<1>7. ITyped'
  BY <1>2, <1>5 DEF MInv, IGround, ITyped
<1>8. ASSUME "crossed" \notin lapses PROVE RowsStillRead' /\ HeldByRows'
  <2>1. StillRead /\ HeldByRows
    BY <1>8 DEF MInv, OneByOne
  <2>2. \A q \in Requests : req4[q].at = "told" => req4[q].of \in I!Statuses
    BY DEF MInv, IGround, AllSound, Sound, Writing
  <2>3. \A s \in I!Statuses : I!AlreadyTold(s)' = I!AlreadyTold(s)
    BY <1>2, Unnoted
  <2>4. RowsStillRead'
    BY <1>2, <1>4, <1>5, <2>1, <2>2, <2>3 DEF StillRead, RowsStillRead
  <2> QED
    BY <1>2, <2>1, <2>4 DEF HeldByRows
<1>9. RowsFollow => RowsFollow'
  BY <1>2, <1>4, <1>5 DEF RowsFollow
<1>10. Unbroken'
  BY <1>2, <1>6, <1>9, WritingOn DEF MInv, Unbroken
<1> QED
  BY <1>2, <1>6, <1>7, <1>8, <1>10, WritingOn, TextsStep

LEMMA ReadToldKeeps ==
  ASSUME MInv, NEW r \in Requests, I!ReadTold(r)
  PROVE  MInv'
<1>1. PICK w : w = [req4[r] EXCEPT !.at = "told", !.seen = I!AlreadyTold(req4[r].of)]
  OBVIOUS
<1>2. req4[r].at = "synced" /\ req4' = [req4 EXCEPT ![r] = w]
      /\ UNCHANGED <<state, writer, text, tags, likes, notes, held4, blocks, shut,
                     liked, lapses>>
  BY <1>1 DEF I!ReadTold, I!At
<1>3. req4[r].of \in I!Statuses
  BY <1>2 DEF MInv, IGround, AllSound, Sound, Writing
<1>4. w \in Asked /\ w.at = "told" /\ w.seen = I!AlreadyTold(req4[r].of)
      /\ w.by = req4[r].by /\ w.of = req4[r].of /\ w.names = req4[r].names
  <2>1. I!AlreadyTold(req4[r].of) \in SUBSET Members
    BY InteractionsAssumption DEF I!AlreadyTold, I!Noted, I!Local
  <2>2. PICK v \in Asked : v = req4[r]
    BY DEF MInv, IGround, ITyped
  <2> QED
    BY <1>1, <2>1, <2>2 DEF Asked, Writing
<1>5. req4' \in [Requests -> Asked] /\ req4'[r] = w
      /\ \A q \in Requests : q # r => req4'[q] = req4[q]
  BY <1>2, <1>4, Replaced DEF MInv, IGround
<1>6. GoesOnWriting(r)
  <2>1. req4[r].of = "reply" => Author \in w.seen
    BY <1>4 DEF I!AlreadyTold
  <2> QED
    BY <1>2, <1>4, <1>5, <2>1 DEF GoesOnWriting, Writing
<1>7. ITyped'
  BY <1>2, <1>5 DEF MInv, IGround, ITyped
<1>8. ASSUME "crossed" \notin lapses PROVE RowsStillRead' /\ HeldByRows'
  <2>1. StillRead /\ HeldByRows
    BY <1>8 DEF MInv, OneByOne
  <2>2. \A q \in Requests : req4[q].at = "told" => req4[q].of \in I!Statuses
    BY DEF MInv, IGround, AllSound, Sound, Writing
  <2>3. \A s \in I!Statuses : I!AlreadyTold(s)' = I!AlreadyTold(s)
    BY <1>2, Unnoted
  <2>4. RowsStillRead'
    BY <1>2, <1>3, <1>4, <1>5, <2>1, <2>2, <2>3 DEF StillRead, RowsStillRead
  <2> QED
    BY <1>2, <2>1, <2>4 DEF HeldByRows
<1>9. RowsFollow => RowsFollow'
  BY <1>2, <1>4, <1>5 DEF RowsFollow
<1>10. Unbroken'
  BY <1>2, <1>6, <1>9, WritingOn DEF MInv, Unbroken
<1> QED
  BY <1>2, <1>6, <1>7, <1>8, <1>10, WritingOn, TextsStep

\* A request that is over without having done what it was to do, which only a
\* crash, or two tabs at once, lead to.
LEMMA GivesUp ==
  ASSUME MInv, NEW r \in Requests, I!Ends(r),
         req4[r].at \in Writing \cup {"sent", "tombstone"},
         "crossed" \in lapses' \/ "crashed" \in lapses',
         lapses \subseteq lapses',
         UNCHANGED <<state, writer, text, tags, likes, notes, held4, blocks, shut,
                     liked>>
  PROVE  MInv'
<1>1. /\ req4' \in [Requests -> Asked] /\ req4'[r].at = "idle"
      /\ \A q \in Requests : q # r => req4'[q] = req4[q]
  BY EndsNow DEF MInv, IGround
<1>2. TextsOnly
  BY <1>1 DEF TextsOnly, Writing
<1>3. ITyped' /\ Written'
  BY <1>1 DEF MInv, IGround, ITyped, Written
<1>4. AllSound'
  BY <1>1 DEF MInv, IGround, AllSound, Sound, Writing
<1>5. Onward
  BY <1>1 DEF Onward
<1>6. OneReply' /\ (OneTab => OneTab')
  BY <1>5, OnwardKeeps DEF MInv, IGround
<1>7. /\ NotesAreOwed' /\ (MentionsOnce => MentionsOnce')
      /\ \A s \in I!Statuses : I!AlreadyTold(s)' = I!AlreadyTold(s)
  BY Unnoted
<1>8. ReplyToldOnce'
  <2>1. (\E q \in Requests : req4'[q].of = "reply" /\ req4'[q].at # "idle") =>
        \E q \in Requests : req4[q].of = "reply" /\ req4[q].at # "idle"
    BY <1>1
  <2> QED
    BY <2>1, OneReplyTold DEF MInv, IGround
<1>9. ASSUME "crossed" \notin lapses'
      PROVE  OneTab' /\ RowsStillRead' /\ MentionsOnce' /\ NoneWritesDeleted' /\ HeldByRows'
  <2>1. OneTab /\ StillRead /\ MentionsOnce /\ NoneWritesDeleted /\ HeldByRows
    BY <1>9 DEF MInv, OneByOne
  <2>2. \A q \in Requests : req4[q].at = "told" => req4[q].of \in I!Statuses
    BY DEF MInv, IGround, AllSound, Sound, Writing
  <2>3. RowsStillRead'
    BY <1>1, <1>7, <2>1, <2>2 DEF StillRead, RowsStillRead
  <2>4. NoneWritesDeleted' /\ HeldByRows'
    BY <1>1, <2>1 DEF NoneWritesDeleted, HeldByRows, Writes, Writing
  <2> QED
    BY <1>6, <1>7, <2>1, <2>3, <2>4
<1>10. Unbroken'
  BY DEF Unbroken
<1> QED
  BY <1>2, <1>3, <1>4, <1>6, <1>7, <1>8, <1>9, <1>10, TextsStep

LEMMA CrashKeeps ==
  ASSUME MInv, NEW r \in Requests, I!Crash(r)
  PROVE  MInv'
<1>1. /\ req4[r].at # "idle" /\ I!Ends(r) /\ lapses' = lapses \cup {"crashed"}
      /\ UNCHANGED <<state, writer, text, tags, likes, notes, held4, blocks, shut,
                     liked>>
  BY DEF I!Crash, I!At
<1>2. CASE req4[r].at \in {"insert", "liked"}
  <2>1. /\ req4' \in [Requests -> Asked] /\ req4'[r].at = "idle"
        /\ \A q \in Requests : q # r => req4'[q] = req4[q]
    BY <1>1, EndsNow DEF MInv, IGround
  <2>2. ITyped'
    BY <1>1, <2>1 DEF MInv, IGround, ITyped
  <2>3. req4[r].of = "like" /\ req4[r].by \in I!Local
    BY <1>2 DEF MInv, IGround, AllSound, Sound
  <2>4. LikesOnly
    BY <1>1, <1>2, <2>1, <2>3 DEF LikesOnly, LikeRequest
  <2>5. OneTab /\ StillRead => OneTab' /\ LikesMissing'
    BY <1>1, <2>1 DEF OneTab, StillRead, LikesMissing
  <2>6. LikesTold => LikesTold'
    <3>1. \A m : Telling(m)' => Telling(m)
      BY <2>1 DEF Telling
    <3> QED
      BY <1>1, <3>1 DEF LikesTold, I!Told, I!Note
  <2> QED
    BY <1>1, <2>2, <2>4, <2>5, <2>6, LikesStep DEF MInv, OneByOne
<1>3. CASE req4[r].at \in Writing \cup {"sent", "tombstone"}
  BY <1>1, <1>3, GivesUp
<1> QED
  <2>1. PICK w \in Asked : w = req4[r]
    BY DEF MInv, IGround, ITyped
  <2> QED
    BY <1>1, <1>2, <1>3, <2>1 DEF Asked

LEMMA SyncTagsKeeps ==
  ASSUME MInv, NEW r \in Requests, I!SyncTags(r)
  PROVE  MInv'
<1>1. PICK s : s = req4[r].of
  OBVIOUS
<1>2. PICK fresh, stale :
        fresh = req4[r].names \ req4[r].seen /\ stale = req4[r].seen \ req4[r].names
  OBVIOUS
<1>3. /\ req4[r].at = "read"
      /\ UNCHANGED <<state, writer, text, likes, notes, held4, blocks, shut, liked>>
      /\ fresh \cap tags[s] # {} => I!Ends(r) /\ UNCHANGED <<tags, lapses>>
      /\ fresh \cap tags[s] = {} =>
           /\ tags' = [tags EXCEPT ![s] = (tags[s] \ stale) \cup fresh]
           /\ lapses' = (lapses
                \cup (IF stale \cap held4[s] # {} THEN {"dropped"} ELSE {}))
                \cup (IF req4[r].names # text[s] THEN {"emptied"} ELSE {})
           /\ I!Goes(r, "synced")
  BY <1>1, <1>2 DEF I!SyncTags, I!At
<1>4. s \in I!Statuses
  BY <1>1, <1>3 DEF MInv, IGround, AllSound, Sound, Writing
<1>5. CASE fresh \cap tags[s] # {}
  <2>1. "crossed" \in lapses
    BY <1>1, <1>2, <1>3, <1>5 DEF MInv, OneByOne, StillRead
  <2> QED
    BY <1>3, <1>5, <2>1, GivesUp DEF Writing
<1>6. CASE fresh \cap tags[s] = {}
  <2>1. /\ req4' \in [Requests -> Asked] /\ req4'[r].at = "synced"
        /\ req4'[r].by = req4[r].by /\ req4'[r].of = req4[r].of
        /\ req4'[r].names = req4[r].names /\ req4'[r].seen = req4[r].seen
        /\ \A q \in Requests : q # r => req4'[q] = req4[q]
    BY <1>3, <1>6, GoesOn DEF MInv, IGround, Writing
  <2>2. PICK w \in Asked : w = req4[r]
    BY DEF MInv, IGround, ITyped
  <2>3. fresh \subseteq Members
    BY <1>2, <2>2 DEF Asked
  <2>4. /\ tags' \in [I!Statuses -> SUBSET Members]
        /\ tags'[s] = (tags[s] \ stale) \cup fresh
        /\ \A o \in I!Statuses : o # s => tags'[o] = tags[o]
    BY <1>3, <1>4, <1>6, <2>3 DEF MInv, IGround, ITyped
  <2>5. ITyped'
    BY <1>3, <2>1, <2>4 DEF MInv, IGround, ITyped
  <2>6. GoesOnWriting(r)
    BY <1>1, <1>3, <1>6, <2>1, <2>4 DEF GoesOnWriting, Writing
  <2>7. ASSUME "crossed" \notin lapses'
        PROVE  RowsStillRead' /\ HeldByRows' /\ tags'[s] = req4[r].names
    <3>1. OneTab /\ StillRead /\ HeldByRows
      BY <1>3, <1>6, <2>7 DEF MInv, OneByOne
    <3>2. req4[r].seen = tags[s]
      BY <1>1, <1>3, <3>1 DEF StillRead
    <3>3. tags'[s] = req4[r].names
      BY <1>2, <2>4, <3>2
    <3>4. \A q \in Requests : req4[q].at \in Writing =>
            req4[q].of \in I!Statuses /\ req4[q].by = writer[req4[q].of]
      BY DEF MInv, IGround, AllSound, Sound
    <3>5. \A q \in Requests : q # r /\ req4[q].at \in Writing => req4[q].of # s
      BY <1>1, <1>3, <3>1, <3>4 DEF OneTab, Writing
    <3>6. \A o \in I!Statuses : I!AlreadyTold(o)' = I!AlreadyTold(o)
      BY <1>3, Unnoted
    <3>7. RowsStillRead'
      BY <2>1, <2>4, <3>1, <3>4, <3>5, <3>6 DEF StillRead, RowsStillRead, Writing
    <3>8. HeldByRows'
      <4> SUFFICES ASSUME "dropped" \notin lapses' PROVE held4["post"] \subseteq tags'["post"]
        BY <1>3 DEF HeldByRows
      <4>1. "dropped" \notin lapses /\ stale \cap held4[s] = {}
        BY <1>3, <1>6
      <4> QED
        BY <2>4, <3>1, <4>1, Statuses DEF HeldByRows
    <3> QED
      BY <3>3, <3>7, <3>8
  <2>8. "crossed" \notin lapses' /\ RowsFollow => RowsFollow'
    <3> SUFFICES ASSUME "crossed" \notin lapses', RowsFollow, "emptied" \notin lapses',
                        NEW o \in I!Statuses
                 PROVE  \/ tags'[o] = text[o]
                        \/ \E q \in Requests : req4'[q].of = o /\ req4'[q].at \in {"saved", "read"}
      BY <1>3 DEF RowsFollow
    <3>1. "emptied" \notin lapses /\ req4[r].names = text[s]
      BY <1>3, <1>6
    <3>2. CASE o = s
      BY <2>7, <3>1, <3>2
    <3>3. CASE o # s
      <4>1. \A q \in Requests : req4[q].of = o => req4'[q] = req4[q]
        BY <1>1, <2>1, <3>3
      <4>2. \/ tags[o] = text[o]
            \/ \E q \in Requests : req4[q].of = o /\ req4[q].at \in {"saved", "read"}
        BY <3>1 DEF RowsFollow
      <4> QED
        BY <2>4, <3>3, <4>1, <4>2
    <3> QED
      BY <3>2, <3>3
  <2>9. Unbroken'
    <3>1. lapses \subseteq lapses'
      BY <2>6 DEF GoesOnWriting
    <3> QED
      BY <2>6, <2>8, <3>1, WritingOn DEF MInv, Unbroken
  <2> QED
    BY <2>5, <2>6, <2>7, <2>9, WritingOn, TextsStep
<1> QED
  BY <1>5, <1>6

LEMMA DeletePostKeeps ==
  ASSUME MInv, NEW r \in Requests, I!DeletePost(r)
  PROVE  MInv'
<1>1. PICK w : w = [I!Idle EXCEPT !.by = Author, !.at = "tombstone"]
  OBVIOUS
<1>2. /\ I!Begins(r, Author, "post") /\ state["post"] = "live"
      /\ state' = [state EXCEPT !["post"] = "deleted"]
      /\ req4' = [req4 EXCEPT ![r] = w]
      /\ UNCHANGED <<writer, text, tags, likes, notes, held4, blocks, shut, liked>>
  BY <1>1 DEF I!DeletePost
<1>3. w \in Asked /\ w.at = "tombstone" /\ w.of = "post" /\ w.by = Author
  BY <1>1, InteractionsAssumption DEF Asked, I!Idle, I!Statuses
<1>4. /\ req4' \in [Requests -> Asked] /\ req4'[r] = w
      /\ \A q \in Requests : q # r => req4'[q] = req4[q]
  BY <1>2, <1>3, Replaced DEF MInv, IGround
<1>5. /\ lapses \subseteq lapses' /\ req4[r].at = "idle"
      /\ "crossed" \notin lapses' =>
           /\ OneTab' /\ "crossed" \notin lapses
           /\ \A q \in Requests :
                ~(req4[q].at # "idle" /\ req4[q].by = Author /\ req4[q].of = "post")
  BY <1>2, <1>3, <1>4, BeginsAlone
<1>6. /\ state' \in [I!Statuses -> {"none", "live", "deleted"}]
      /\ state'["post"] = "deleted" /\ state'["reply"] = state["reply"]
  BY <1>2, Statuses DEF MInv, IGround, ITyped
<1>7. ITyped'
  BY <1>2, <1>4, <1>6 DEF MInv, IGround, ITyped
<1>8. TextsOnly
  BY <1>2, <1>3, <1>4, <1>5 DEF TextsOnly
<1>9. Written'
  BY <1>2, <1>6, Statuses DEF MInv, IGround, Written
<1>10. AllSound'
  <2> SUFFICES ASSUME NEW q \in Requests PROVE Sound(q)'
    BY DEF AllSound
  <2>1. CASE q = r
    BY <1>2, <1>3, <1>4, <1>6, <2>1, InteractionsAssumption DEF Sound, I!Local, Writing
  <2>2. CASE q # r
    BY <1>2, <1>4, <1>6, <2>2, Statuses DEF MInv, IGround, AllSound, Sound
  <2> QED
    BY <2>1, <2>2
<1>11. OneReply'
  BY <1>3, <1>4 DEF MInv, IGround, OneReply
<1>12. /\ NotesAreOwed' /\ (MentionsOnce => MentionsOnce')
       /\ \A u, m : I!Owed(u, m)' <=> I!Owed(u, m)
       /\ \A s \in I!Statuses : I!AlreadyTold(s)' = I!AlreadyTold(s)
  BY <1>2, <1>6, Statuses, Unnoted
<1>13. ReplyToldOnce'
  BY <1>2, <1>3, <1>4, OneReplyTold DEF MInv, IGround
<1>14. ASSUME "crossed" \notin lapses'
       PROVE  OneTab' /\ RowsStillRead' /\ MentionsOnce' /\ NoneWritesDeleted' /\ HeldByRows'
  <2>1. StillRead /\ MentionsOnce /\ HeldByRows
    BY <1>5, <1>14 DEF MInv, OneByOne
  <2>2. \A q \in Requests : req4[q].at \in Writing =>
          req4[q].of \in I!Statuses /\ req4[q].by = writer[req4[q].of]
    BY DEF MInv, IGround, AllSound, Sound
  <2>3. RowsStillRead'
    BY <1>2, <1>3, <1>4, <1>12, <2>1, <2>2 DEF StillRead, RowsStillRead, Writing
  <2>4. NoneWritesDeleted'
    BY <1>3, <1>4, <1>5, <1>14, <2>2
       DEF NoneWritesDeleted, Writes, Writing, MInv, IGround, Written
  <2>5. HeldByRows'
    BY <1>2, <1>5, <2>1 DEF HeldByRows
  <2> QED
    BY <1>5, <1>12, <1>14, <2>1, <2>3, <2>4, <2>5
<1>15. Unbroken'
  <2> SUFFICES ASSUME "crossed" \notin lapses', "crashed" \notin lapses'
               PROVE  TextTold' /\ ReplyTold' /\ RowsFollow' /\ CopiesSent' /\ DeleteSent'
    BY DEF Unbroken
  <2>1. TextTold /\ ReplyTold /\ RowsFollow /\ CopiesSent
    BY <1>5 DEF MInv, Unbroken
  <2>2. \A q \in Requests, s \in I!Statuses :
          Writes(q, s) => Writes(q, s)' /\ req4'[q] = req4[q]
    BY <1>4, <1>5 DEF Writes, Writing
  <2>3. \A q \in Requests : req4[q].at # "idle" => req4'[q] = req4[q]
    BY <1>4, <1>5
  <2>4. TextTold'
    BY <1>2, <1>12, <2>1, <2>2 DEF TextTold, I!Told, I!Note
  <2>5. ReplyTold'
    BY <1>2, <1>6, <1>12, <2>1, <2>3 DEF ReplyTold, I!Told, I!Note
  <2>6. RowsFollow'
    BY <1>2, <1>5, <2>1, <2>3 DEF RowsFollow
  <2>7. CopiesSent'
    BY <1>2, <1>6, <2>1, <2>2, Statuses DEF CopiesSent
  <2>8. DeleteSent'
    BY <1>3, <1>4 DEF DeleteSent
  <2> QED
    BY <2>4, <2>5, <2>6, <2>7, <2>8
<1> QED
  BY <1>7, <1>8, <1>9, <1>10, <1>11, <1>12, <1>13, <1>14, <1>15, TextsStep

LEMMA SendDeleteKeeps ==
  ASSUME MInv, NEW r \in Requests, I!SendDelete(r)
  PROVE  MInv'
<1>1. /\ req4[r].at = "tombstone" /\ I!Ends(r)
      /\ held4' = [held4 EXCEPT !["post"] = held4["post"] \ tags["post"]]
      /\ UNCHANGED <<state, writer, text, tags, likes, notes, blocks, shut, liked,
                     lapses>>
  BY DEF I!SendDelete, I!At
<1>2. req4[r].of = "post" /\ req4[r].by = Author /\ state["post"] = "deleted"
  BY <1>1 DEF MInv, IGround, AllSound, Sound
<1>3. /\ req4' \in [Requests -> Asked] /\ req4'[r].at = "idle"
      /\ \A q \in Requests : q # r => req4'[q] = req4[q]
  BY <1>1, EndsNow DEF MInv, IGround
<1>4. /\ held4' \in [I!Statuses -> SUBSET Remote]
      /\ held4'["post"] = held4["post"] \ tags["post"]
      /\ held4'["reply"] = held4["reply"]
  BY <1>1, Statuses DEF MInv, IGround, ITyped
<1>5. ITyped' /\ Written'
  BY <1>1, <1>3, <1>4 DEF MInv, IGround, ITyped, Written
<1>6. TextsOnly
  BY <1>1, <1>3 DEF TextsOnly
<1>7. AllSound'
  BY <1>1, <1>3 DEF MInv, IGround, AllSound, Sound, Writing
<1>8. Onward
  BY <1>3 DEF Onward
<1>9. OneReply' /\ (OneTab => OneTab')
  BY <1>8, OnwardKeeps DEF MInv, IGround
<1>10. /\ NotesAreOwed' /\ (MentionsOnce => MentionsOnce')
       /\ \A u, m : I!Owed(u, m)' <=> I!Owed(u, m)
       /\ \A s \in I!Statuses : I!AlreadyTold(s)' = I!AlreadyTold(s)
  BY <1>1, Unnoted
<1>11. ReplyToldOnce'
  BY <1>1, <1>2, <1>3, OneReplyTold DEF MInv, IGround
<1>12. \A q \in Requests, s \in I!Statuses :
         /\ Writes(q, s)' <=> Writes(q, s)
         /\ Writes(q, s) => req4'[q] = req4[q]
  BY <1>1, <1>3 DEF Writes, Writing
<1>13. ASSUME "crossed" \notin lapses'
       PROVE  OneTab' /\ RowsStillRead' /\ MentionsOnce' /\ NoneWritesDeleted' /\ HeldByRows'
  <2>1. OneTab /\ StillRead /\ MentionsOnce /\ NoneWritesDeleted /\ HeldByRows
    BY <1>1, <1>13 DEF MInv, OneByOne
  <2>2. \A q \in Requests : req4[q].at = "told" => req4[q].of \in I!Statuses
    BY DEF MInv, IGround, AllSound, Sound, Writing
  <2>3. RowsStillRead'
    BY <1>1, <1>3, <1>10, <2>1, <2>2 DEF StillRead, RowsStillRead
  <2>4. NoneWritesDeleted' /\ HeldByRows'
    BY <1>1, <1>4, <1>12, <2>1, Statuses DEF NoneWritesDeleted, HeldByRows
  <2> QED
    BY <1>9, <1>10, <2>1, <2>3, <2>4
<1>14. Unbroken'
  <2> SUFFICES ASSUME "crossed" \notin lapses, "crashed" \notin lapses
               PROVE  TextTold' /\ ReplyTold' /\ RowsFollow' /\ CopiesSent' /\ DeleteSent'
    BY <1>1 DEF Unbroken
  <2>1. TextTold /\ ReplyTold /\ RowsFollow /\ CopiesSent /\ HeldByRows
    BY DEF MInv, Unbroken, OneByOne
  <2>2. TextTold'
    BY <1>1, <1>10, <1>12, <2>1 DEF TextTold, I!Told, I!Note
  <2>3. ReplyTold'
    BY <1>1, <1>2, <1>3, <1>10, <2>1 DEF ReplyTold, I!Told, I!Note
  <2>4. RowsFollow'
    BY <1>1, <1>3, <2>1 DEF RowsFollow
  <2>5. CopiesSent'
    BY <1>1, <1>2, <1>4, <1>12, <2>1, Statuses DEF CopiesSent
  <2>6. DeleteSent'
    BY <1>1, <1>4, <2>1 DEF DeleteSent, HeldByRows
  <2> QED
    BY <2>2, <2>3, <2>4, <2>5, <2>6
<1> QED
  BY <1>5, <1>6, <1>7, <1>9, <1>10, <1>11, <1>13, <1>14, TextsStep

\* Whoever is told has no note of it yet, and so nobody has two; and whom the
\* text names is told, or was.
LEMMA MentionsCount ==
  ASSUME MInv, MentionsOnce, NEW m \in Members, NEW s \in I!Statuses, NEW people,
         state[s] = "none" \/ writer[s] = m,
         \A u \in people : u \notin I!Noted(s),
         \A n \in I!Notes : n.kind = "mention" =>
           notes'[n] = IF /\ n.to \in people /\ I!Owed(n.to, m)
                          /\ n.from = m /\ n.of = s
                       THEN notes[n] + 1 ELSE notes[n]
  PROVE  /\ MentionsOnce'
         /\ \A u \in I!Local : u \in people \/ u \in I!Noted(s) =>
              I!Told(u, m, "mention", s)' = IF I!Owed(u, m) THEN 1 ELSE 0
         /\ \A u \in I!Local : u \notin people =>
              I!Told(u, m, "mention", s)' = I!Told(u, m, "mention", s)
<1>1. ASSUME NEW u \in I!Local, NEW n \in I!Notes, n.kind = "mention", n.to = u, n.of = s
      PROVE  /\ u \in people => notes[n] = 0
             /\ n.from # m => notes[n] = 0
             /\ ~I!Owed(u, n.from) => notes[n] = 0
             /\ u \in I!Noted(s) /\ n.from = m => notes[n] > 0
  <2>1. n = I!Note(u, n.from, "mention", s) /\ n.from \in Members
    BY <1>1 DEF I!Note, I!Notes
  <2>2. u \notin I!Noted(s) => ~(notes[n] > 0)
    BY <2>1 DEF I!Noted
  <2>3. notes[n] \in Nat
    BY DEF MInv, IGround, ITyped
  <2>4. notes[n] > 0 => I!Owed(u, n.from) /\ n.from = writer[s] /\ state[s] # "none"
    BY <1>1 DEF MInv, IGround, NotesAreOwed
  <2>5. ASSUME u \in I!Noted(s), n.from = m PROVE notes[n] > 0
    <3>1. PICK v \in Members : notes[I!Note(u, v, "mention", s)] > 0
      BY <2>5 DEF I!Noted
    <3>2. PICK k \in I!Notes : k = I!Note(u, v, "mention", s)
      BY Notes
    <3>3. k.kind = "mention" /\ k.of = s /\ k.from = v /\ k.to = u
      BY <3>2, Notes
    <3>4. v = writer[s] /\ state[s] # "none"
      BY <3>1, <3>2, <3>3 DEF MInv, IGround, NotesAreOwed
    <3>5. v = m
      BY <3>4
    <3> QED
      BY <2>1, <2>5, <3>1, <3>5
  <2> QED
    BY <2>2, <2>3, <2>4, <2>5
<1>2. MentionsOnce'
  <2> SUFFICES ASSUME NEW u \in I!Local, NEW v \in Members, NEW t \in I!Statuses
               PROVE  I!Told(u, v, "mention", t)' <= 1
    BY DEF MentionsOnce
  <2>1. PICK n \in I!Notes : n = I!Note(u, v, "mention", t)
    BY Notes
  <2>2. n.kind = "mention" /\ n.to = u /\ n.from = v /\ n.of = t
    BY <2>1, Notes
  <2>3. notes[n] <= 1 /\ notes[n] \in Nat
    BY <2>1 DEF MentionsOnce, I!Told, MInv, IGround, ITyped
  <2>4. notes'[n] <= 1
    BY <1>1, <2>2, <2>3
  <2> QED
    BY <2>1, <2>4 DEF I!Told, I!Note
<1>3. ASSUME NEW u \in I!Local
      PROVE  /\ u \in people \/ u \in I!Noted(s) =>
                  I!Told(u, m, "mention", s)' = IF I!Owed(u, m) THEN 1 ELSE 0
             /\ u \notin people =>
                  I!Told(u, m, "mention", s)' = I!Told(u, m, "mention", s)
  <2>1. PICK n \in I!Notes : n = I!Note(u, m, "mention", s)
    BY Notes
  <2>2. n.kind = "mention" /\ n.to = u /\ n.from = m /\ n.of = s
    BY <2>1, Notes
  <2>3. notes[n] <= 1 /\ notes[n] \in Nat
    BY <2>1 DEF MentionsOnce, I!Told, MInv, IGround, ITyped
  <2>4. notes'[n] = IF u \in people /\ I!Owed(u, m) THEN notes[n] + 1 ELSE notes[n]
    BY <2>2
  <2>5. u \in people \/ u \in I!Noted(s) => notes'[n] = IF I!Owed(u, m) THEN 1 ELSE 0
    BY <1>1, <2>2, <2>3, <2>4
  <2> QED
    BY <2>1, <2>4, <2>5 DEF I!Told, I!Note
<1> QED
  BY <1>2, <1>3

LEMMA TellAndSendKeeps ==
  ASSUME MInv, NEW r \in Requests, I!TellAndSend(r)
  PROVE  MInv'
<1>1. PICK s, m, people :
        s = req4[r].of /\ m = req4[r].by /\ people = req4[r].names \ req4[r].seen
  OBVIOUS
<1>2. /\ req4[r].at = "told" /\ I!Notifies(I!notify(people, m, "mention", s))
      /\ held4' = [held4 EXCEPT ![s] = held4[s] \cup (tags[s] \cap Remote)]
      /\ IF s = "reply" THEN I!Goes(r, "sent") ELSE I!Ends(r)
      /\ UNCHANGED <<state, writer, text, tags, likes, blocks, shut, liked, lapses>>
  BY <1>1 DEF I!TellAndSend, I!At
<1>3. /\ s \in I!Statuses /\ m = writer[s] /\ state[s] # "none" /\ m \in I!Local
      /\ m \in Members
      /\ s = "reply" => Author \in req4[r].seen
  BY <1>1, <1>2 DEF MInv, IGround, AllSound, Sound, Writing, I!Local
<1>4. /\ req4' \in [Requests -> Asked]
      /\ \/ s = "post" /\ req4'[r].at = "idle"
         \/ s = "reply" /\ req4'[r].at = "sent" /\ req4'[r].by = m /\ req4'[r].of = "reply"
      /\ \A q \in Requests : q # r => req4'[q] = req4[q]
  <2>1. CASE s = "reply"
    <3>1. I!Goes(r, "sent") /\ "sent" \in Writing \cup {"liked", "sent"}
      BY <1>2, <2>1
    <3> QED
      BY <1>1, <2>1, <3>1, GoesOn DEF MInv, IGround
  <2>2. CASE s # "reply"
    BY <1>2, <1>3, <2>2, EndsNow, Statuses DEF MInv, IGround
  <2> QED
    BY <2>1, <2>2
<1>5. /\ notes' \in [I!Notes -> Nat]
      /\ \A n \in I!Notes : n.kind # "mention" => notes'[n] = notes[n]
      /\ \A n \in I!Notes : n.kind = "mention" =>
           notes'[n] = IF /\ n.to \in people /\ I!Owed(n.to, m)
                          /\ n.from = m /\ n.of = s
                       THEN notes[n] + 1 ELSE notes[n]
  <2>1. PICK new : new = I!notify(people, m, "mention", s)
    OBVIOUS
  <2>2. /\ notes' \in [I!Notes -> Nat]
        /\ \A n \in I!Notes : notes'[n] = IF n \in new THEN notes[n] + 1 ELSE notes[n]
    BY <1>2, <2>1, Notifying DEF MInv, IGround
  <2>3. \A n \in I!Notes : n \in new <=>
          n.to \in people /\ I!Owed(n.to, m) /\ n.from = m /\ n.kind = "mention" /\ n.of = s
    BY <2>1, Notified
  <2> QED
    BY <2>2, <2>3
<1>6. /\ held4' \in [I!Statuses -> SUBSET Remote]
      /\ held4'[s] = held4[s] \cup (tags[s] \cap Remote)
      /\ \A o \in I!Statuses : o # s => held4'[o] = held4[o]
  BY <1>2, <1>3 DEF MInv, IGround, ITyped
<1>7. ITyped' /\ Written'
  BY <1>2, <1>4, <1>5, <1>6 DEF MInv, IGround, ITyped, Written
<1>8. TextsOnly
  BY <1>2, <1>4, <1>5 DEF TextsOnly
<1>9. AllSound'
  BY <1>2, <1>3, <1>4 DEF MInv, IGround, AllSound, Sound, Writing
<1>10. Onward
  BY <1>1, <1>2, <1>4 DEF Onward
<1>11. OneReply' /\ (OneTab => OneTab')
  BY <1>10, OnwardKeeps DEF MInv, IGround
<1>12. \A u, v : I!Owed(u, v)' <=> I!Owed(u, v)
  BY <1>2 DEF I!Owed
<1>13. NotesAreOwed'
  <2> SUFFICES ASSUME NEW n \in I!Notes, notes'[n] > 0
               PROVE  /\ I!Owed(n.to, n.from)
                      /\ n.kind = "mention" =>
                           /\ n.from = writer[n.of] /\ state[n.of] # "none"
                           /\ ~(n.of = "reply" /\ n.to = Author)
                      /\ n.kind = "reply" =>
                           n.of = "reply" /\ n.from = writer["reply"] /\ state["reply"] # "none"
    BY <1>2, <1>12 DEF NotesAreOwed
  <2>1. CASE notes'[n] = notes[n]
    BY <2>1 DEF MInv, IGround, NotesAreOwed
  <2>2. CASE notes'[n] # notes[n]
    <3>1. n.kind = "mention" /\ n.to \in people /\ I!Owed(n.to, m) /\ n.from = m /\ n.of = s
      BY <1>5, <2>2
    <3> QED
      BY <1>1, <1>3, <3>1
  <2> QED
    BY <2>1, <2>2
<1>14. ReplyToldOnce'
  <2>1. (\E q \in Requests : req4'[q].of = "reply" /\ req4'[q].at # "idle") =>
        \E q \in Requests : req4[q].of = "reply" /\ req4[q].at # "idle"
    BY <1>1, <1>2, <1>4
  <2> QED
    BY <1>5, <2>1, OneReplyTold DEF MInv, IGround
<1>15. \A q \in Requests, o \in I!Statuses :
         q # r => (Writes(q, o)' <=> Writes(q, o)) /\ req4'[q] = req4[q]
  BY <1>4 DEF Writes
<1>16. ~Writes(r, s)' /\ \A o \in I!Statuses : o # s => ~Writes(r, o) /\ ~Writes(r, o)'
  BY <1>1, <1>4 DEF Writes, Writing
<1>17. ASSUME "crossed" \notin lapses
       PROVE  /\ OneTab' /\ RowsStillRead' /\ MentionsOnce' /\ NoneWritesDeleted' /\ HeldByRows'
              /\ \A q \in Requests : q # r => ~Writes(q, s)
              /\ \A u \in I!Local :
                   u \in req4[r].names /\ ~(s = "reply" /\ u = Author) =>
                     I!Told(u, m, "mention", s)' = IF I!Owed(u, m) THEN 1 ELSE 0
              /\ \A u \in I!Local : u \notin people =>
                   I!Told(u, m, "mention", s)' = I!Told(u, m, "mention", s)
              /\ \A u \in people : u \notin I!Noted(s)
  <2>1. OneTab /\ StillRead /\ MentionsOnce /\ NoneWritesDeleted /\ HeldByRows
    BY <1>17 DEF MInv, OneByOne
  <2>2. req4[r].seen = I!AlreadyTold(s)
    BY <1>1, <1>2, <2>1 DEF StillRead
  <2>3. \A u \in people : u \notin I!Noted(s)
    BY <1>1, <2>2 DEF I!AlreadyTold
  <2>4. /\ MentionsOnce'
        /\ \A u \in I!Local : u \in people \/ u \in I!Noted(s) =>
             I!Told(u, m, "mention", s)' = IF I!Owed(u, m) THEN 1 ELSE 0
        /\ \A u \in I!Local : u \notin people =>
             I!Told(u, m, "mention", s)' = I!Told(u, m, "mention", s)
    BY <1>3, <1>5, <2>1, <2>3, MentionsCount
  <2>5. \A u \in I!Local :
          u \in req4[r].names /\ ~(s = "reply" /\ u = Author) =>
            I!Told(u, m, "mention", s)' = IF I!Owed(u, m) THEN 1 ELSE 0
    <3> SUFFICES ASSUME NEW u \in I!Local, u \in req4[r].names,
                        ~(s = "reply" /\ u = Author)
                 PROVE  u \in people \/ u \in I!Noted(s)
      BY <2>4
    <3> QED
      BY <1>1, <2>2 DEF I!AlreadyTold
  <2>6. \A q \in Requests : req4[q].at \in Writing =>
          req4[q].of \in I!Statuses /\ req4[q].by = writer[req4[q].of]
    BY DEF MInv, IGround, AllSound, Sound
  <2>7. \A q \in Requests : q # r => ~Writes(q, s)
    BY <1>1, <1>2, <1>3, <2>1, <2>6 DEF OneTab, Writes, Writing
  <2>8. \A o \in I!Statuses : o # s => I!AlreadyTold(o)' = I!AlreadyTold(o)
    BY <1>5, NotedSame
  <2>9. RowsStillRead'
    <3>1. \A q \in Requests : q # r /\ req4[q].at = "told" =>
            req4[q].of \in I!Statuses \ {s}
      BY <2>6, <2>7 DEF Writes, Writing
    <3> QED
      BY <1>2, <1>4, <2>1, <2>8, <3>1 DEF StillRead, RowsStillRead
  <2>10. NoneWritesDeleted'
    BY <1>2, <1>15, <1>16, <2>1, Statuses DEF NoneWritesDeleted
  <2>11. HeldByRows'
    BY <1>2, <1>3, <1>6, <2>1, Statuses DEF HeldByRows
  <2> QED
    BY <1>11, <2>1, <2>3, <2>4, <2>5, <2>7, <2>9, <2>10, <2>11
<1>18. Unbroken'
  <2> SUFFICES ASSUME "crossed" \notin lapses, "crashed" \notin lapses
               PROVE  TextTold' /\ ReplyTold' /\ RowsFollow' /\ CopiesSent' /\ DeleteSent'
    BY <1>2 DEF Unbroken
  <2>1. TextTold /\ ReplyTold /\ RowsFollow /\ CopiesSent /\ DeleteSent /\ NoneWritesDeleted
        /\ MentionsOnce
    BY DEF MInv, Unbroken, OneByOne
  <2>2. TextTold'
    <3> SUFFICES ASSUME NEW o \in I!Statuses, NEW u \in I!Local \cap text[o]
                 PROVE  \/ o = "reply" /\ u = Author
                        \/ I!Told(u, writer[o], "mention", o)' =
                              IF I!Owed(u, writer[o]) THEN 1 ELSE 0
                        \/ \E q \in Requests : Writes(q, o)' /\ u \in req4'[q].names
      BY <1>2, <1>12 DEF TextTold
    <3>1. CASE o # s
      <4>1. PICK v \in Members : v = writer[o]
        BY InteractionsAssumption, Statuses DEF MInv, IGround, Written, ITyped
      <4>2. I!Told(u, v, "mention", o)' = I!Told(u, v, "mention", o)
        <5>1. PICK n \in I!Notes : n = I!Note(u, v, "mention", o)
          BY Notes
        <5>2. n.kind = "mention" /\ n.of = o
          BY <5>1, Notes
        <5>3. notes'[n] = notes[n]
          BY <1>5, <3>1, <5>2
        <5> QED
          BY <5>1, <5>3 DEF I!Told, I!Note
      <4>3. \/ o = "reply" /\ u = Author
            \/ I!Told(u, writer[o], "mention", o) = IF I!Owed(u, writer[o]) THEN 1 ELSE 0
            \/ \E q \in Requests : Writes(q, o) /\ u \in req4[q].names
        BY <2>1 DEF TextTold
      <4>4. I!Told(u, writer[o], "mention", o)' = I!Told(u, writer[o], "mention", o)
        BY <1>2, <4>1, <4>2 DEF I!Told, I!Note
      <4>5. \A q \in Requests : Writes(q, o) => Writes(q, o)' /\ req4'[q] = req4[q]
        BY <1>15, <1>16, <3>1
      <4> QED
        BY <4>3, <4>4, <4>5
    <3>2. CASE o = s
      <4>1. \/ s = "reply" /\ u = Author
            \/ I!Told(u, m, "mention", s) = IF I!Owed(u, m) THEN 1 ELSE 0
            \/ u \in req4[r].names
        BY <1>3, <1>17, <2>1, <3>2 DEF TextTold
      <4>2. CASE u \in req4[r].names
        <5>1. \/ s = "reply" /\ u = Author
              \/ I!Told(u, m, "mention", s)' = IF I!Owed(u, m) THEN 1 ELSE 0
          BY <1>17, <4>2
        <5>2. I!Told(u, writer[o], "mention", o)' = I!Told(u, m, "mention", s)'
          BY <1>2, <1>3, <3>2 DEF I!Told, I!Note
        <5> QED
          BY <1>3, <3>2, <5>1, <5>2
      <4>3. CASE u \notin req4[r].names
        <5>1. I!Told(u, m, "mention", s)' = I!Told(u, m, "mention", s)
          BY <1>1, <1>17, <4>3
        <5>2. I!Told(u, writer[o], "mention", o)' = I!Told(u, m, "mention", s)'
          BY <1>2, <1>3, <3>2 DEF I!Told, I!Note
        <5> QED
          BY <1>3, <3>2, <4>1, <4>3, <5>1, <5>2
      <4> QED
        BY <4>2, <4>3
    <3> QED
      BY <3>1, <3>2
  <2>3. ReplyTold'
    <3> SUFFICES ASSUME state["reply"] # "none" PROVE ReplyTold'
      BY <1>2 DEF ReplyTold
    <3>1. PICK v \in Members : v = writer["reply"]
      BY DEF MInv, IGround, Written
    <3>2. PICK n \in I!Notes : n = I!Note(Author, v, "reply", "reply") /\ n.kind = "reply"
      BY Notes, Statuses, InteractionsAssumption DEF I!Local
    <3>3. notes'[n] = notes[n]
      BY <1>5, <3>2
    <3>4. I!Told(Author, writer["reply"], "reply", "reply")' =
          I!Told(Author, writer["reply"], "reply", "reply")
      BY <1>2, <3>1, <3>2, <3>3 DEF I!Told, I!Note
    <3>5. \A q \in Requests : req4[q].of = "reply" /\ req4[q].at # "idle" =>
            req4'[q].of = "reply" /\ req4'[q].at # "idle"
      BY <1>1, <1>4
    <3> QED
      BY <1>2, <1>12, <2>1, <3>4, <3>5 DEF ReplyTold
  <2>4. RowsFollow'
    BY <1>2, <1>4, <2>1 DEF RowsFollow
  <2>5. CopiesSent'
    <3> SUFFICES ASSUME NEW o \in I!Statuses, state[o] = "live", writer[o] \in I!Local
                 PROVE  \/ tags[o] \cap Remote \subseteq held4'[o]
                        \/ \E q \in Requests : Writes(q, o)'
      BY <1>2 DEF CopiesSent
    <3>1. CASE o = s
      BY <1>6, <3>1
    <3>2. CASE o # s
      BY <1>6, <1>15, <1>16, <2>1, <3>2 DEF CopiesSent
    <3> QED
      BY <3>1, <3>2
  <2>6. DeleteSent'
    <3>1. state["post"] = "deleted" => s # "post"
      BY <1>1, <1>2, <2>1 DEF NoneWritesDeleted, Writes, Writing
    <3>2. \A q \in Requests : req4[q].at = "tombstone" => req4'[q].at = "tombstone"
      BY <1>2, <1>4
    <3> QED
      BY <1>2, <1>6, <2>1, <3>1, <3>2, Statuses DEF DeleteSent
  <2> QED
    BY <2>2, <2>3, <2>4, <2>5, <2>6
<1> QED
  BY <1>2, <1>7, <1>8, <1>9, <1>11, <1>13, <1>14, <1>17, <1>18, TextsStep

LEMMA TellReplyKeeps ==
  ASSUME MInv, NEW r \in Requests, I!TellReply(r)
  PROVE  MInv'
<1>1. PICK m : m = req4[r].by
  OBVIOUS
<1>2. /\ req4[r].at = "sent" /\ I!Ends(r)
      /\ I!Notifies(I!notify({Author}, m, "reply", "reply"))
      /\ UNCHANGED <<state, writer, text, tags, likes, held4, blocks, shut, liked, lapses>>
  BY <1>1 DEF I!TellReply, I!At
<1>3. /\ req4[r].of = "reply" /\ m = writer["reply"] /\ m \in I!Local /\ m \in Members
      /\ state["reply"] # "none"
  BY <1>1, <1>2 DEF MInv, IGround, AllSound, Sound, I!Local
<1>4. /\ req4' \in [Requests -> Asked] /\ req4'[r].at = "idle"
      /\ \A q \in Requests : q # r => req4'[q] = req4[q]
  BY <1>2, EndsNow DEF MInv, IGround
<1>5. /\ notes' \in [I!Notes -> Nat]
      /\ \A n \in I!Notes :
           notes'[n] = IF /\ n.to = Author /\ I!Owed(Author, m) /\ n.from = m
                          /\ n.kind = "reply" /\ n.of = "reply"
                       THEN notes[n] + 1 ELSE notes[n]
  <2>1. PICK new : new = I!notify({Author}, m, "reply", "reply")
    OBVIOUS
  <2>2. /\ notes' \in [I!Notes -> Nat]
        /\ \A n \in I!Notes : notes'[n] = IF n \in new THEN notes[n] + 1 ELSE notes[n]
    BY <1>2, <2>1, Notifying DEF MInv, IGround
  <2>3. \A n \in I!Notes : n \in new <=>
          n.to = Author /\ I!Owed(n.to, m) /\ n.from = m /\ n.kind = "reply" /\ n.of = "reply"
    BY <2>1, Notified
  <2> QED
    BY <2>2, <2>3
<1>6. ITyped' /\ Written'
  BY <1>2, <1>4, <1>5 DEF MInv, IGround, ITyped, Written
<1>7. TextsOnly
  BY <1>2, <1>4, <1>5 DEF TextsOnly
<1>8. AllSound'
  BY <1>2, <1>4 DEF MInv, IGround, AllSound, Sound, Writing
<1>9. Onward
  BY <1>4 DEF Onward
<1>10. OneReply' /\ (OneTab => OneTab')
  BY <1>9, OnwardKeeps DEF MInv, IGround
<1>11. \A u, v : I!Owed(u, v)' <=> I!Owed(u, v)
  BY <1>2 DEF I!Owed
<1>12. NotesAreOwed'
  BY <1>2, <1>3, <1>5, <1>11 DEF MInv, IGround, NotesAreOwed
<1>13. \A q \in Requests : ~(req4'[q].of = "reply" /\ req4'[q].at # "idle")
  BY <1>2, <1>3, <1>4 DEF MInv, IGround, OneReply
<1>14. \A v \in Members :
         I!Told(Author, v, "reply", "reply")' = IF v = m /\ I!Owed(Author, m) THEN 1
                                                ELSE I!Told(Author, v, "reply", "reply")
  <2> TAKE v \in Members
  <2>1. PICK n \in I!Notes : n = I!Note(Author, v, "reply", "reply")
    BY Notes, Statuses, InteractionsAssumption DEF I!Local
  <2>2. n.kind = "reply" /\ n.to = Author /\ n.from = v /\ n.of = "reply"
    BY <2>1, Notes, Statuses, InteractionsAssumption DEF I!Local
  <2>3. notes[n] = 0
    BY <1>2, <1>3, <2>1 DEF MInv, IGround, ReplyToldOnce, I!Told
  <2>4. notes'[n] = IF v = m /\ I!Owed(Author, m) THEN 1 ELSE notes[n]
    BY <1>5, <2>2, <2>3
  <2> QED
    BY <2>1, <2>4 DEF I!Told, I!Note
<1>15. ReplyToldOnce'
  BY <1>13, <1>14 DEF MInv, IGround, ReplyToldOnce
<1>16. \A u \in I!Local, v \in Members, s \in I!Statuses :
         notes'[I!Note(u, v, "mention", s)] = notes[I!Note(u, v, "mention", s)]
  BY <1>5, Notes
<1>17. \A q \in Requests, s \in I!Statuses :
         /\ Writes(q, s)' <=> Writes(q, s)
         /\ Writes(q, s) => req4'[q] = req4[q]
  BY <1>2, <1>4 DEF Writes, Writing
<1>18. \A s \in I!Statuses : I!AlreadyTold(s)' = I!AlreadyTold(s)
  BY <1>5, NotedSame
<1>19. ASSUME "crossed" \notin lapses
       PROVE  OneTab' /\ RowsStillRead' /\ MentionsOnce' /\ NoneWritesDeleted' /\ HeldByRows'
  <2>1. OneTab /\ StillRead /\ MentionsOnce /\ NoneWritesDeleted /\ HeldByRows
    BY <1>19 DEF MInv, OneByOne
  <2>2. \A q \in Requests : req4[q].at = "told" => req4[q].of \in I!Statuses
    BY DEF MInv, IGround, AllSound, Sound, Writing
  <2>3. RowsStillRead'
    BY <1>2, <1>4, <1>18, <2>1, <2>2 DEF StillRead, RowsStillRead
  <2>4. NoneWritesDeleted' /\ HeldByRows'
    BY <1>2, <1>17, <2>1, Statuses DEF NoneWritesDeleted, HeldByRows
  <2>5. MentionsOnce'
    <3> SUFFICES ASSUME NEW u \in I!Local, NEW v \in Members, NEW s \in I!Statuses
                 PROVE  I!Told(u, v, "mention", s)' <= 1
      BY DEF MentionsOnce
    <3>1. I!Told(u, v, "mention", s) <= 1
      BY <2>1 DEF MentionsOnce
    <3>2. notes'[I!Note(u, v, "mention", s)] = notes[I!Note(u, v, "mention", s)]
      BY <1>16
    <3> QED
      BY <3>1, <3>2 DEF I!Told, I!Note
  <2> QED
    BY <1>10, <2>1, <2>3, <2>4, <2>5
<1>20. Unbroken'
  <2> SUFFICES ASSUME "crossed" \notin lapses, "crashed" \notin lapses
               PROVE  TextTold' /\ ReplyTold' /\ RowsFollow' /\ CopiesSent' /\ DeleteSent'
    BY <1>2 DEF Unbroken
  <2>1. TextTold /\ ReplyTold /\ RowsFollow /\ CopiesSent /\ DeleteSent
    BY DEF MInv, Unbroken
  <2>2. TextTold'
    <3> SUFFICES ASSUME NEW s \in I!Statuses, NEW u \in I!Local \cap text[s]
                 PROVE  \/ s = "reply" /\ u = Author
                        \/ I!Told(u, writer[s], "mention", s)' =
                              IF I!Owed(u, writer[s]) THEN 1 ELSE 0
                        \/ \E q \in Requests : Writes(q, s)' /\ u \in req4'[q].names
      BY <1>2, <1>11 DEF TextTold
    <3>1. writer[s] \in Members
      BY InteractionsAssumption, Statuses, <1>3 DEF MInv, IGround, Written
    <3>2. I!Told(u, writer[s], "mention", s)' = I!Told(u, writer[s], "mention", s)
      BY <1>2, <1>16, <3>1 DEF I!Told, I!Note
    <3> QED
      BY <1>17, <2>1, <3>2 DEF TextTold
  <2>3. ReplyTold'
    <3>1. I!Told(Author, writer["reply"], "reply", "reply")' = I!Told(Author, m, "reply", "reply")'
      BY <1>2, <1>3 DEF I!Told, I!Note
    <3>2. I!Told(Author, m, "reply", "reply") = 0
      BY <1>2, <1>3 DEF MInv, IGround, ReplyToldOnce
    <3>3. I!Told(Author, m, "reply", "reply")' = IF I!Owed(Author, m) THEN 1 ELSE 0
      BY <1>3, <1>14, <3>2
    <3> QED
      BY <1>2, <1>3, <1>11, <3>1, <3>3 DEF ReplyTold
  <2>4. RowsFollow'
    BY <1>2, <1>4, <2>1 DEF RowsFollow
  <2>5. CopiesSent'
    BY <1>2, <1>17, <2>1 DEF CopiesSent
  <2>6. DeleteSent'
    BY <1>2, <1>4, <2>1 DEF DeleteSent
  <2> QED
    BY <2>2, <2>3, <2>4, <2>5, <2>6
<1> QED
  BY <1>2, <1>6, <1>7, <1>8, <1>10, <1>12, <1>15, <1>19, <1>20, TextsStep

LEMMA MirrorReplyKeeps ==
  ASSUME MInv, NEW m \in Members, NEW names \in Named, I!MirrorReply(m, names)
  PROVE  MInv'
<1>1. PICK people : people = names \ I!AlreadyTold("reply")
  OBVIOUS
<1>2. PICK fresh \in BOOLEAN : fresh <=> state["reply"] = "none"
  OBVIOUS
<1>3. /\ m \notin I!Local
      /\ state["reply"] = "none" \/ (state["reply"] = "live" /\ writer["reply"] = m)
      /\ state' = [state EXCEPT !["reply"] = "live"]
      /\ writer' = [writer EXCEPT !["reply"] = m]
      /\ text' = [text EXCEPT !["reply"] = names]
      /\ tags' = [tags EXCEPT !["reply"] = names]
      /\ UNCHANGED <<likes, held4, blocks, shut, req4, liked, lapses>>
  BY DEF I!MirrorReply, I!Delivered, I!Local
<1>4. I!Notifies(I!notify(people, m, "mention", "reply")
                 \cup IF fresh THEN I!notify({Author}, m, "reply", "reply") ELSE {})
  BY <1>1, <1>2 DEF I!MirrorReply
<1>5. names \subseteq Members
  BY InteractionsAssumption
<1>6. \A q \in Requests : req4[q].at # "idle" => req4[q].of # "reply"
  <2> SUFFICES ASSUME NEW q \in Requests, req4[q].at # "idle", req4[q].of = "reply"
               PROVE  FALSE
    OBVIOUS
  <2>1. PICK w \in Asked : w = req4[q]
    BY DEF MInv, IGround, ITyped
  <2>2. w.at \in Writing \cup {"sent"}
    BY <2>1 DEF MInv, IGround, AllSound, Sound, Asked
  <2>3. w.by \in I!Local /\ w.by = writer["reply"] /\ state["reply"] # "none"
    BY <2>1, <2>2 DEF MInv, IGround, AllSound, Sound
  <2> QED
    BY <1>3, <2>3
<1>7. /\ notes' \in [I!Notes -> Nat]
      /\ \A n \in I!Notes :
           notes'[n] = IF \/ /\ n.to \in people /\ I!Owed(n.to, m) /\ n.from = m
                             /\ n.kind = "mention" /\ n.of = "reply"
                          \/ /\ fresh /\ n.to = Author /\ I!Owed(Author, m)
                             /\ n.from = m /\ n.kind = "reply" /\ n.of = "reply"
                       THEN notes[n] + 1 ELSE notes[n]
  <2>1. PICK some, other, new :
          /\ some = I!notify(people, m, "mention", "reply")
          /\ other = I!notify({Author}, m, "reply", "reply")
          /\ new = some \cup IF fresh THEN other ELSE {}
    OBVIOUS
  <2>2. /\ notes' \in [I!Notes -> Nat]
        /\ \A n \in I!Notes : notes'[n] = IF n \in new THEN notes[n] + 1 ELSE notes[n]
    BY <1>4, <2>1, Notifying DEF MInv, IGround
  <2>3. \A n \in I!Notes :
          /\ n \in some <=> n.to \in people /\ I!Owed(n.to, m) /\ n.from = m
                            /\ n.kind = "mention" /\ n.of = "reply"
          /\ n \in other <=> n.to = Author /\ I!Owed(n.to, m) /\ n.from = m
                             /\ n.kind = "reply" /\ n.of = "reply"
    BY <2>1, Notified
  <2> QED
    BY <2>1, <2>2, <2>3
<1>8. /\ state' \in [I!Statuses -> {"none", "live", "deleted"}]
      /\ writer' \in [I!Statuses -> Members \cup {None}]
      /\ text' \in [I!Statuses -> SUBSET Members]
      /\ tags' \in [I!Statuses -> SUBSET Members]
      /\ state'["reply"] = "live" /\ state'["post"] = state["post"]
      /\ writer'["reply"] = m /\ writer'["post"] = writer["post"]
      /\ text'["reply"] = names /\ text'["post"] = text["post"]
      /\ tags'["reply"] = names /\ tags'["post"] = tags["post"]
  BY <1>3, <1>5, Statuses DEF MInv, IGround, ITyped
<1>9. ITyped' /\ Written'
  <2>1. ITyped'
    BY <1>3, <1>7, <1>8 DEF MInv, IGround, ITyped
  <2>2. Written'
    BY <1>8, Statuses DEF MInv, IGround, Written
  <2> QED
    BY <2>1, <2>2
<1>10. TextsOnly
  BY <1>3, <1>7 DEF TextsOnly
<1>11. AllSound'
  BY <1>3, <1>6, <1>8, Statuses DEF MInv, IGround, AllSound, Sound, Writing
<1>12. OneReply' /\ (OneTab => OneTab')
  BY <1>3 DEF MInv, IGround, OneReply, OneTab
<1>13. \A u, v : I!Owed(u, v)' <=> I!Owed(u, v)
  BY <1>3 DEF I!Owed
<1>14. NotesAreOwed'
  <2> SUFFICES ASSUME NEW n \in I!Notes, notes'[n] > 0
               PROVE  /\ I!Owed(n.to, n.from)
                      /\ n.kind = "mention" =>
                           /\ n.from = writer'[n.of] /\ state'[n.of] # "none"
                           /\ ~(n.of = "reply" /\ n.to = Author)
                      /\ n.kind = "reply" =>
                           n.of = "reply" /\ n.from = writer'["reply"] /\ state'["reply"] # "none"
    BY <1>13 DEF NotesAreOwed
  <2>1. CASE notes'[n] = notes[n]
    <3>1. n.of \in I!Statuses
      BY DEF I!Notes
    <3> QED
      BY <1>3, <1>8, <2>1, <3>1, Statuses DEF MInv, IGround, NotesAreOwed
  <2>2. CASE notes'[n] # notes[n]
    <3>1. \/ /\ n.to \in people /\ I!Owed(n.to, m) /\ n.from = m
             /\ n.kind = "mention" /\ n.of = "reply"
          \/ /\ n.to = Author /\ I!Owed(Author, m)
             /\ n.from = m /\ n.kind = "reply" /\ n.of = "reply"
      BY <1>7, <2>2
    <3>2. Author \notin people
      BY <1>1 DEF I!AlreadyTold
    <3> QED
      BY <1>8, <3>1, <3>2
  <2> QED
    BY <2>1, <2>2
<1>15. \A v \in Members :
         I!Told(Author, v, "reply", "reply")' =
           IF fresh THEN IF v = m /\ I!Owed(Author, m) THEN 1 ELSE 0
           ELSE I!Told(Author, v, "reply", "reply")
  <2> TAKE v \in Members
  <2>1. PICK n \in I!Notes : n = I!Note(Author, v, "reply", "reply")
    BY Notes, Statuses, InteractionsAssumption DEF I!Local
  <2>2. n.kind = "reply" /\ n.to = Author /\ n.from = v /\ n.of = "reply"
    BY <2>1, Notes, Statuses, InteractionsAssumption DEF I!Local
  <2>3. fresh => notes[n] = 0
    BY <1>2, <2>2 DEF MInv, IGround, NotesAreOwed, ITyped
  <2>4. notes'[n] = IF fresh THEN IF v = m /\ I!Owed(Author, m) THEN 1 ELSE 0 ELSE notes[n]
    BY <1>7, <2>2, <2>3
  <2> QED
    BY <2>1, <2>4 DEF I!Told, I!Note
<1>16. ReplyToldOnce'
  BY <1>3, <1>6, <1>15 DEF MInv, IGround, ReplyToldOnce
<1>17. \A n \in I!Notes : n.kind = "mention" =>
         notes'[n] = IF n.to \in people /\ I!Owed(n.to, m) /\ n.from = m /\ n.of = "reply"
                     THEN notes[n] + 1 ELSE notes[n]
  BY <1>7
<1>18. I!AlreadyTold("post")' = I!AlreadyTold("post")
  BY <1>17, NotedSame, Statuses
<1>19. MentionsOnce =>
         /\ MentionsOnce'
         /\ \A u \in I!Local : u \in people \/ u \in I!Noted("reply") =>
              I!Told(u, m, "mention", "reply")' = IF I!Owed(u, m) THEN 1 ELSE 0
  <2>1. \A u \in people : u \notin I!Noted("reply")
    BY <1>1 DEF I!AlreadyTold
  <2> QED
    BY <1>3, <1>17, <2>1, MentionsCount, Statuses
<1>20. ASSUME "crossed" \notin lapses
       PROVE  OneTab' /\ RowsStillRead' /\ MentionsOnce' /\ NoneWritesDeleted' /\ HeldByRows'
  <2>1. OneTab /\ StillRead /\ MentionsOnce /\ NoneWritesDeleted /\ HeldByRows
    BY <1>20 DEF MInv, OneByOne
  <2>2. \A q \in Requests : req4[q].at \in {"read", "told"} => req4[q].of = "post"
    BY <1>6, Statuses DEF MInv, IGround, AllSound, Sound, Writing
  <2>3. RowsStillRead'
    BY <1>3, <1>8, <1>18, <2>1, <2>2 DEF StillRead, RowsStillRead
  <2>4. NoneWritesDeleted' /\ HeldByRows'
    BY <1>3, <1>8, <2>1 DEF NoneWritesDeleted, HeldByRows, Writes
  <2> QED
    BY <1>12, <1>19, <2>1, <2>3, <2>4
<1>21. Unbroken'
  <2> SUFFICES ASSUME "crossed" \notin lapses, "crashed" \notin lapses
               PROVE  TextTold' /\ ReplyTold' /\ RowsFollow' /\ CopiesSent' /\ DeleteSent'
    BY <1>3 DEF Unbroken
  <2>1. TextTold /\ ReplyTold /\ RowsFollow /\ CopiesSent /\ DeleteSent /\ MentionsOnce
    BY DEF MInv, Unbroken, OneByOne
  <2>2. TextTold'
    <3> SUFFICES ASSUME NEW s \in I!Statuses, NEW u \in I!Local \cap text'[s]
                 PROVE  \/ s = "reply" /\ u = Author
                        \/ I!Told(u, writer[s], "mention", s)' =
                              IF I!Owed(u, writer'[s]) THEN 1 ELSE 0
                        \/ \E q \in Requests : Writes(q, s)' /\ u \in req4'[q].names
      BY <1>13 DEF TextTold
    <3>1. CASE s = "post"
      <4>1. PICK n \in I!Notes : n = I!Note(u, Author, "mention", "post")
        BY Notes, Statuses, InteractionsAssumption
      <4>2. n.kind = "mention" /\ n.of = "post"
        BY <4>1, Notes, Statuses, InteractionsAssumption
      <4>3. notes'[n] = notes[n]
        BY <1>17, <4>2
      <4>4. writer["post"] = Author /\ writer'["post"] = Author
        BY <1>8 DEF MInv, IGround, Written
      <4>5. I!Told(u, writer["post"], "mention", "post")' =
            I!Told(u, writer["post"], "mention", "post")
        BY <4>1, <4>3, <4>4 DEF I!Told, I!Note
      <4>6. \/ I!Told(u, writer["post"], "mention", "post") =
                 IF I!Owed(u, writer["post"]) THEN 1 ELSE 0
            \/ \E q \in Requests : Writes(q, "post") /\ u \in req4[q].names
        BY <1>8, <2>1, <3>1, Statuses DEF TextTold
      <4> QED
        BY <1>3, <1>8, <3>1, <4>5, <4>6 DEF Writes
    <3>2. CASE s = "reply"
      <4>1. u = Author \/ u \in people \/ u \in I!Noted("reply")
        BY <1>1, <1>8, <3>2 DEF I!AlreadyTold
      <4>2. u = Author \/ I!Told(u, m, "mention", "reply")' = IF I!Owed(u, m) THEN 1 ELSE 0
        BY <1>19, <2>1, <4>1
      <4>3. I!Told(u, writer["reply"], "mention", "reply")' = I!Told(u, m, "mention", "reply")'
        BY <1>8 DEF I!Told, I!Note
      <4> QED
        BY <1>8, <3>2, <4>2, <4>3
    <3> QED
      BY <3>1, <3>2, Statuses
  <2>3. ReplyTold'
    <3>1. I!Told(Author, writer["reply"], "reply", "reply")' = I!Told(Author, m, "reply", "reply")'
      BY <1>8 DEF I!Told, I!Note
    <3>2. ~fresh => I!Told(Author, m, "reply", "reply") = IF I!Owed(Author, m) THEN 1 ELSE 0
      BY <1>2, <1>3, <1>6, <2>1 DEF ReplyTold
    <3>3. I!Told(Author, m, "reply", "reply")' = IF I!Owed(Author, m) THEN 1 ELSE 0
      BY <1>15, <3>2
    <3> QED
      BY <1>8, <1>13, <3>1, <3>3 DEF ReplyTold
  <2>4. RowsFollow'
    BY <1>3, <1>8, <2>1, Statuses DEF RowsFollow
  <2>5. CopiesSent'
    BY <1>3, <1>8, <2>1, Statuses DEF CopiesSent, Writes
  <2>6. DeleteSent'
    BY <1>3, <1>8, <2>1 DEF DeleteSent
  <2> QED
    BY <2>2, <2>3, <2>4, <2>5, <2>6
<1> QED
  BY <1>3, <1>9, <1>10, <1>11, <1>12, <1>14, <1>16, <1>20, <1>21, TextsStep

LEMMA SaveTextKeeps ==
  ASSUME MInv, NEW r \in Requests, NEW m \in Members, NEW s \in I!Statuses,
         NEW names \in Named, I!SaveText(r, m, s, names)
  PROVE  MInv'
<1>1. PICK w : w = [by |-> m, of |-> s, at |-> "saved", names |-> names, seen |-> {}]
  OBVIOUS
<1>2. /\ I!Begins(r, m, s)
      /\ \/ s = "post" /\ m = Author /\ state[s] # "deleted"
         \/ s = "reply" /\ state[s] = "none" /\ state["post"] = "live"
      /\ state' = [state EXCEPT ![s] = "live"]
      /\ writer' = [writer EXCEPT ![s] = m]
      /\ \/ text' = [text EXCEPT ![s] = names]
         \/ s = "post" /\ names = {} /\ text' = text
      /\ req4' = [req4 EXCEPT ![r] = w]
      /\ UNCHANGED <<tags, likes, notes, held4, blocks, shut, liked>>
  BY <1>1 DEF I!SaveText
<1>3. names \subseteq Members
  BY InteractionsAssumption
<1>4. /\ w \in Asked /\ w.by = m /\ w.of = s /\ w.at = "saved" /\ w.names = names
  BY <1>1, <1>3 DEF Asked, Writing
<1>5. /\ req4' \in [Requests -> Asked] /\ req4'[r] = w
      /\ \A q \in Requests : q # r => req4'[q] = req4[q]
  BY <1>2, <1>4, Replaced DEF MInv, IGround
<1>6. /\ lapses \subseteq lapses' /\ req4[r].at = "idle" /\ m \in I!Local
      /\ "crossed" \notin lapses' =>
           /\ OneTab' /\ "crossed" \notin lapses
           /\ \A q \in Requests : ~(req4[q].at # "idle" /\ req4[q].by = m /\ req4[q].of = s)
  BY <1>2, <1>4, <1>5, BeginsAlone
<1>7. /\ state' \in [I!Statuses -> {"none", "live", "deleted"}]
      /\ writer' \in [I!Statuses -> Members \cup {None}]
      /\ text' \in [I!Statuses -> SUBSET Members]
      /\ state'[s] = "live" /\ writer'[s] = m
      /\ text'[s] = names \/ (s = "post" /\ names = {} /\ text'[s] = text[s])
      /\ \A o \in I!Statuses : o # s =>
           state'[o] = state[o] /\ writer'[o] = writer[o] /\ text'[o] = text[o]
  <2>1. /\ state' \in [I!Statuses -> {"none", "live", "deleted"}]
        /\ writer' \in [I!Statuses -> Members \cup {None}]
        /\ state'[s] = "live" /\ writer'[s] = m
        /\ \A o \in I!Statuses : o # s => state'[o] = state[o] /\ writer'[o] = writer[o]
    BY <1>2 DEF MInv, IGround, ITyped
  <2>2. /\ text' \in [I!Statuses -> SUBSET Members]
        /\ text'[s] = names \/ (s = "post" /\ names = {} /\ text'[s] = text[s])
        /\ \A o \in I!Statuses : o # s => text'[o] = text[o]
    BY <1>2, <1>3 DEF MInv, IGround, ITyped
  <2> QED
    BY <2>1, <2>2
<1>8. \A o \in I!Statuses :
        state[o] # "none" => state'[o] # "none" /\ writer'[o] = writer[o]
  BY <1>2, <1>7 DEF MInv, IGround, Written
<1>9. ITyped'
  BY <1>2, <1>5, <1>7 DEF MInv, IGround, ITyped
<1>10. Written'
  BY <1>2, <1>7, <1>8, Statuses DEF MInv, IGround, Written
<1>11. TextsOnly
  BY <1>2, <1>4, <1>5, <1>6 DEF TextsOnly
<1>12. AllSound'
  <2> SUFFICES ASSUME NEW q \in Requests PROVE Sound(q)'
    BY DEF AllSound
  <2>1. CASE q = r
    BY <1>4, <1>5, <1>6, <1>7, <2>1 DEF Sound, Writing
  <2>2. CASE q # r
    <3>1. Sound(q) /\ req4'[q] = req4[q]
      BY <1>5, <2>2 DEF MInv, IGround, AllSound
    <3>2. req4[q].at = "tombstone" => state'["post"] = "deleted"
      BY <1>2, <1>7, <3>1, Statuses DEF Sound
    <3> QED
      BY <1>8, <3>1, <3>2, Statuses DEF Sound
  <2> QED
    BY <2>1, <2>2
<1>13. s = "reply" => \A q \in Requests : ~(req4[q].of = "reply" /\ req4[q].at # "idle")
  <2> SUFFICES ASSUME s = "reply", NEW q \in Requests, req4[q].of = "reply", req4[q].at # "idle"
               PROVE  FALSE
    OBVIOUS
  <2>1. PICK v \in Asked : v = req4[q]
    BY DEF MInv, IGround, ITyped
  <2>2. v.at \in Writing \cup {"sent"}
    BY <2>1 DEF MInv, IGround, AllSound, Sound, Asked
  <2> QED
    BY <1>2, <2>1, <2>2 DEF MInv, IGround, AllSound, Sound
<1>14. OneReply'
  BY <1>4, <1>5, <1>13 DEF MInv, IGround, OneReply
<1>15. /\ NotesAreOwed' /\ (MentionsOnce => MentionsOnce')
       /\ \A u, v : I!Owed(u, v)' <=> I!Owed(u, v)
       /\ \A o \in I!Statuses : I!AlreadyTold(o)' = I!AlreadyTold(o)
  BY <1>2, <1>8, Unnoted
<1>16. ReplyToldOnce'
  <2>1. CASE s = "post"
    BY <1>2, <1>4, <1>5, <2>1, OneReplyTold DEF MInv, IGround
  <2>2. CASE s = "reply"
    <3> SUFFICES ASSUME NEW v \in Members
                 PROVE  I!Told(Author, v, "reply", "reply")' = 0
      BY DEF ReplyToldOnce
    <3>1. PICK n \in I!Notes : n = I!Note(Author, v, "reply", "reply") /\ n.kind = "reply"
      BY Notes, Statuses, InteractionsAssumption DEF I!Local
    <3>2. notes[n] = 0
      BY <1>2, <2>2, <3>1 DEF MInv, IGround, NotesAreOwed, ITyped
    <3> QED
      BY <1>2, <3>1, <3>2 DEF I!Told, I!Note
  <2> QED
    BY <2>1, <2>2, Statuses
<1>17. \A q \in Requests, o \in I!Statuses :
         /\ o # s => (Writes(q, o)' <=> Writes(q, o))
         /\ req4[q].at # "idle" => req4'[q] = req4[q]
  BY <1>4, <1>5, <1>6 DEF Writes, Writing
<1>18. Writes(r, s)' /\ req4'[r].names = names /\ req4'[r].at = "saved" /\ req4'[r].of = s
  BY <1>4, <1>5 DEF Writes, Writing
<1>19. ASSUME "crossed" \notin lapses'
       PROVE  OneTab' /\ RowsStillRead' /\ MentionsOnce' /\ NoneWritesDeleted' /\ HeldByRows'
  <2>1. OneTab' /\ StillRead /\ MentionsOnce /\ HeldByRows
    BY <1>6, <1>19 DEF MInv, OneByOne
  <2>2. \A q \in Requests : req4[q].at = "told" => req4[q].of \in I!Statuses
    BY DEF MInv, IGround, AllSound, Sound, Writing
  <2>3. RowsStillRead'
    BY <1>2, <1>4, <1>5, <1>15, <2>1, <2>2 DEF StillRead, RowsStillRead
  <2>4. NoneWritesDeleted'
    BY <1>2, <1>7, Statuses DEF NoneWritesDeleted
  <2>5. HeldByRows'
    BY <1>2, <1>6, <2>1 DEF HeldByRows
  <2> QED
    BY <1>15, <2>1, <2>3, <2>4, <2>5
<1>20. Unbroken'
  <2> SUFFICES ASSUME "crossed" \notin lapses', "crashed" \notin lapses'
               PROVE  TextTold' /\ ReplyTold' /\ RowsFollow' /\ CopiesSent' /\ DeleteSent'
    BY DEF Unbroken
  <2>1. TextTold /\ ReplyTold /\ RowsFollow /\ CopiesSent
    BY <1>6 DEF MInv, Unbroken
  <2>2. \A q \in Requests : ~Writes(q, "post") \/ s # "post"
    <3> SUFFICES ASSUME NEW q \in Requests, Writes(q, "post"), s = "post"
                 PROVE  FALSE
      OBVIOUS
    <3>1. req4[q].by = Author /\ req4[q].at # "idle" /\ req4[q].of = "post"
      BY Statuses DEF MInv, IGround, AllSound, Sound, Writes, Writing, Written
    <3> QED
      BY <1>2, <1>6, <3>1
  <2>3. TextTold'
    <3> SUFFICES ASSUME NEW o \in I!Statuses, NEW u \in I!Local \cap text'[o]
                 PROVE  \/ o = "reply" /\ u = Author
                        \/ I!Told(u, writer[o], "mention", o)' =
                              IF I!Owed(u, writer'[o]) THEN 1 ELSE 0
                        \/ \E q \in Requests : Writes(q, o)' /\ u \in req4'[q].names
      BY <1>15 DEF TextTold
    <3>1. CASE o = s /\ text'[s] = names
      BY <1>18, <3>1
    <3>2. CASE o # s \/ text'[s] # names
      <4>1. u \in text[o] /\ writer'[o] = writer[o]
        BY <1>7, <1>2, <3>2 DEF MInv, IGround, Written
      <4>2. \/ o = "reply" /\ u = Author
            \/ I!Told(u, writer[o], "mention", o) = IF I!Owed(u, writer[o]) THEN 1 ELSE 0
            \/ \E q \in Requests : Writes(q, o) /\ u \in req4[q].names
        BY <2>1, <4>1 DEF TextTold
      <4>3. I!Told(u, writer[o], "mention", o)' = I!Told(u, writer[o], "mention", o)
        BY <1>2, <4>1 DEF I!Told, I!Note
      <4>4. \A q \in Requests : Writes(q, o) => Writes(q, o)' /\ req4'[q] = req4[q]
        BY <1>7, <1>17, <2>2, <3>2 DEF Writes, Writing
      <4> QED
        BY <4>1, <4>2, <4>3, <4>4
    <3> QED
      BY <3>1, <3>2
  <2>4. ReplyTold'
    <3>1. CASE s = "reply"
      BY <1>18, <3>1 DEF ReplyTold
    <3>2. CASE s # "reply"
      BY <1>2, <1>7, <1>15, <1>17, <2>1, <3>2, Statuses DEF ReplyTold, I!Told, I!Note
    <3> QED
      BY <3>1, <3>2
  <2>5. RowsFollow'
    <3> SUFFICES ASSUME "emptied" \notin lapses', NEW o \in I!Statuses
                 PROVE  \/ tags[o] = text'[o]
                        \/ \E q \in Requests : req4'[q].of = o /\ req4'[q].at \in {"saved", "read"}
      BY <1>2 DEF RowsFollow
    <3>1. CASE o = s
      BY <1>18, <3>1
    <3>2. CASE o # s
      BY <1>6, <1>7, <1>17, <2>1, <3>2 DEF RowsFollow
    <3> QED
      BY <3>1, <3>2
  <2>6. CopiesSent'
    <3> SUFFICES ASSUME NEW o \in I!Statuses, state'[o] = "live", writer'[o] \in I!Local
                 PROVE  \/ tags[o] \cap Remote \subseteq held4[o]
                        \/ \E q \in Requests : Writes(q, o)'
      BY <1>2 DEF CopiesSent
    <3>1. CASE o = s
      BY <1>18, <3>1
    <3>2. CASE o # s
      BY <1>7, <1>17, <2>1, <3>2 DEF CopiesSent
    <3> QED
      BY <3>1, <3>2
  <2>7. DeleteSent'
    BY <1>2, <1>7, Statuses DEF DeleteSent
  <2> QED
    BY <2>3, <2>4, <2>5, <2>6, <2>7
<1> QED
  BY <1>9, <1>10, <1>11, <1>12, <1>14, <1>15, <1>16, <1>19, <1>20, TextsStep

-----------------------------------------------------------------------------
LEMMA MInvInit == I!Init => MInv
<1> SUFFICES ASSUME I!Init PROVE MInv
  OBVIOUS
<1> USE DEF I!Init
<1>1. \A r \in Requests : req4[r].at = "idle"
  BY DEF I!Idle
<1>2. ITyped
  <2>1. req4 \in [Requests -> Asked]
    BY DEF I!Idle, Asked, I!Statuses
  <2> QED
    BY <2>1, InteractionsAssumption DEF ITyped
<1>3. Written
  BY Statuses DEF Written
<1>4. AllSound /\ OneReply /\ NotesAreOwed
  BY <1>1 DEF AllSound, Sound, OneReply, NotesAreOwed, Writing
<1>5. \A u \in I!Local, m \in Members, s \in I!Statuses,
         kind \in {"like", "reply", "mention"} : I!Told(u, m, kind, s) = 0
  BY Notes DEF I!Told
<1>6. Author \in I!Local
  BY InteractionsAssumption DEF I!Local
<1>7. ReplyToldOnce
  BY <1>5, <1>6, Statuses DEF ReplyToldOnce
<1>8. OneTab /\ StillRead /\ NoneWritesDeleted /\ HeldByRows
  BY <1>1, Statuses DEF OneTab, StillRead, NoneWritesDeleted, HeldByRows
<1>9. LikesTold
  BY <1>1, <1>5, <1>6, Statuses DEF LikesTold, Telling
<1>10. MentionsOnce
  BY <1>5 DEF MentionsOnce
<1>11. TextTold /\ ReplyTold /\ RowsFollow /\ CopiesSent /\ DeleteSent
  BY Statuses DEF TextTold, ReplyTold, RowsFollow, CopiesSent, DeleteSent
<1> QED
  BY <1>2, <1>3, <1>4, <1>7, <1>8, <1>9, <1>10, <1>11
     DEF MInv, IGround, OneByOne, Unbroken

LEMMA MInvStep == MInv /\ [I!Next]_(I!vars) => MInv'
<1> SUFFICES ASSUME MInv, [I!Next]_(I!vars) PROVE MInv'
  OBVIOUS
<1>1. CASE I!Next
  BY <1>1, LikeStatusKeeps, SaveTextKeeps, InsertLikeKeeps, TellLikeKeeps,
     ReadTagsKeeps, SyncTagsKeeps, ReadToldKeeps, TellAndSendKeeps,
     TellReplyKeeps, DeletePostKeeps, SendDeleteKeeps, CrashKeeps,
     HandleLikeKeeps, HandleUndoKeeps, MirrorReplyKeeps DEF I!Next
<1>2. CASE UNCHANGED I!vars
  <2>1. UNCHANGED <<state, writer, text, tags, likes, notes, held4, blocks, shut,
                    req4, liked, lapses>>
    BY <1>2 DEF I!vars
  <2>2. ITyped'
    BY <2>1 DEF MInv, IGround, ITyped
  <2>3. LikesOnly
    BY <2>1 DEF LikesOnly
  <2>4. OneTab /\ StillRead => OneTab' /\ LikesMissing'
    BY <2>1 DEF OneTab, StillRead, LikesMissing
  <2>5. LikesTold => LikesTold'
    BY <2>1 DEF LikesTold, Telling, I!Told, I!Owed, I!Note
  <2> QED
    BY <2>1, <2>2, <2>3, <2>4, <2>5, LikesStep DEF MInv, OneByOne
<1> QED
  BY <1>1, <1>2

LEMMA MInvShows == MInv => I!NamedAreReached
<1> SUFFICES ASSUME MInv, "crossed" \notin lapses
             PROVE  /\ I!NobodyTwice
                    /\ I!Quiet /\ "crashed" \notin lapses =>
                         /\ "emptied" \notin lapses => I!RowsAreTheText
                         /\ I!NobodyMissed
                         /\ "dropped" \notin lapses =>
                              (state["post"] = "deleted" => held4["post"] = {})
  BY DEF I!NamedAreReached
<1>1. LikesTold /\ MentionsOnce /\ ReplyToldOnce /\ NotesAreOwed /\ ITyped /\ Written
  BY DEF MInv, IGround, OneByOne
<1>2. \A m \in Members : I!Told(Author, m, "mention", "reply") = 0
  <2> TAKE m \in Members
  <2>1. PICK n \in I!Notes : n = I!Note(Author, m, "mention", "reply")
          /\ n.kind = "mention" /\ n.to = Author /\ n.of = "reply"
    BY Notes, Statuses, InteractionsAssumption DEF I!Local
  <2>2. ~(notes[n] > 0) /\ notes[n] \in Nat
    BY <1>1, <2>1 DEF NotesAreOwed, ITyped
  <2> QED
    BY <2>1, <2>2 DEF I!Told
<1>3. \A m \in Members, kind \in {"like", "reply"}, s \in I!Statuses :
        /\ I!Told(Author, m, kind, s) \in Nat
        /\ ~I!Owed(Author, m) => I!Told(Author, m, kind, s) = 0
  <2> TAKE m \in Members, kind \in {"like", "reply"}, s \in I!Statuses
  <2>1. PICK n \in I!Notes : n = I!Note(Author, m, kind, s)
          /\ n.to = Author /\ n.from = m
    BY Notes, InteractionsAssumption DEF I!Local
  <2>2. (~I!Owed(Author, m) => ~(notes[n] > 0)) /\ notes[n] \in Nat
    BY <1>1, <2>1 DEF NotesAreOwed, ITyped
  <2> QED
    BY <2>1, <2>2 DEF I!Told
<1>4. I!NobodyTwice
  <2>1. \A m \in Members : I!Told(Author, m, "like", "post") <= liked[m]
    BY <1>1 DEF LikesTold
  <2>2. \A m \in Members :
          I!Told(Author, m, "reply", "reply") + I!Told(Author, m, "mention", "reply") <= 1
    BY <1>1, <1>2, <1>3, Statuses DEF ReplyToldOnce
  <2> QED
    BY <1>1, <2>1, <2>2 DEF I!NobodyTwice, MentionsOnce
<1>5. ASSUME I!Quiet, "crashed" \notin lapses
      PROVE  /\ "emptied" \notin lapses => I!RowsAreTheText
             /\ I!NobodyMissed
             /\ "dropped" \notin lapses =>
                  (state["post"] = "deleted" => held4["post"] = {})
  <2>1. \A r \in Requests : req4[r].at = "idle"
    BY <1>5 DEF I!Quiet, I!At
  <2>2. TextTold /\ ReplyTold /\ RowsFollow /\ CopiesSent /\ DeleteSent
    BY <1>5 DEF MInv, Unbroken
  <2>3. \A r \in Requests, s \in I!Statuses : ~Writes(r, s)
    BY <2>1 DEF Writes, Writing
  <2>4. "emptied" \notin lapses => I!RowsAreTheText
    BY <2>1, <2>2, <2>3 DEF RowsFollow, CopiesSent, I!RowsAreTheText
  <2>5. \A m \in Members : I!Told(Author, m, "like", "post") =
          IF I!Owed(Author, m) THEN liked[m] ELSE 0
    BY <1>1, <1>3, <1>5, <2>1, Statuses DEF LikesTold, Telling
  <2>6. \A s \in I!Statuses, u \in I!Local : state[s] = "live" /\ u \in text[s] =>
          \/ s = "reply" /\ u = Author
          \/ I!Told(u, writer[s], "mention", s) = IF I!Owed(u, writer[s]) THEN 1 ELSE 0
    BY <2>2, <2>3 DEF TextTold
  <2>7. state["reply"] = "live" =>
          I!Told(Author, writer["reply"], "reply", "reply") =
            IF I!Owed(Author, writer["reply"]) THEN 1 ELSE 0
    BY <2>1, <2>2 DEF ReplyTold
  <2>8. I!NobodyMissed
    BY <2>5, <2>6, <2>7 DEF I!NobodyMissed
  <2>9. "dropped" \notin lapses => (state["post"] = "deleted" => held4["post"] = {})
    BY <2>1, <2>2 DEF DeleteSent
  <2> QED
    BY <2>4, <2>8, <2>9
<1> QED
  BY <1>4, <1>5
-----------------------------------------------------------------------------
(* The theorems, of the three side by side                                   *)

RInv ==
  /\ Base /\ ToldTyped /\ Heard /\ NoPostLeft /\ Remembered
  /\ Tombstones /\ OpenStill /\ Accounted

LEMMA RInvInit == R!Init => RInv
  BY BaseInit, ToldTypedInit, HeardInit, NoPostLeftInit, RememberedInit,
     AccountsInit DEF RInv

LEMMA RInvStep == RInv /\ [R!Next]_(R!vars) => RInv'
  BY BaseStep, ToldTypedStep, HeardStep, NoPostLeftStep, RememberedStep,
     TombstonesStep, OpenStillStep, AccountedStep DEF RInv

\* A pile about which somebody is filing is the only one that is awaited.
LEMMA RInvShows ==
  RInv => /\ R!PileToldOnce /\ R!Explained /\ R!BannedHasNoPosts
          /\ R!NotesAreKept
<1> SUFFICES ASSUME RInv
             PROVE  /\ R!PileToldOnce /\ R!Explained /\ R!BannedHasNoPosts
                    /\ R!NotesAreKept
  OBVIOUS
<1>1. \A t : Awaited(t) => R!Filing(t)
  BY DEF Awaited, R!Filing, R!Busy, R!At
<1>2. R!PileToldOnce
  BY <1>1 DEF RInv, Heard, OneAtATime, PilesTold, R!PileToldOnce
<1>3. R!Explained
  BY AccountsExplain DEF RInv
<1>4. R!BannedHasNoPosts
  BY DEF RInv, NoPostLeft, R!BannedHasNoPosts
<1>5. R!NotesAreKept
  BY DEF RInv, Remembered, R!NotesAreKept
<1> QED
  BY <1>2, <1>3, <1>4, <1>5

LEMMA RInvTypes == RInv => R!TypeOK
<1> SUFFICES ASSUME RInv PROVE R!TypeOK
  OBVIOUS
<1>1. \A r \in Requests : job[r].saw \subseteq job[r].rows
  BY DEF RInv, Base, Purposeful, Purpose
<1> QED
  BY <1>1 DEF RInv, Base, IInv, Typed, Jobs, Ground, ToldTyped, R!TypeOK

\* Whichever of the three moves, the reports stay or take one of their steps.
LEMMA ReportsStep ==
  [ModerationNext]_<<vars, reports, interactions, area>> => [R!Next]_(R!vars)
  BY DEF ModerationNext, reports, R!vars

LEMMA ModerationKeeps == ModerationSpec => []RInv
<1>1. ModerationInit => RInv
  BY RInvInit DEF ModerationInit
<1>2. RInv /\ [ModerationNext]_<<vars, reports, interactions, area>> => RInv'
  BY RInvStep, ReportsStep
<1> QED
  BY <1>1, <1>2, PTL DEF ModerationSpec

\* The staff hears of a pile once: when nobody is filing about the target, one
\* alert was enqueued for the reports that are open, unless two were filed at
\* once, or a Flag while the pile was decided.
THEOREM PilesAreToldOnce == ModerationSpec => []PileToldOnce
<1>1. RInv => PileToldOnce
  BY RInvShows DEF PileToldOnce
<1> QED
  BY <1>1, ModerationKeeps, PTL

\* No decision is ever taken again: not by a stale tab, a second moderator, a
\* dismissal that checks nothing, the same reporter's next report, nor a Flag
\* delivered while it is taken.
THEOREM DecisionsAreFinal == ModerationSpec => DecisionIsFinal
<1>1. /\ RInv /\ [ModerationNext]_<<vars, reports, interactions, area>> =>
           [RowsKept]_(R!vars)
  BY BaseStep, ReportsStep DEF RInv
<1>2. [RowsKept]_(R!vars) <=>
      [\A f \in Filings : row[f] \in R!Decisions => row'[f] = row[f]]_(R!vars)
  BY DEF RowsKept
<1> QED
  BY <1>1, <1>2, ModerationKeeps, PTL
     DEF ModerationSpec, DecisionIsFinal, R!DecisionIsFinal

\* What was done to a member is on the reports: a report that says its post was
\* deleted has a deleted post, and unless two decisions overlapped, a removed
\* post, a ban and a suspension each have a report that says so.
THEOREM DoneIsExplained == ModerationSpec => []Explained
<1>1. RInv => Explained
  BY RInvShows DEF Explained
<1> QED
  BY <1>1, ModerationKeeps, PTL

\* A banned member has no live post, through unbans, new reports and new posts,
\* unless a post was being published while the ban ran.
THEOREM BansLeaveNoPost == ModerationSpec => []BannedHasNoPosts
<1>1. RInv => BannedHasNoPosts
  BY RInvShows DEF BannedHasNoPosts
<1> QED
  BY <1>1, ModerationKeeps, PTL

\* A decision keeps the note it was signed with under every line that is
\* appended, unless one was being appended, or another decision made, meanwhile.
THEOREM DecisionsKeepTheirNotes == ModerationSpec => []NotesAreKept
<1>1. RInv => NotesAreKept
  BY RInvShows DEF NotesAreKept
<1> QED
  BY <1>1, ModerationKeeps, PTL

InteractionsSound == area = "interactions" => MInv

LEMMA InteractionsKeep == ModerationSpec => []InteractionsSound
<1>1. ModerationInit => InteractionsSound
  BY MInvInit DEF ModerationInit, InteractionsSound
<1>2. InteractionsSound /\ [ModerationNext]_<<vars, reports, interactions, area>> => InteractionsSound'
  <2> SUFFICES ASSUME InteractionsSound, [ModerationNext]_<<vars, reports, interactions, area>>,
                      area' = "interactions"
               PROVE  MInv'
    BY DEF InteractionsSound
  <2>1. area = "interactions"
    BY DEF ModerationNext
  <2>2. [I!Next]_(I!vars)
    BY <2>1 DEF ModerationNext, interactions, I!vars
  <2> QED
    BY <2>1, <2>2, MInvStep DEF InteractionsSound
<1> QED
  BY <1>1, <1>2, PTL DEF ModerationSpec

\* Whoever a text names, answers or likes concern is told of it once: never twice
\* while nobody has two tabs at one thing, and, unless a request died, not
\* missed either when all are over, with the rows and the copies as the text is.
THEOREM NamedAreToldOnce == ModerationSpec => []NamedAreReached
<1>1. InteractionsSound => NamedAreReached
  BY MInvShows DEF InteractionsSound, NamedAreReached
<1> QED
  BY <1>1, InteractionsKeep, PTL

-----------------------------------------------------------------------------
(* Types                                                                     *)

\* A like comes to be once for each request begun and each delivery: whoever's
\* is about to be inserted has one request more than likes.
LikesBegun ==
  \A m \in Members :
    /\ liked[m] <= begun
    /\ m \notin likes /\ (\E r \in Requests : req4[r].at = "insert" /\ req4[r].by = m)
         => liked[m] + 1 <= begun

Bounded ==
  /\ blocks \subseteq I!Local \X Members /\ shut \subseteq Members
  /\ lapses \subseteq {"crossed", "crashed", "dropped", "emptied"}
  /\ begun \in 0..MaxBegun
  /\ LikesBegun

\* Whatever begins, is delivered or goes on counts itself.
Counts == begun' = begun \/ (begun < MaxBegun /\ begun' = begun + 1)

LEMMA BoundedInit == I!Init => Bounded
  BY InteractionsAssumption DEF I!Init, I!Local, I!Idle, Bounded, LikesBegun

\* A step that makes no like and opens no request at one keeps the count.
LEMMA UnlikedKeeps ==
  ASSUME ITyped, Bounded, Counts, liked' = liked,
         likes \subseteq likes' \/ begun' = begun + 1,
         \A r \in Requests : req4'[r].at = "insert" =>
           begun' = begun + 1 \/ (req4[r].at = "insert" /\ req4'[r].by = req4[r].by)
  PROVE  LikesBegun'
<1>1. begun \in Nat /\ begun' \in Nat /\ begun <= begun'
  BY InteractionsAssumption DEF Bounded, Counts
<1>2. \A m \in Members : liked[m] \in Nat
  BY DEF ITyped
<1>3. ASSUME NEW m \in Members PROVE liked[m] <= begun'
  BY <1>1, <1>2, <1>3 DEF Bounded, LikesBegun
<1>4. ASSUME NEW m \in Members, m \notin likes', NEW r \in Requests,
             req4'[r].at = "insert", req4'[r].by = m
      PROVE  liked[m] + 1 <= begun'
  <2>1. CASE begun' = begun + 1
    BY <1>1, <1>2, <2>1 DEF Bounded, LikesBegun
  <2>2. CASE begun' # begun + 1
    <3>1. m \notin likes /\ req4[r].at = "insert" /\ req4[r].by = m
      BY <1>4, <2>2
    <3> QED
      BY <1>1, <1>2, <3>1 DEF Bounded, LikesBegun
  <2> QED
    BY <2>1, <2>2
<1> QED
  BY <1>3, <1>4 DEF LikesBegun

LEMMA InsertBounded ==
  ASSUME MInv, Bounded, NEW r \in Requests, I!InsertLike(r)
  PROVE  LikesBegun'
<1> DEFINE m == req4[r].by
<1>1. ITyped /\ m \in Members
  BY DEF MInv, IGround, AllSound, Sound, I!InsertLike, I!At, I!Local
<1>2. /\ likes' = likes \cup {m} /\ begun' = begun /\ begun \in Nat
      /\ liked' = IF m \in likes THEN liked ELSE [liked EXCEPT ![m] = @ + 1]
  BY InteractionsAssumption DEF I!InsertLike, Bounded
<1>3. /\ req4[r].at = "insert" /\ req4'[r].at = "liked"
      /\ \A q \in Requests \ {r} : req4'[q] = req4[q]
  BY <1>1 DEF I!InsertLike, I!Goes, I!At, ITyped, Asked
<1>4. m \notin likes => liked[m] + 1 <= begun
  BY <1>1, <1>3 DEF Bounded, LikesBegun
<1>5. \A u \in Members : liked[u] \in Nat
  BY <1>1 DEF ITyped
<1>6. ASSUME NEW u \in Members PROVE liked'[u] <= begun
  <2>1. CASE u = m /\ m \notin likes
    BY <1>1, <1>2, <1>4, <2>1 DEF ITyped
  <2>2. CASE ~(u = m /\ m \notin likes)
    BY <1>1, <1>2, <2>2 DEF ITyped, Bounded, LikesBegun
  <2> QED
    BY <2>1, <2>2
<1>7. ASSUME NEW u \in Members, u \notin likes', NEW q \in Requests,
             req4'[q].at = "insert", req4'[q].by = u
      PROVE  liked'[u] + 1 <= begun
  <2>1. u # m /\ u \notin likes /\ req4[q].at = "insert" /\ req4[q].by = u
    BY <1>2, <1>3, <1>7
  <2>2. liked'[u] = liked[u]
    BY <1>1, <1>2, <2>1 DEF ITyped
  <2> QED
    BY <2>1, <2>2 DEF Bounded, LikesBegun
<1> QED
  BY <1>2, <1>6, <1>7 DEF LikesBegun

LEMMA DeliverBounded ==
  ASSUME MInv, Bounded, NEW m \in Members, I!handle_like(m)
  PROVE  LikesBegun'
<1>1. /\ likes' = likes \cup {m} /\ begun' = begun + 1 /\ begun \in Nat
      /\ req4' = req4 /\ liked' = [liked EXCEPT ![m] = @ + 1]
  BY InteractionsAssumption DEF I!handle_like, I!Delivered, Bounded
<1>2. \A u \in Members :
        /\ liked[u] \in Nat /\ liked[u] <= begun
        /\ liked'[u] = IF u = m THEN liked[u] + 1 ELSE liked[u]
  BY <1>1 DEF MInv, IGround, ITyped, Bounded, LikesBegun
<1>3. ASSUME NEW u \in Members PROVE liked'[u] <= begun'
  BY <1>1, <1>2
<1>4. ASSUME NEW u \in Members, u \notin likes' PROVE liked'[u] + 1 <= begun'
  BY <1>1, <1>2, <1>4
<1> QED
  BY <1>3, <1>4 DEF LikesBegun

\* What is open goes on to what is no insert, or is over.
LEMMA NoInsert ==
  ASSUME ITyped, NEW r \in Requests, NEW at, at # "insert",
         \/ I!Goes(r, at) \/ I!Ends(r)
         \/ \E seen : req4' = [req4 EXCEPT ![r].at = at, ![r].seen = seen]
         \/ \E w : w.at = at /\ req4' = [req4 EXCEPT ![r] = w]
  PROVE  \A q \in Requests : req4'[q].at = "insert" =>
           req4[q].at = "insert" /\ req4'[q].by = req4[q].by
<1>1. \A q \in Requests \ {r} : req4'[q] = req4[q]
  BY DEF I!Goes, I!Ends, ITyped
<1>2. I!Idle.at = "idle"
  BY DEF I!Idle
<1>3. req4'[r].at \in {at, "idle"}
  BY <1>2 DEF I!Goes, I!Ends, ITyped, Asked
<1> QED
  BY <1>1, <1>3

LEMMA RequestsBounded ==
  ASSUME MInv, Bounded, NEW r \in Requests,
         \/ I!TellLike(r) \/ I!ReadTags(r) \/ I!SyncTags(r) \/ I!ReadTold(r)
         \/ I!TellAndSend(r) \/ I!TellReply(r) \/ I!DeletePost(r)
         \/ I!SendDelete(r) \/ I!Crash(r)
         \/ \E m \in Members, s \in I!Statuses, names \in Named :
              I!SaveText(r, m, s, names)
  PROVE  LikesBegun'
<1>1. Counts /\ likes' = likes /\ liked' = liked
  BY DEF I!TellLike, I!ReadTags, I!SyncTags, I!ReadTold, I!TellAndSend, I!TellReply,
     I!DeletePost, I!SendDelete, I!Crash, I!SaveText, I!Begins, Counts
<1>2. ITyped
  BY DEF MInv, IGround
<1> DEFINE Kept == \A q \in Requests : req4'[q].at = "insert" =>
                     req4[q].at = "insert" /\ req4'[q].by = req4[q].by
<1>3. ASSUME I!TellLike(r) \/ I!TellReply(r) \/ I!SendDelete(r) \/ I!Crash(r)
      PROVE  Kept
  <2>1. I!Ends(r)
    BY <1>3 DEF I!TellLike, I!TellReply, I!SendDelete, I!Crash
  <2> QED
    BY <1>2, <2>1, EndsNow
<1>4. CASE I!ReadTags(r)
  BY <1>1, <1>2, <1>4, NoInsert, UnlikedKeeps DEF I!ReadTags
<1>5. CASE I!SyncTags(r)
  BY <1>1, <1>2, <1>5, NoInsert, UnlikedKeeps DEF I!SyncTags
<1>6. CASE I!ReadTold(r)
  BY <1>1, <1>2, <1>6, NoInsert, UnlikedKeeps DEF I!ReadTold
<1>7. CASE I!TellAndSend(r)
  BY <1>1, <1>2, <1>7, NoInsert, UnlikedKeeps DEF I!TellAndSend
<1>8. CASE I!DeletePost(r)
  <2>1. [I!Idle EXCEPT !.by = Author, !.at = "tombstone"].at = "tombstone"
    BY DEF I!Idle
  <2>2. Kept
    BY <1>2, <1>8, <2>1, NoInsert DEF I!DeletePost
  <2> QED
    BY <1>1, <1>2, <2>2, UnlikedKeeps
<1>9. ASSUME NEW m \in Members, NEW s \in I!Statuses, NEW names \in Named,
             I!SaveText(r, m, s, names)
      PROVE  LikesBegun'
  <2>1. Kept
    BY <1>2, <1>9, NoInsert DEF I!SaveText
  <2> QED
    BY <1>1, <1>2, <2>1, UnlikedKeeps
<1> QED
  BY <1>1, <1>2, <1>3, <1>4, <1>5, <1>6, <1>7, <1>8, <1>9, UnlikedKeeps

Lapses == {"crossed", "crashed", "dropped", "emptied"}

\* What each step leaves alone, and what it notes.
LEMMA EachCounts ==
  I!Next => /\ Counts /\ UNCHANGED <<blocks, shut>>
            /\ lapses' = lapses \/ \E l \in SUBSET Lapses : lapses' = lapses \cup l
<1> DEFINE Good ==
      /\ Counts /\ UNCHANGED <<blocks, shut>>
      /\ lapses' = lapses \/ \E l \in SUBSET Lapses : lapses' = lapses \cup l
<1> SUFFICES ASSUME I!Next PROVE Good
  OBVIOUS
<1> USE DEF Lapses
<1>1. ASSUME NEW r, NEW m, NEW s, I!Begins(r, m, s)
      PROVE  Counts /\ \E l \in SUBSET Lapses : lapses' = lapses \cup l
  <2>1. (IF I!Others(m, s) = {} THEN {} ELSE {"crossed"}) \in SUBSET Lapses
    OBVIOUS
  <2> QED
    BY <1>1, <2>1 DEF I!Begins, Counts
<1>2. ASSUME NEW r \in Requests, NEW m \in Members, I!like_status(r, m) PROVE Good
  BY <1>1, <1>2 DEF I!like_status
<1>3. ASSUME NEW r \in Requests, NEW m \in Members, NEW s \in I!Statuses,
             NEW names \in Named, I!SaveText(r, m, s, names)
      PROVE  Good
  BY <1>1, <1>3 DEF I!SaveText
<1>4. ASSUME NEW r \in Requests, I!DeletePost(r) PROVE Good
  BY <1>1, <1>4 DEF I!DeletePost
<1>5. ASSUME NEW r \in Requests, I!SyncTags(r) PROVE Good
  <2>1. CASE lapses' = lapses
    BY <1>5, <2>1 DEF I!SyncTags, Counts
  <2>2. CASE lapses' # lapses
    <3> DEFINE l == (IF (req4[r].seen \ req4[r].names) \cap held4[req4[r].of] # {}
                       THEN {"dropped"} ELSE {})
                    \cup (IF req4[r].names # text[req4[r].of] THEN {"emptied"} ELSE {})
    <3>1. lapses' = lapses \cup l
      BY <1>5, <2>2 DEF I!SyncTags
    <3>2. l \in SUBSET Lapses
      OBVIOUS
    <3> QED
      BY <1>5, <3>1, <3>2 DEF I!SyncTags, Counts
  <2> QED
    BY <2>1, <2>2
<1>6. ASSUME NEW r \in Requests, I!Crash(r) PROVE Good
  BY <1>6 DEF I!Crash, Counts
<1>7. ASSUME NEW r \in Requests, I!InsertLike(r) \/ I!TellLike(r) \/ I!ReadTags(r)
      PROVE  Good
  BY <1>7 DEF I!InsertLike, I!TellLike, I!ReadTags, Counts
<1>8. ASSUME NEW r \in Requests, I!ReadTold(r) \/ I!TellAndSend(r)
      PROVE  Good
  BY <1>8 DEF I!ReadTold, I!TellAndSend, Counts
<1>9. ASSUME NEW r \in Requests, I!TellReply(r) \/ I!SendDelete(r)
      PROVE  Good
  BY <1>9 DEF I!TellReply, I!SendDelete, Counts
<1>10. ASSUME NEW m \in Members, I!handle_like(m) \/ I!handle_undo(m)
       PROVE  Good
  BY <1>10 DEF I!handle_like, I!handle_undo, I!Delivered, Counts
<1>11. ASSUME NEW m \in Members, NEW names \in Named, I!MirrorReply(m, names)
       PROVE  Good
  BY <1>11 DEF I!MirrorReply, I!Delivered, Counts
<1> HIDE DEF Good
<1> QED
  BY <1>2, <1>3, <1>4, <1>5, <1>6, <1>7, <1>8, <1>9, <1>10, <1>11 DEF I!Next

LEMMA BoundedStep == MInv /\ Bounded /\ [I!Next]_(I!vars) => Bounded'
<1> SUFFICES ASSUME MInv, Bounded, [I!Next]_(I!vars) PROVE Bounded'
  OBVIOUS
<1>1. CASE UNCHANGED I!vars
  BY <1>1 DEF I!vars, Bounded, LikesBegun
<1>2. CASE I!Next
  <2>1. Counts /\ UNCHANGED <<blocks, shut>>
    BY <1>2, EachCounts
  <2>2. lapses' \subseteq lapses \cup Lapses
    BY <1>2, EachCounts
  <2>3. begun' \in 0..MaxBegun
    BY <2>1, InteractionsAssumption DEF Counts, Bounded
  <2>4. ASSUME NEW r \in Requests, NEW m \in Members, I!like_status(r, m)
        PROVE  LikesBegun'
    <3>1. begun' = begun + 1 /\ liked' = liked
      BY <2>4 DEF I!like_status, I!Begins
    <3> QED
      BY <2>1, <3>1, UnlikedKeeps DEF MInv, IGround
  <2>5. ASSUME NEW m \in Members, I!handle_undo(m) \/ \E names \in Named : I!MirrorReply(m, names)
        PROVE  LikesBegun'
    <3>1. begun' = begun + 1 /\ liked' = liked
      BY <2>5 DEF I!handle_undo, I!MirrorReply, I!Delivered
    <3> QED
      BY <2>1, <3>1, UnlikedKeeps DEF MInv, IGround
  <2>6. LikesBegun'
    BY <1>2, <2>4, <2>5, RequestsBounded, InsertBounded, DeliverBounded DEF I!Next
  <2> QED
    BY <2>1, <2>2, <2>3, <2>6 DEF Bounded, Lapses
<1> QED
  BY <1>1, <1>2

LEMMA BoundedTypes == MInv /\ Bounded => I!TypeOK
<1> SUFFICES ASSUME MInv, Bounded PROVE I!TypeOK
  OBVIOUS
<1>1. liked \in [Members -> 0..MaxBegun]
  <2>1. \A m \in Members : liked[m] \in 0..MaxBegun
    BY InteractionsAssumption DEF MInv, IGround, ITyped, Bounded, LikesBegun
  <2> QED
    BY <2>1 DEF MInv, IGround, ITyped
<1>2. req4 \in [Requests ->
       [by : Members \cup {None}, of : I!Statuses \cup {"like"},
        at : {"idle", "insert", "liked", "saved", "read", "synced", "told",
              "sent", "tombstone"},
        names : SUBSET Members, seen : SUBSET Members]]
  BY DEF MInv, IGround, ITyped, Asked, Writing
<1> QED
  BY <1>1, <1>2 DEF MInv, IGround, ITyped, Written, Bounded, I!TypeOK

InteractionsTyped == area = "interactions" => MInv /\ Bounded

\* Whichever of the three moves, all is what it should be: a mirror that is not
\* held is not suspended, a report's row, job and queue agree in kind, and no
\* like comes to be that nobody began or delivered.
THEOREM AllAreTyped == ModerationSpec => []AllTyped
<1>1. ModerationSpec => Spec
  <2>1. ModerationInit => Init
    BY DEF ModerationInit
  <2>2. [ModerationNext]_<<vars, reports, interactions, area>> => [Next]_vars
    BY DEF ModerationNext
  <2> QED
    BY <2>1, <2>2, PTL DEF ModerationSpec, Spec
<1>2. ModerationInit => InteractionsTyped
  BY MInvInit, BoundedInit DEF ModerationInit, InteractionsTyped
<1>3. InteractionsTyped /\ [ModerationNext]_<<vars, reports, interactions, area>>
        => InteractionsTyped'
  <2> SUFFICES ASSUME InteractionsTyped,
                      [ModerationNext]_<<vars, reports, interactions, area>>,
                      area' = "interactions"
               PROVE  MInv' /\ Bounded'
    BY DEF InteractionsTyped
  <2>1. area = "interactions"
    BY DEF ModerationNext
  <2>2. [I!Next]_(I!vars)
    BY <2>1 DEF ModerationNext, interactions, I!vars
  <2> QED
    BY <2>1, <2>2, MInvStep, BoundedStep DEF InteractionsTyped
<1>4. TypeOK /\ RInv /\ InteractionsTyped => AllTyped
  BY RInvTypes, BoundedTypes DEF InteractionsTyped, AllTyped
<1> QED
  BY <1>1, <1>2, <1>3, <1>4, BlocksAreTyped, ModerationKeeps, PTL DEF ModerationSpec
=============================================================================
