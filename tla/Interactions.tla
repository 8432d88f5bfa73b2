---------------------------- MODULE Interactions ----------------------------
(* What people do to one member's post: they like it, one of them replies,   *)
(* its author edits and deletes it.  The mention rows a text leaves decide   *)
(* who is notified and where the post is sent.                               *)
(*                                                                           *)
(* A member's request commits each of its statements; a delivery from        *)
(* another instance is one transaction, and so one step.                     *)
EXTENDS Naturals

CONSTANTS
  Requests,  \* requests that can be open at once
  Members,
  Author,    \* the post's author, a member of this instance
  Remote,    \* the members of other instances
  None,
  Named,     \* bound: the sets of members a text names
  MaxBegun   \* bound: requests begun and deliveries handled

VARIABLES
  state,   \* the post and the reply: not there yet, live, or deleted
  writer,  \* who wrote each
  text,    \* whom its saved text mentions
  tags,    \* its StatusMention rows
  likes,   \* whose Like rows the post has
  notes,   \* how many notifications there are of each
  held,    \* on which instances a copy is that they were not told to delete
  blocks,  \* <<who, whom>>
  shut,    \* the suspended and banned; who is does not change here
  req,     \* each request: whose, of what, how far and what it has read
  liked,   \* history: the Like rows of each that came to be
  lapses,  \* history: what the properties except
  begun    \* bound's counter

vars == <<state, writer, text, tags, likes, notes, held, blocks, shut, req,
          liked, lapses, begun>>

Statuses == {"post", "reply"}
Local == Members \ Remote

Idle == [by |-> None, of |-> "post", at |-> "idle", names |-> {}, seen |-> {}]

Notes == [to : Local, from : Members, kind : {"like", "reply", "mention"},
          of : Statuses]

TypeOK ==
  /\ state \in [Statuses -> {"none", "live", "deleted"}]
  /\ writer \in [Statuses -> Members \cup {None}]
  /\ \A s \in Statuses : state[s] = "none" => text[s] = {} /\ tags[s] = {}
  /\ text \in [Statuses -> SUBSET Members]
  /\ tags \in [Statuses -> SUBSET Members]
  /\ likes \subseteq Members
  /\ notes \in [Notes -> Nat]
  /\ held \in [Statuses -> SUBSET Remote]
  /\ blocks \subseteq Local \X Members /\ shut \subseteq Members
  /\ req \in [Requests ->
       [by : Members \cup {None}, of : Statuses \cup {"like"},
        at : {"idle", "insert", "liked", "saved", "read", "synced", "told",
              "sent", "tombstone"},
        names : SUBSET Members, seen : SUBSET Members]]
  /\ liked \in [Members -> 0..MaxBegun]
  /\ lapses \subseteq {"crossed", "crashed", "dropped", "emptied"}
  /\ begun \in 0..MaxBegun

Init ==
  /\ state = [s \in Statuses |-> "none"]
  /\ writer = [s \in Statuses |-> IF s = "post" THEN Author ELSE None]
  /\ text = [s \in Statuses |-> {}] /\ tags = text /\ held = text
  /\ likes = {} /\ notes = [n \in Notes |-> 0]
  /\ \/ blocks = {} /\ shut = {}
     \/ \E m \in Members : blocks = {} /\ shut = {m}
     \/ \E u \in Local, m \in Members :
          u # m /\ blocks = {<<u, m>>} /\ shut = {}
  /\ req = [r \in Requests |-> Idle]
  /\ liked = [m \in Members |-> 0] /\ lapses = {} /\ begun = 0

At(r, at) == req[r].at = at
Goes(r, at) == req' = [req EXCEPT ![r].at = at]
Ends(r) == req' = [req EXCEPT ![r] = Idle]

\* What another tab is at: the same text, or a like too.
Others(m, s) ==
  {q \in Requests : ~At(q, "idle") /\ req[q].by = m /\ req[q].of = s}

\* A signed-in member, who is not shut out; two tabs at once are "crossed".
Begins(r, m, s) ==
  /\ At(r, "idle") /\ m \in Local \ shut
  /\ begun < MaxBegun /\ begun' = begun + 1
  /\ lapses' = lapses \cup (IF Others(m, s) = {} THEN {} ELSE {"crossed"})

Delivered(m) ==
  /\ m \in Remote
  /\ begun < MaxBegun /\ begun' = begun + 1

\* notify's guards.
Owed(to, from) ==
  /\ to # from /\ to \in Local /\ <<to, from>> \notin blocks
  /\ {to, from} \cap shut = {}

Note(to, from, kind, s) ==
  [to |-> to, from |-> from, kind |-> kind, of |-> s]

\* notify for each of them: the notifications it makes.
notify(people, from, kind, s) ==
  {Note(u, from, kind, s) : u \in {v \in people : Owed(v, from)}}

Notifies(new) ==
  notes' = [n \in Notes |-> IF n \in new THEN notes[n] + 1 ELSE notes[n]]

-----------------------------------------------------------------------------
(* Likes                                                                     *)

\* The page refuses a deleted post and one whose author is suspended; then the
\* DELETE, which is all there is to do when it found a row.
like_status(r, m) ==
  /\ Begins(r, m, "like")
  /\ state["post"] = "live" /\ Author \notin shut
  /\ IF m \in likes
     THEN likes' = likes \ {m} /\ UNCHANGED req
     ELSE /\ req' = [req EXCEPT ![r] = [Idle EXCEPT !.by = m, !.of = "like",
                                            !.at = "insert"]]
          /\ UNCHANGED likes
  /\ UNCHANGED <<state, writer, text, tags, notes, held, blocks, shut, liked>>

\* A row that another tab has made meanwhile is as good.
InsertLike(r) ==
  LET m == req[r].by IN
  /\ At(r, "insert")
  /\ likes' = likes \cup {m}
  /\ liked' = IF m \in likes THEN liked ELSE [liked EXCEPT ![m] = @ + 1]
  /\ Goes(r, "liked")
  /\ UNCHANGED <<state, writer, text, tags, notes, held, blocks, shut, lapses,
                 begun>>

TellLike(r) ==
  /\ At(r, "liked")
  /\ Notifies(notify({Author}, req[r].by, "like", "post"))
  /\ Ends(r)
  /\ UNCHANGED <<state, writer, text, tags, likes, held, blocks, shut, liked,
                 lapses, begun>>

\* A Like of another instance; one that is already there says nothing new.
handle_like(m) ==
  /\ Delivered(m) /\ state["post"] = "live" /\ m \notin likes
  /\ likes' = likes \cup {m} /\ liked' = [liked EXCEPT ![m] = @ + 1]
  /\ Notifies(notify({Author}, m, "like", "post"))
  /\ UNCHANGED <<state, writer, text, tags, held, blocks, shut, req, lapses>>

handle_undo(m) ==
  /\ Delivered(m) /\ m \in likes
  /\ likes' = likes \ {m}
  /\ UNCHANGED <<state, writer, text, tags, notes, held, blocks, shut, req,
                 liked, lapses>>

-----------------------------------------------------------------------------
(* Texts and whom they name                                                  *)

\* The author finishes the film or saves the review again; another member
\* replies, once here.  A handle of a suspended account names nobody.  A finish
\* without text keeps the text there is; the mentions are read off the form.
SaveText(r, m, s, names) ==
  /\ Begins(r, m, s)
  /\ \/ s = "post" /\ m = Author /\ state[s] # "deleted"
     \/ /\ s = "reply" /\ state[s] = "none"
        /\ state["post"] = "live" /\ Author \notin shut
  /\ names \cap shut = {}
  /\ state' = [state EXCEPT ![s] = "live"]
  /\ writer' = [writer EXCEPT ![s] = m]
  /\ \/ text' = [text EXCEPT ![s] = names]
     \/ s = "post" /\ names = {} /\ UNCHANGED text
  /\ req' = [req EXCEPT ![r] = [by |-> m, of |-> s, at |-> "saved",
                                names |-> names, seen |-> {}]]
  /\ UNCHANGED <<tags, likes, notes, held, blocks, shut, liked>>

ReadTags(r) ==
  /\ At(r, "saved")
  /\ req' = [req EXCEPT ![r].at = "read", ![r].seen = tags[req[r].of]]
  /\ UNCHANGED <<state, writer, text, tags, likes, notes, held, blocks, shut,
                 liked, lapses, begun>>

\* sync_status_mentions, from the rows it has read: one that is there after
\* all ends the page with a 500.
SyncTags(r) ==
  LET s == req[r].of
      fresh == req[r].names \ req[r].seen
      stale == req[r].seen \ req[r].names
  IN
  /\ At(r, "read")
  /\ IF fresh \cap tags[s] # {}
     THEN Ends(r) /\ UNCHANGED <<tags, lapses>>
     ELSE /\ tags' = [tags EXCEPT ![s] = (@ \ stale) \cup fresh]
          /\ lapses' = lapses
               \cup (IF stale \cap held[s] # {} THEN {"dropped"} ELSE {})
               \cup (IF req[r].names # text[s] THEN {"emptied"} ELSE {})
          /\ Goes(r, "synced")
  /\ UNCHANGED <<state, writer, text, likes, notes, held, blocks, shut, liked,
                 begun>>

\* Who has a note of this text's mention already.
Noted(s) ==
  {u \in Local : \E m \in Members : notes[Note(u, m, "mention", s)] > 0}

\* Slip: the author who is answered is told of both.
AlreadyTold_ParentToo(s) == Noted(s)

\* _already_told: the reply's note covers the author who is answered.
AlreadyTold(s) == Noted(s) \cup IF s = "reply" THEN {Author} ELSE {}

ReadTold(r) ==
  /\ At(r, "synced")
  /\ req' = [req EXCEPT ![r].at = "told", ![r].seen = AlreadyTold(req[r].of)]
  /\ UNCHANGED <<state, writer, text, tags, likes, notes, held, blocks, shut,
                 liked, lapses, begun>>

\* record_mentions, then the broadcast: whoever the rows now name is sent it.
TellAndSend(r) ==
  LET s == req[r].of IN
  /\ At(r, "told")
  /\ Notifies(notify(req[r].names \ req[r].seen, req[r].by, "mention", s))
  /\ held' = [held EXCEPT ![s] = @ \cup (tags[s] \cap Remote)]
  /\ IF s = "reply" THEN Goes(r, "sent") ELSE Ends(r)
  /\ UNCHANGED <<state, writer, text, tags, likes, blocks, shut, liked, lapses,
                 begun>>

TellReply(r) ==
  /\ At(r, "sent")
  /\ Notifies(notify({Author}, req[r].by, "reply", "reply"))
  /\ Ends(r)
  /\ UNCHANGED <<state, writer, text, tags, likes, held, blocks, shut, liked,
                 lapses, begun>>

\* A reply from another instance, and its edits: the sender's own, mentions
\* read off the note, and a reply's note only for a new one.
MirrorReply(m, names) ==
  /\ Delivered(m) /\ state["post"] # "none"
  /\ state["reply"] = "none" \/ (state["reply"] = "live" /\ writer["reply"] = m)
  /\ names \cap shut = {}
  /\ state' = [state EXCEPT !["reply"] = "live"]
  /\ writer' = [writer EXCEPT !["reply"] = m]
  /\ text' = [text EXCEPT !["reply"] = names]
  /\ tags' = [tags EXCEPT !["reply"] = names]
  /\ Notifies(notify(names \ AlreadyTold("reply"), m, "mention", "reply")
                \cup IF state["reply"] = "none"
                     THEN notify({Author}, m, "reply", "reply") ELSE {})
  /\ UNCHANGED <<likes, held, blocks, shut, req, liked, lapses>>

\* delete_review, and then the Delete to whoever the rows name.
DeletePost(r) ==
  /\ Begins(r, Author, "post") /\ state["post"] = "live"
  /\ state' = [state EXCEPT !["post"] = "deleted"]
  /\ req' = [req EXCEPT ![r] = [Idle EXCEPT !.by = Author, !.at = "tombstone"]]
  /\ UNCHANGED <<writer, text, tags, likes, notes, held, blocks, shut, liked>>

SendDelete(r) ==
  /\ At(r, "tombstone")
  /\ held' = [held EXCEPT !["post"] = @ \ tags["post"]]
  /\ Ends(r)
  /\ UNCHANGED <<state, writer, text, tags, likes, notes, blocks, shut, liked,
                 lapses, begun>>

-----------------------------------------------------------------------------
Crash(r) ==
  /\ ~At(r, "idle") /\ Ends(r)
  /\ lapses' = lapses \cup {"crashed"}
  /\ UNCHANGED <<state, writer, text, tags, likes, notes, held, blocks, shut,
                 liked, begun>>

Next ==
  \/ \E r \in Requests :
       \/ \E m \in Members :
            \/ like_status(r, m)
            \/ \E s \in Statuses, names \in Named :
                 SaveText(r, m, s, names)
       \/ InsertLike(r)
       \/ TellLike(r)
       \/ ReadTags(r)
       \/ SyncTags(r)
       \/ ReadTold(r)
       \/ TellAndSend(r)
       \/ TellReply(r)
       \/ DeletePost(r)
       \/ SendDelete(r)
       \/ Crash(r)
  \/ \E m \in Members :
       \/ handle_like(m)
       \/ handle_undo(m)
       \/ \E names \in Named : MirrorReply(m, names)

Spec == Init /\ [][Next]_vars

-----------------------------------------------------------------------------
(* Properties *)

Quiet == \A r \in Requests : At(r, "idle")

\* How often one was told of another's likes, reply or mention.
Told(to, from, kind, s) == notes[Note(to, from, kind, s)]

\* Nobody is told of one event twice: each like once, a reply by one note
\* though it names the author too, and a mention once however often the text
\* is edited.
NobodyTwice ==
  /\ \A m \in Members : Told(Author, m, "like", "post") <= liked[m]
  /\ \A u \in Local, m \in Members, s \in Statuses :
       Told(u, m, "mention", s) <= 1
  /\ \A m \in Members :
       Told(Author, m, "reply", "reply")
         + Told(Author, m, "mention", "reply") <= 1

\* Nobody who is to be told is missed, and nobody is told of what somebody does
\* whom they have blocked, or told while shut out.
NobodyMissed ==
  /\ \A m \in Members : Told(Author, m, "like", "post") =
       IF Owed(Author, m) THEN liked[m] ELSE 0
  /\ \A s \in Statuses, u \in Local : state[s] = "live" /\ u \in text[s] =>
       \/ s = "reply" /\ u = Author
       \/ Told(u, writer[s], "mention", s) = IF Owed(u, writer[s]) THEN 1 ELSE 0
  /\ state["reply"] = "live" =>
       Told(Author, writer["reply"], "reply", "reply") =
         IF Owed(Author, writer["reply"]) THEN 1 ELSE 0

\* The rows name whom the text names, and its copies are where the rows say.
RowsAreTheText ==
  \A s \in Statuses : state[s] = "live" =>
    /\ tags[s] = text[s]
    /\ writer[s] \in Local => text[s] \cap Remote \subseteq held[s]

\* With one tab at a time ("crossed"), nobody is told twice whatever happens;
\* and once the requests are over, unless one died ("crashed"), the rows are
\* the text, unless a finish without text kept one that names somebody
\* ("emptied"), nobody was missed, and a deleted post is deleted wherever it was
\* sent, unless an edit took the name out first ("dropped").
NamedAreReached ==
  "crossed" \notin lapses =>
    /\ NobodyTwice
    /\ Quiet /\ "crashed" \notin lapses =>
         /\ "emptied" \notin lapses => RowsAreTheText
         /\ NobodyMissed
         /\ "dropped" \notin lapses =>
              (state["post"] = "deleted" => held["post"] = {})
=============================================================================
